--------------------------- MODULE FtpClientProofs ---------------------------
(***************************************************************************)
(* Theorems about FtpClient, for files of any size, any calls and any       *)
(* number of faults; and about Sockets, what blocks as it does, for         *)
(* streams, windows and bounds of any size.                                 *)
(***************************************************************************)
EXTENDS FtpClient, Sockets, SequenceTheorems, TLAPS

-----------------------------------------------------------------------------
(* What is left of a call                                                   *)

Verbs == {"dial", "USER", "PASS", "MKD", "TYPE", "SIZE", "PASV", "REST", "RETR", "STOR",
          "end", "abort", "QUIT"}
Expected(v) ==
  IF v \in {"USER", "REST"} THEN "3" ELSE IF v \in {"RETR", "STOR"} THEN "1" ELSE "2"
C(v) == Command(v, Expected(v))

PlanOfTransfer(v, t) ==
  \/ t = <<C("TYPE"), C("PASV"), C("REST"), C(v), C("end")>>
  \/ t = <<C("TYPE"), C("PASV"), C(v), C("end")>>
  \/ t = <<C("PASV"), C("REST"), C(v), C("end")>>
  \/ t = <<C("PASV"), C(v), C("end")>>
  \/ t = <<C("REST"), C(v), C("end")>>
  \/ t = <<C(v), C("end")>>
  \/ t = <<C("end")>>

(* t is what the call c may have left to do.                                *)
Plan(c, t) ==
  \/ c = "connect" /\ t = <<C("dial")>>
  \/ c = "login" /\ (t = <<C("USER"), C("PASS")>> \/ t = <<C("PASS")>>)
  \/ c = "mkdir" /\ t = <<C("MKD")>>
  \/ c = "size" /\ (t = <<C("TYPE"), C("SIZE")>> \/ t = <<C("SIZE")>>)
  \/ c = "quit" /\ t = <<C("QUIT")>>
  \/ c = "get" /\ PlanOfTransfer("RETR", t)
  \/ c = "put" /\ (PlanOfTransfer("STOR", t) \/ t = <<C("abort")>>)

Ends(v) == v \in {"dial", "PASS", "MKD", "SIZE", "QUIT", "end", "abort"}
Moves(v) == v \in {"RETR", "STOR"}

(* Where the client may be with the command v ahead.                        *)
PlaceOf(a, v, c) ==
  /\ a = "send" => v \notin {"dial", "end", "abort"}
  /\ a = "dial" => v = "dial" \/ Moves(v)
  /\ a = "read" => v = "end" /\ c = "get"
  /\ a = "write" => v = "end" /\ c = "put"

LEMMA Commands ==
  ASSUME NEW v
  PROVE  C(v).verb = v /\ C(v).expected = Expected(v)
BY DEF C, Command

LEMMA Tuples ==
  ASSUME NEW a, NEW b, NEW c, NEW d, NEW e
  PROVE  /\ Len(<<a>>) = 1 /\ Head(<<a>>) = a /\ <<a>>[1] = a /\ <<a>> # <<>>
         /\ Len(<<a, b>>) = 2 /\ Head(<<a, b>>) = a /\ Tail(<<a, b>>) = <<b>>
         /\ <<a, b>>[2] = b /\ <<a, b>> # <<>>
         /\ Len(<<a, b, c>>) = 3 /\ Head(<<a, b, c>>) = a /\ Tail(<<a, b, c>>) = <<b, c>>
         /\ <<a, b, c>>[3] = c /\ <<a, b, c>> # <<>>
         /\ Len(<<a, b, c, d>>) = 4 /\ Head(<<a, b, c, d>>) = a
         /\ Tail(<<a, b, c, d>>) = <<b, c, d>> /\ <<a, b, c, d>>[4] = d /\ <<a, b, c, d>> # <<>>
         /\ Len(<<a, b, c, d, e>>) = 5 /\ Head(<<a, b, c, d, e>>) = a
         /\ Tail(<<a, b, c, d, e>>) = <<b, c, d, e>> /\ <<a, b, c, d, e>>[5] = e
         /\ <<a, b, c, d, e>> # <<>>
OBVIOUS

(* The command ahead, and what comes after it.                              *)
Ahead(c, t) ==
  /\ t # <<>> /\ Head(t).verb \in Verbs /\ Head(t).expected = Expected(Head(t).verb)
  /\ Len(t) \in Nat \ {0}
  /\ Len(t) > 1 <=> ~Ends(Head(t).verb)
  /\ c \in {"get", "put"} <=> Head(t).verb \in {"PASV", "REST", "RETR", "STOR", "end", "abort"}
                              \/ (Head(t).verb = "TYPE" /\ c # "size")
  /\ Head(t).verb = "RETR" => c = "get"
  /\ Head(t).verb \in {"STOR", "abort"} => c = "put"
  /\ Head(t).verb = "dial" <=> c = "connect"
  /\ Head(t).verb = "USER" => c = "login"
Onward(c, t) ==
  Len(t) > 1 => /\ Plan(c, Tail(t))
                /\ Moves(Head(t).verb) <=> Head(Tail(t)).verb \in {"dial", "end", "abort"}
                /\ Moves(Head(t).verb) => Head(Tail(t)).verb = "end"
Last(c, t) ==
  c \in {"get", "put"} /\ Head(t).verb # "abort" => Plan(c, <<t[Len(t)]>>)

LEMMA TransferAhead ==
  ASSUME NEW v \in {"RETR", "STOR"}, NEW t, PlanOfTransfer(v, t),
         NEW c, c = IF v = "RETR" THEN "get" ELSE "put"
  PROVE  Ahead(c, t) /\ Onward(c, t) /\ Last(c, t)
<1>1. \A u : PlanOfTransfer(v, u) => Plan(c, u)
  BY DEF Plan
<1> HIDE DEF Plan
<1>2. CASE t = <<C("TYPE"), C("PASV"), C("REST"), C(v), C("end")>>
  BY <1>1, <1>2, Commands, Tuples
     DEF Ahead, Onward, Last, PlanOfTransfer, Expected, Ends, Moves, Verbs
<1>3. CASE t = <<C("TYPE"), C("PASV"), C(v), C("end")>>
  BY <1>1, <1>3, Commands, Tuples
     DEF Ahead, Onward, Last, PlanOfTransfer, Expected, Ends, Moves, Verbs
<1>4. CASE t = <<C("PASV"), C("REST"), C(v), C("end")>>
  BY <1>1, <1>4, Commands, Tuples
     DEF Ahead, Onward, Last, PlanOfTransfer, Expected, Ends, Moves, Verbs
<1>5. CASE t = <<C("PASV"), C(v), C("end")>>
  BY <1>1, <1>5, Commands, Tuples
     DEF Ahead, Onward, Last, PlanOfTransfer, Expected, Ends, Moves, Verbs
<1>6. CASE t = <<C("REST"), C(v), C("end")>>
  BY <1>1, <1>6, Commands, Tuples
     DEF Ahead, Onward, Last, PlanOfTransfer, Expected, Ends, Moves, Verbs
<1>7. CASE t = <<C(v), C("end")>>
  BY <1>1, <1>7, Commands, Tuples
     DEF Ahead, Onward, Last, PlanOfTransfer, Expected, Ends, Moves, Verbs
<1>8. CASE t = <<C("end")>>
  BY <1>1, <1>8, Commands, Tuples
     DEF Ahead, Onward, Last, PlanOfTransfer, Expected, Ends, Moves, Verbs
<1> QED
  BY <1>2, <1>3, <1>4, <1>5, <1>6, <1>7, <1>8 DEF PlanOfTransfer

LEMMA PlanAhead ==
  ASSUME NEW c, NEW t, Plan(c, t)
  PROVE  Ahead(c, t) /\ Onward(c, t) /\ Last(c, t)
<1>1. CASE c = "get" /\ PlanOfTransfer("RETR", t)
  BY <1>1, TransferAhead
<1>2. CASE c = "put" /\ PlanOfTransfer("STOR", t)
  BY <1>2, TransferAhead
<1>3. CASE c = "put" /\ t = <<C("abort")>>
  BY <1>3, Commands, Tuples DEF Ahead, Onward, Last, Expected, Ends, Moves, Verbs
<1>4. CASE c = "connect" /\ t = <<C("dial")>>
  BY <1>4, Commands, Tuples DEF Ahead, Onward, Last, Expected, Ends, Moves, Verbs
<1>5. CASE c = "login" /\ t = <<C("PASS")>>
  BY <1>5, Commands, Tuples DEF Ahead, Onward, Last, Expected, Ends, Moves, Verbs
<1>6. CASE c = "login" /\ t = <<C("USER"), C("PASS")>>
  <2>1. Plan(c, <<C("PASS")>>)
    BY <1>6 DEF Plan
  <2> QED
    BY <1>6, <2>1, Commands, Tuples DEF Ahead, Onward, Last, Expected, Ends, Moves, Verbs
<1>7. CASE c = "mkdir" /\ t = <<C("MKD")>>
  BY <1>7, Commands, Tuples DEF Ahead, Onward, Last, Expected, Ends, Moves, Verbs
<1>8. CASE c = "size" /\ t = <<C("TYPE"), C("SIZE")>>
  <2>1. Plan(c, <<C("SIZE")>>)
    BY <1>8 DEF Plan
  <2> QED
    BY <1>8, <2>1, Commands, Tuples DEF Ahead, Onward, Last, Expected, Ends, Moves, Verbs
<1>9. CASE c = "size" /\ t = <<C("SIZE")>>
  BY <1>9, Commands, Tuples DEF Ahead, Onward, Last, Expected, Ends, Moves, Verbs
<1>10. CASE c = "quit" /\ t = <<C("QUIT")>>
  BY <1>10, Commands, Tuples DEF Ahead, Onward, Last, Expected, Ends, Moves, Verbs
<1> QED
  BY <1>1, <1>2, <1>3, <1>4, <1>5, <1>6, <1>7, <1>8, <1>9, <1>10 DEF Plan

LEMMA Shapes ==
  ASSUME NEW S, NEW s \in Seq(S)
  PROVE  /\ Len(s) = 0 => s = <<>>
         /\ Len(s) = 1 => s = <<s[1]>>
         /\ Len(s) = 2 => s = <<s[1], s[2]>>
         /\ Len(s) = 3 => s = <<s[1], s[2], s[3]>>
         /\ Len(s) = 4 => s = <<s[1], s[2], s[3], s[4]>>
         /\ Len(s) = 5 => s = <<s[1], s[2], s[3], s[4], s[5]>>
<1>1. Len(s) = 0 => s = <<>>
  BY EmptySeq
<1>2. Len(s) = 1 => s = <<s[1]>>
  OBVIOUS
<1>3. Len(s) = 2 => s = <<s[1], s[2]>>
  OBVIOUS
<1>4. Len(s) = 3 => s = <<s[1], s[2], s[3]>>
  OBVIOUS
<1>5. Len(s) = 4 => s = <<s[1], s[2], s[3], s[4]>>
  OBVIOUS
<1>6. Len(s) = 5 => s = <<s[1], s[2], s[3], s[4], s[5]>>
  OBVIOUS
<1> QED
  BY <1>1, <1>2, <1>3, <1>4, <1>5, <1>6

LEMMA Append1 == ASSUME NEW a PROVE Append(<<>>, a) = <<a>>
<1>1. <<>> \in Seq({a})
  OBVIOUS
<1>2. Append(<<>>, a) \in Seq({a}) /\ Len(Append(<<>>, a)) = 1 /\ Append(<<>>, a)[1] = a
  BY <1>1, AppendProperties, EmptySeq
<1> QED
  BY <1>2, Shapes

LEMMA Append2 ==
  ASSUME NEW a, NEW b PROVE Append(<<a>>, b) = <<a, b>>
<1> DEFINE s == Append(<<a>>, b)
<1>1. /\ s \in Seq({a, b}) /\ Len(s) = 2
      /\ s[1] = a /\ s[2] = b
  OBVIOUS
<1> HIDE DEF s
<1>2. s = <<a, b>>
  BY <1>1, Shapes
<1> QED
  BY <1>2 DEF s

LEMMA Append3 ==
  ASSUME NEW a, NEW b, NEW c PROVE Append(<<a, b>>, c) = <<a, b, c>>
<1> DEFINE s == Append(<<a, b>>, c)
<1>1. /\ s \in Seq({a, b, c}) /\ Len(s) = 3
      /\ s[1] = a /\ s[2] = b /\ s[3] = c
  OBVIOUS
<1> HIDE DEF s
<1>2. s = <<a, b, c>>
  BY <1>1, Shapes
<1> QED
  BY <1>2 DEF s

LEMMA Append4 ==
  ASSUME NEW a, NEW b, NEW c, NEW d PROVE Append(<<a, b, c>>, d) = <<a, b, c, d>>
<1> DEFINE s == Append(<<a, b, c>>, d)
<1>1. /\ s \in Seq({a, b, c, d}) /\ Len(s) = 4
      /\ s[1] = a /\ s[2] = b /\ s[3] = c /\ s[4] = d
  OBVIOUS
<1> HIDE DEF s
<1>2. s = <<a, b, c, d>>
  BY <1>1, Shapes
<1> QED
  BY <1>2 DEF s

LEMMA Append5 ==
  ASSUME NEW a, NEW b, NEW c, NEW d, NEW e PROVE Append(<<a, b, c, d>>, e) = <<a, b, c, d, e>>
<1> DEFINE s == Append(<<a, b, c, d>>, e)
<1>1. /\ s \in Seq({a, b, c, d, e}) /\ Len(s) = 5
      /\ s[1] = a /\ s[2] = b /\ s[3] = c /\ s[4] = d /\ s[5] = e
  OBVIOUS
<1> HIDE DEF s
<1>2. s = <<a, b, c, d, e>>
  BY <1>1, Shapes
<1> QED
  BY <1>2 DEF s

LEMMA ConcatTuples ==
  ASSUME NEW a, NEW b, NEW d, NEW e, NEW f
  PROVE  /\ (<<a, b>> \o <<>>) \o <<e, f>> = <<a, b, e, f>>
         /\ (<<a, b>> \o <<d>>) \o <<e, f>> = <<a, b, d, e, f>>
<1> DEFINE S == {a, b, d, e, f}
<1>1. /\ <<d>> \in Seq(S) /\ <<a, b>> \in Seq(S) /\ <<a, b, d>> \in Seq(S)
      /\ <<e>> \in Seq(S) /\ <<f>> \in Seq(S) /\ d \in S /\ e \in S /\ f \in S
  OBVIOUS
<1> HIDE DEF S
<1>2. \A s \in Seq(S) : s \o <<e, f>> = Append(Append(s, e), f)
  <2> SUFFICES ASSUME NEW s \in Seq(S) PROVE s \o <<e, f>> = Append(Append(s, e), f)
    OBVIOUS
  <2>1. <<e, f>> = <<e>> \o <<f>>
    BY <1>1, AppendIsConcat, Append2, Append3, Append4, Append5
  <2>2. s \o <<e, f>> = (s \o <<e>>) \o <<f>>
    BY <1>1, <2>1, ConcatAssociative
  <2>3. s \o <<e>> = Append(s, e) /\ Append(s, e) \in Seq(S)
    BY <1>1, AppendIsConcat, AppendProperties
  <2>4. Append(s, e) \o <<f>> = Append(Append(s, e), f)
    BY <1>1, <2>3, AppendIsConcat
  <2> QED
    BY <2>2, <2>3, <2>4
<1>3. <<a, b>> \o <<>> = <<a, b>>
  BY <1>1, ConcatEmptySeq
<1>4. <<a, b>> \o <<d>> = Append(<<a, b>>, d)
  BY <1>1, AppendIsConcat
<1>5. Append(<<a, b>>, d) = <<a, b, d>> /\ Append(<<a, b>>, e) = <<a, b, e>>
  BY Append3
<1>6. Append(<<a, b, e>>, f) = <<a, b, e, f>> /\ Append(<<a, b, d>>, e) = <<a, b, d, e>>
  BY Append4
<1>7. Append(<<a, b, d, e>>, f) = <<a, b, d, e, f>>
  BY Append5
<1>8. <<a, b>> \o <<e, f>> = Append(Append(<<a, b>>, e), f)
  BY <1>1, <1>2
<1>9. <<a, b, d>> \o <<e, f>> = Append(Append(<<a, b, d>>, e), f)
  BY <1>1, <1>2
<1> QED
  BY <1>3, <1>4, <1>5, <1>6, <1>7, <1>8, <1>9

(* A call begins with the whole of its script.                              *)
LEMMA ScriptIsPlan ==
  ASSUME NEW c \in {"connect", "login", "mkdir", "size", "get", "put", "quit"}, NEW from
  PROVE  /\ Plan(c, Script(c, from))
         /\ c # "connect" => Head(Script(c, from)).verb \notin {"dial", "end", "abort"}
         /\ Head(Script("connect", from)).verb = "dial"
<1>1. \A v \in {"RETR", "STOR"} :
        /\ PlanOfTransfer(v, Transfer(v, from))
        /\ Head(Transfer(v, from)).verb = "TYPE"
  <2> SUFFICES ASSUME NEW v \in {"RETR", "STOR"}
               PROVE  /\ PlanOfTransfer(v, Transfer(v, from))
                      /\ Head(Transfer(v, from)).verb = "TYPE"
    OBVIOUS
  <2> DEFINE a == C("TYPE")  b == C("PASV")  d == C("REST")  e == C(v)  f == C("end")
  <2>1. Transfer(v, from) = <<a, b>> \o (IF from # 0 THEN <<d>> ELSE <<>>) \o <<e, f>>
    BY DEF Transfer, C, Expected
  <2>2. a.verb = "TYPE"
    BY Commands
  <2> HIDE DEF a, b, d, e, f
  <2>5. Transfer(v, from) = <<a, b, d, e, f>> \/ Transfer(v, from) = <<a, b, e, f>>
    <3>1. CASE from # 0
      <4>1. Transfer(v, from) = (<<a, b>> \o <<d>>) \o <<e, f>>
        BY <2>1, <3>1
      <4> QED
        BY <4>1, ConcatTuples
    <3>2. CASE from = 0
      <4>1. Transfer(v, from) = (<<a, b>> \o <<>>) \o <<e, f>>
        BY <2>1, <3>2
      <4> QED
        BY <4>1, ConcatTuples
    <3> QED
      BY <3>1, <3>2
  <2>6. Head(Transfer(v, from)).verb = "TYPE"
    BY <2>2, <2>5, Tuples
  <2>7. PlanOfTransfer(v, Transfer(v, from))
    BY <2>5 DEF PlanOfTransfer, a, b, d, e, f
  <2> QED
    BY <2>6, <2>7
<1>0. Head(Script("connect", from)).verb = "dial"
  BY Tuples DEF Script, Command
<1>2. CASE c = "get"
  <2>1. Script(c, from) = Transfer("RETR", from)
    BY <1>2 DEF Script
  <2>2. PlanOfTransfer("RETR", Script(c, from)) /\ Head(Script(c, from)).verb = "TYPE"
    BY <1>1, <2>1
  <2> QED
    BY <1>0, <1>2, <2>2 DEF Plan
<1>3. CASE c = "put"
  <2>1. Script(c, from) = Transfer("STOR", from)
    BY <1>3 DEF Script
  <2>2. PlanOfTransfer("STOR", Script(c, from)) /\ Head(Script(c, from)).verb = "TYPE"
    BY <1>1, <2>1
  <2> QED
    BY <1>0, <1>3, <2>2 DEF Plan
<1>4. CASE c = "connect"
  BY <1>4, Commands, Tuples DEF Script, Plan, C, Expected
<1>5. CASE c = "login"
  BY <1>5, Commands, Tuples DEF Script, Plan, C, Expected
<1>6. CASE c = "mkdir"
  BY <1>6, Commands, Tuples DEF Script, Plan, C, Expected
<1>7. CASE c = "size"
  BY <1>7, Commands, Tuples DEF Script, Plan, C, Expected
<1>8. CASE c = "quit"
  BY <1>8, Commands, Tuples DEF Script, Plan, C, Expected
<1> QED
  BY <1>0, <1>2, <1>3, <1>4, <1>5, <1>6, <1>7, <1>8

-----------------------------------------------------------------------------
(* The types                                                                *)

LineType(n) ==
  {l \in [of : 0..n, class : Classes \cup {"none", "errno"}, more : BOOLEAN] :
     l.more => l.class \in Classes}
CommandType(n) == [n : 0..n, verb : Verbs, begun : Classes \cup {"none"}]
XferType(n) == [n : 0..n, verb : Verbs \cup {"none"}, stage : {"none", "open", "ended", "broken"}]
Places == {"idle", "send", "dial", "await", "rest", "read", "write"}

ClientType ==
  /\ sent \in Nat /\ data \in 0..sent /\ calls \in 0..MaxCalls
  /\ at \in Places /\ call \in Calls \cup {"none"} /\ result \in {-1, 0, 1}
  /\ handle \in {"none", "open", "dead"} /\ match \in Classes \cup {"none"}
  /\ response \in LineType(sent)
  /\ fault \subseteq Faults \cup {"uninit", "stale"}
WireType ==
  /\ buffered \in Seq(LineType(sent)) /\ kernel \in Seq(LineType(sent))
  /\ server \in Seq(CommandType(sent)) /\ xfer \in XferType(sent)
FileType ==
  /\ local \in Seq(Nat) /\ wire \in Seq(Nat) /\ remote \in Seq(Nat)
  /\ Len(local) + Len(wire) + Len(remote) <= Blocks

(* Where the client is in its call, and that Connect begins with no         *)
(* connection and, unless lines were left over, an empty buffer.            *)
PlaceInv ==
  /\ at # "idle" => Plan(call, todo) /\ PlaceOf(at, Verb, call)
  /\ at = "dial" /\ call = "connect" => handle = "none" /\ (buffered = <<>> \/ "stale" \in fault)

TypeInv == ClientType /\ WireType /\ FileType /\ PlaceInv

-----------------------------------------------------------------------------
(* What is under way between client and server, as long as the server has   *)
(* answered in time                                                         *)

Clean == handle = "open" /\ Unanswered = {}
Lines == buffered \o kernel
Reply(c) == Line(sent, c, FALSE)
Asked(v, b) == [n |-> sent, verb |-> v, begun |-> b]

(* Nothing.                                                                 *)
Settled == Lines = <<>> /\ server = <<>> /\ xfer = NoXfer

(* The blocks, wherever they are, are the file; none has moved yet.         *)
Whole ==
  /\ call = "get" => local \o (wire \o remote) = File
  /\ call = "put" => remote \o (wire \o local) = File
Prepared == wire = <<>> /\ Whole

(* The reply to the command ahead, which has begun no transfer.             *)
Asking ==
  /\ Prepared /\ xfer = NoXfer
  /\ \/ Lines = <<>> /\ server = <<Asked(Verb, "none")>>
     \/ server = <<>> /\ \E c \in Classes \ {"1"} : Lines = <<Reply(c)>>

(* The greeting, of one line or two.                                        *)
Greeting ==
  /\ xfer = NoXfer
  /\ \/ /\ at = "await"
        /\ \/ Lines = <<>> /\ server = <<Asked("dial", "none")>>
           \/ \E c \in {"2", "4"} :
                \/ Lines = <<Line(sent, c, TRUE)>> /\ server = <<Asked("dial", c)>>
                \/ Lines = <<Line(sent, c, TRUE), Reply(c)>> /\ server = <<>>
                \/ Lines = <<Reply(c)>> /\ server = <<>>
     \/ /\ at = "rest" /\ match \in {"2", "4"}
        /\ \/ Lines = <<>> /\ server = <<Asked("dial", match)>>
           \/ Lines = <<Reply(match)>> /\ server = <<>>

(* A transfer that the server has begun: w says how it goes.  Its last      *)
(* reply, and before that the first one, may be on their way.               *)
Unspoilt == fault \cap {"disk", "reset"} = {}
Waiting == at = "await" /\ Verb = "end"
Kept(w) ==
  Unspoilt /\ w # "broken" =>
    /\ Whole
    /\ w = "ended" => (call = "get" => remote = <<>>) /\ (call = "put" => wire = <<>>)
    /\ Waiting => /\ call = "get" => wire = <<>> /\ w = "ended"
                  /\ call = "put" => local = <<>>
First == IF at = "await" /\ Moves(Verb) THEN <<Reply("1")>> ELSE <<>>
Verdict(w) == IF w = "ended" THEN "2" ELSE "4"
Running(w) ==
  /\ Lines = First
  /\ xfer = [n |-> sent, verb |-> IF call = "get" THEN "RETR" ELSE "STOR", stage |-> w]
Over(w) == w # "open" /\ Lines = Append(First, Reply(Verdict(w))) /\ xfer = NoXfer
Transferring ==
  server = <<>> /\ \E w \in {"open", "ended", "broken"} : Kept(w) /\ (Running(w) \/ Over(w))

Told ==
  result = 1 => /\ response.of = sent /\ response.class = "2"
                /\ Unspoilt => (call = "get" => local = File) /\ (call = "put" => remote = File)

Moving == at \in {"read", "write"} \/ (at = "await" /\ Moves(Verb))

UnderWay ==
  /\ at = "idle" => Settled /\ Told
  /\ at = "send" => Settled /\ Prepared
  /\ at = "dial" => Prepared /\ xfer = NoXfer /\ Lines = <<>> /\ server = <<Asked(Verb, "none")>>
  /\ at \in {"await", "rest"} /\ Verb = "dial" => Greeting
  /\ at = "rest" => Verb = "dial"
  /\ at = "await" /\ Verb # "dial" =>
       \/ Verb \notin {"end", "abort"} /\ Asking
       \/ (Moves(Verb) \/ Verb \in {"end", "abort"}) /\ Transferring
  /\ at \in {"read", "write"} => Transferring
  /\ Moving => data = sent

StepInv == Clean => UnderWay

-----------------------------------------------------------------------------
(* How a call goes on                                                       *)

(* What a judgement of a reply may change, and where it may lead.           *)
GoesOn ==
  /\ at' \in Places \ {"dial"} /\ result' \in {-1, 0, 1} /\ data' \in {0, data}
  /\ handle' \in {handle, "none"}
  /\ fault \subseteq fault'
  /\ fault' \subseteq fault \cup {"uninit"} \cup (IF at = "dial" THEN {"nodata"} ELSE {})
  /\ at' # "idle" => Plan(call, todo') /\ PlaceOf(at', Head(todo').verb, call)

LEMMA AheadHere ==
  ASSUME PlaceInv, at # "idle"
  PROVE  /\ Plan(call, todo) /\ PlaceOf(at, Verb, call)
         /\ Verb \in Verbs /\ Head(todo).expected = Expected(Verb) /\ Len(todo) \in Nat
         /\ Len(todo) > 1 <=> ~Ends(Verb)
         /\ Ahead(call, todo) /\ Onward(call, todo) /\ Last(call, todo)
BY PlanAhead DEF PlaceInv, Ahead, Verb

LEMMA FailedGoesOn ==
  ASSUME PlaceInv, at # "idle", result \in {-1, 0, 1}, NEW resp, Failed(resp)
  PROVE  GoesOn
<1>1. /\ data' \in {0, data} /\ handle' \in {handle, "none"}
  BY DEF Failed, Abandons, HangsUp
<1>2. CASE Verb \in {"REST", "RETR", "STOR"}
  <2>1. Unopened
    BY <1>2 DEF Failed
  <2>2. /\ fault \subseteq fault'
        /\ fault' \subseteq fault \cup {"uninit"} \cup (IF at = "dial" THEN {"nodata"} ELSE {})
    BY <2>1 DEF Unopened
  <2>3. PICK writes \in BOOLEAN :
          /\ writes => call = "put"
          /\ \/ Return(IF writes THEN 0 ELSE -1)
             \/ /\ at' = "await"
                /\ todo' = <<IF writes THEN Abort ELSE todo[Len(todo)]>>
                /\ UNCHANGED result
    BY <2>1 DEF Unopened
  <2>4. CASE Return(IF writes THEN 0 ELSE -1)
    BY <1>1, <2>2, <2>4 DEF Return, GoesOn, Places
  <2>5. CASE /\ at' = "await"
             /\ todo' = <<IF writes THEN Abort ELSE todo[Len(todo)]>>
             /\ UNCHANGED result
    <3>1. ASSUME writes PROVE Plan(call, todo')
      <4>1. todo' = <<C("abort")>> /\ call = "put"
        BY <2>3, <2>5, <3>1 DEF Abort, C, Expected
      <4> QED
        BY <4>1 DEF Plan
    <3>2. ASSUME ~writes PROVE Plan(call, todo')
      <4>1. todo' = <<todo[Len(todo)]>>
        BY <2>5, <3>2
      <4>2. Head(todo).verb # "abort" /\ call \in {"get", "put"}
        BY <1>2, AheadHere DEF Ahead, Verb
      <4> QED
        BY <4>1, <4>2, AheadHere DEF Last
    <3> QED
      BY <1>1, <2>2, <2>5, <3>1, <3>2 DEF GoesOn, PlaceOf, Places
  <2> QED
    BY <2>3, <2>4, <2>5
<1>3. CASE Verb \notin {"REST", "RETR", "STOR"}
  <2>1. /\ \E r \in {-1, 0, 1} : Return(r)
        /\ UNCHANGED fault
    BY <1>3 DEF Failed
  <2> QED
    BY <1>1, <2>1 DEF Return, GoesOn, Places
<1> QED
  BY <1>2, <1>3

LEMMA DoneGoesOn ==
  ASSUME PlaceInv, at # "idle", result \in {-1, 0, 1}, Done
  PROVE  GoesOn
<1>1. /\ data' = data /\ handle' \in {handle, "none"} /\ fault' = fault
  BY DEF Done, HangsUp
<1>0. CASE NoAddress
  <2>1. Return(0)
    BY <1>0 DEF NoAddress
  <2> QED
    BY <1>1, <2>1 DEF Return, GoesOn, Places
<1>2. CASE ~NoAddress /\ Len(todo) > 1
  <2>1. /\ todo' = Tail(todo) /\ UNCHANGED result
        /\ at' = CASE Verb = "RETR" -> "read"
                   [] Verb = "STOR" -> "write"
                   [] OTHER -> "send"
    BY <1>2 DEF Done
  <2>2. /\ Plan(call, todo')
        /\ Moves(Verb) <=> Head(todo').verb \in {"dial", "end", "abort"}
        /\ Moves(Verb) => Head(todo').verb = "end"
        /\ Verb = "RETR" => call = "get"
        /\ Verb = "STOR" => call = "put"
    BY <1>2, <2>1, AheadHere DEF Onward, Ahead, Verb
  <2>3. at' \in {"read", "write", "send"} /\ PlaceOf(at', Head(todo').verb, call)
    BY <2>1, <2>2 DEF PlaceOf, Moves
  <2> QED
    BY <1>1, <2>1, <2>2, <2>3 DEF GoesOn, Places
<1>3. CASE ~NoAddress /\ ~(Len(todo) > 1)
  <2>1. \E r \in {-1, 0, 1} : Return(r)
    BY <1>3 DEF Done
  <2> QED
    BY <1>1, <2>1 DEF Return, GoesOn, Places
<1> QED
  BY <1>0, <1>2, <1>3

(* After a readline: the next line is awaited, or the reply judged.         *)
LEMMA ExamineGoesOn ==
  ASSUME PlaceInv, at \in {"await", "rest"}, NEW resp, resp.more => resp.class \in Classes,
         match \in Classes \cup {"none"}, result \in {-1, 0, 1}, Examine(resp)
  PROVE  GoesOn /\ match' \in Classes \cup {"none"}
<1>1. CASE /\ at = "await" /\ resp.more
           /\ at' = "rest" /\ match' = resp.class
           /\ UNCHANGED <<todo, result, handle, data, fault>>
  BY <1>1, AheadHere DEF GoesOn, PlaceOf, Places
<1>2. CASE /\ at = "rest" /\ (resp.more \/ resp.class # match)
           /\ UNCHANGED <<at, match, todo, result, handle, data, fault>>
  BY <1>2, AheadHere DEF GoesOn, PlaceOf, Places
<1>3. CASE Judge(resp) /\ UNCHANGED match
  BY <1>3, FailedGoesOn, DoneGoesOn DEF Judge
<1> QED
  BY <1>1, <1>2, <1>3 DEF Examine

-----------------------------------------------------------------------------
(* Files and lines                                                          *)

LEMMA SplitFile ==
  ASSUME NEW from \in 0..(Blocks - 1)
  PROVE  /\ SubSeq(File, 1, from) \in Seq(Nat) /\ Len(SubSeq(File, 1, from)) = from
         /\ SubSeq(File, from + 1, Blocks) \in Seq(Nat)
         /\ Len(SubSeq(File, from + 1, Blocks)) = Blocks - from
         /\ SubSeq(File, 1, from) \o SubSeq(File, from + 1, Blocks) = File
<1>1. Blocks \in Nat \ {0} /\ from \in Nat /\ from <= Blocks - 1
  BY FtpAssumption DEF FtpAssumption
<1>2. File \in Seq(Nat) /\ Len(File) = Blocks
  BY <1>1 DEF File
<1> HIDE DEF File
<1>3. \A i \in 1..Blocks : File[i] \in Nat
  BY <1>2, ElementOfSeq
<1>4. (\A i \in 1..from : File[i] \in Nat) /\ (\A i \in (from + 1)..Blocks : File[i] \in Nat)
  BY <1>1, <1>3
<1>5. SubSeq(File, 1, from) \in Seq(Nat) /\ Len(SubSeq(File, 1, from)) = from
  BY <1>1, <1>4, SubSeqProperties
<1>6. /\ SubSeq(File, from + 1, Blocks) \in Seq(Nat)
      /\ Len(SubSeq(File, from + 1, Blocks)) = Blocks - from
  BY <1>1, <1>4, SubSeqProperties
<1>7. SubSeq(File, 1, from) \o SubSeq(File, from + 1, Blocks) = SubSeq(File, 1, Blocks)
  <2>1. 1 \in 1..(Len(File) + 1) /\ from \in (1 - 1)..Len(File) /\ Blocks \in from..Len(File)
    BY <1>1, <1>2
  <2> QED
    BY <1>2, <2>1, ConcatAdjacentSubSeq
<1>8. SubSeq(File, 1, Blocks) = File
  BY <1>2, SubSeqFull
<1> QED
  BY <1>5, <1>6, <1>7, <1>8

(* The number of commands sent only grows.                                  *)
LEMMA MoreSent ==
  ASSUME NEW n \in Nat
  PROVE  /\ 0..n \subseteq 0..(n + 1)
         /\ LineType(n) \subseteq LineType(n + 1)
         /\ Seq(LineType(n)) \subseteq Seq(LineType(n + 1))
         /\ Seq(CommandType(n)) \subseteq Seq(CommandType(n + 1))
         /\ XferType(n) \subseteq XferType(n + 1)
<1>1. \A i \in 0..n : i \in 0..(n + 1)
  OBVIOUS
<1>2. LineType(n) \subseteq LineType(n + 1)
  BY <1>1 DEF LineType
<1>3. CommandType(n) \subseteq CommandType(n + 1)
  BY <1>1 DEF CommandType
<1>4. XferType(n) \subseteq XferType(n + 1)
  BY <1>1 DEF XferType
<1>5. Seq(LineType(n)) \subseteq Seq(LineType(n + 1))
  BY <1>2, SeqMonotonic
<1>6. Seq(CommandType(n)) \subseteq Seq(CommandType(n + 1))
  BY <1>3, SeqMonotonic
<1> QED
  BY <1>1, <1>2, <1>4, <1>5, <1>6

LEMMA LineTyped ==
  ASSUME NEW n \in Nat, NEW i \in 0..n, NEW c \in Classes, NEW m \in BOOLEAN
  PROVE  /\ Line(i, c, m) \in LineType(n) /\ Line(i, c, m).class = c /\ Line(i, c, m).of = i
         /\ Line(i, c, m).more = m
BY DEF Line, LineType

(* An element moves from the front of t to the end of s.                    *)
Moved(S, s, t) ==
  /\ Append(s, Head(t)) \in Seq(S) /\ Tail(t) \in Seq(S)
  /\ Len(Append(s, Head(t))) = Len(s) + 1 /\ Len(Tail(t)) = Len(t) - 1
  /\ Len(s) \in Nat /\ Len(t) \in Nat
  /\ \A u \in Seq(S) :
       /\ Append(s, Head(t)) \o (Tail(t) \o u) = s \o (t \o u)
       /\ u \o (Append(s, Head(t)) \o Tail(t)) = u \o (s \o t)

LEMMA ElementMoves ==
  ASSUME NEW S, NEW s \in Seq(S), NEW t \in Seq(S), t # <<>>
  PROVE  Moved(S, s, t)
<1> DEFINE h == Head(t)  r == Tail(t)  x == Append(s, h)
<1>1. h \in S /\ r \in Seq(S) /\ Len(r) = Len(t) - 1 /\ Len(t) \in Nat
  BY HeadTailProperties, LenProperties
<1>2. /\ x \in Seq(S) /\ Len(x) = Len(s) + 1 /\ Len(s) \in Nat
      /\ x = s \o <<h>> /\ <<h>> \in Seq(S)
  BY <1>1, AppendProperties, AppendIsConcat, LenProperties
<1>3. t = <<h>> \o r
  <2>1. t = SubSeq(t, 1, Len(t)) /\ r = SubSeq(t, 2, Len(t)) /\ h = t[1]
    BY SubSeqFull, TailIsSubSeq
  <2>2. 1 \in 1..Len(t) /\ Len(t) \in 1..Len(t)
    BY <1>1, EmptySeq
  <2>3. SubSeq(t, 1, Len(t)) = <<t[1]>> \o SubSeq(t, 1 + 1, Len(t))
    BY <2>2, SubSeqRecursiveFirst
  <2>4. t = <<h>> \o SubSeq(t, 2, Len(t))
    BY <2>1, <2>3
  <2> QED
    BY <2>1, <2>4, Zenon
<1> HIDE DEF h, r, x
<1>4. x \o r = s \o t
  BY <1>1, <1>2, <1>3, ConcatAssociative
<1>5. \A u \in Seq(S) : x \o (r \o u) = s \o (t \o u)
  <2> SUFFICES ASSUME NEW u \in Seq(S) PROVE x \o (r \o u) = s \o (t \o u)
    OBVIOUS
  <2>0. x \in Seq(S) /\ r \in Seq(S)
    BY <1>1, <1>2
  <2>1. (x \o r) \o u = x \o (r \o u)
    BY <2>0, ConcatAssociative
  <2>2. (s \o t) \o u = s \o (t \o u)
    BY ConcatAssociative
  <2> QED
    BY <1>4, <2>1, <2>2
<1> QED
  BY <1>1, <1>2, <1>4, <1>5 DEF Moved, h, r, x

(* A block moves.                                                           *)
LEMMA BlockMoves ==
  ASSUME NEW s \in Seq(Nat), NEW t \in Seq(Nat), t # <<>>
  PROVE  /\ Append(s, Head(t)) \in Seq(Nat) /\ Tail(t) \in Seq(Nat)
         /\ Len(Append(s, Head(t))) = Len(s) + 1 /\ Len(Tail(t)) = Len(t) - 1
         /\ Len(s) \in Nat /\ Len(t) \in Nat
         /\ \A u \in Seq(Nat) :
              /\ Append(s, Head(t)) \o (Tail(t) \o u) = s \o (t \o u)
              /\ u \o (Append(s, Head(t)) \o Tail(t)) = u \o (s \o t)
<1>1. Moved(Nat, s, t)
  BY ElementMoves
<1> QED
  BY <1>1, Zenon DEF Moved

LEMMA FileSizes ==
  ASSUME FileType
  PROVE  /\ Len(local) \in Nat /\ Len(wire) \in Nat /\ Len(remote) \in Nat /\ Blocks \in Nat
         /\ <<>> \in Seq(Nat) /\ Len(<<>>) = 0
BY LenProperties, EmptySeq, FtpAssumption DEF FileType, FtpAssumption

LEMMA FileLoses ==
  ASSUME FileType
  PROVE  /\ local' = local /\ remote' = remote /\ wire' = <<>> => FileType'
         /\ local' = local /\ remote' = remote /\ wire' = wire => FileType'
<1>1. ASSUME local' = local, remote' = remote, wire' = <<>> PROVE FileType'
  BY <1>1, FileSizes DEF FileType
<1>2. ASSUME local' = local, remote' = remote, wire' = wire PROVE FileType'
  BY <1>2 DEF FileType
<1> QED
  BY <1>1, <1>2

-----------------------------------------------------------------------------
(* Every step keeps the types                                               *)

LEMMA Known ==
  ASSUME TypeInv
  PROVE  /\ ClientType /\ WireType /\ FileType /\ PlaceInv
         /\ sent \in Nat /\ data \in 0..sent /\ response \in LineType(sent)
         /\ buffered \in Seq(LineType(sent)) /\ kernel \in Seq(LineType(sent))
         /\ server \in Seq(CommandType(sent)) /\ xfer \in XferType(sent)
         /\ MaxCalls \in Nat /\ result \in {-1, 0, 1} /\ match \in Classes \cup {"none"}
         /\ response.more => response.class \in Classes
         /\ fault \subseteq Faults \cup {"uninit", "stale"}
         /\ Faults \subseteq {"late", "lost", "nodata", "reset", "disk"}
         /\ Calls \subseteq {"connect", "login", "mkdir", "size", "get", "put", "quit"}
BY FtpAssumption DEF TypeInv, ClientType, WireType, FtpAssumption, LineType

(* A step in which the call goes on.                                        *)
LEMMA GoesOnType ==
  ASSUME TypeInv, GoesOn, UNCHANGED <<call, sent, calls>>,
         response' \in LineType(sent), match' \in Classes \cup {"none"},
         at = "dial" => "nodata" \in fault \cup Faults
  PROVE  ClientType' /\ PlaceInv'
<1>1. data' \in 0..sent
  BY Known DEF GoesOn
<1>2. handle' \in {"none", "open", "dead"}
  BY Known DEF GoesOn, ClientType
<1>3. fault' \subseteq Faults \cup {"uninit", "stale"}
  BY Known DEF GoesOn
<1>4. ClientType'
  BY <1>1, <1>2, <1>3, Known DEF GoesOn, ClientType, Places
<1>5. PlaceInv'
  BY DEF GoesOn, PlaceInv, Verb
<1> QED
  BY <1>4, <1>5

(* A step that leaves the client alone, but for what history records.       *)
LEMMA ClientStays ==
  ASSUME TypeInv, UNCHANGED <<at, call, todo, result, response, match, buffered, data, sent, calls>>,
         handle' = handle \/ (handle = "open" /\ handle' = "dead"),
         fault \subseteq fault', fault' \subseteq Faults \cup {"uninit", "stale"}
  PROVE  ClientType' /\ PlaceInv'
<1>1. ClientType'
  BY Known DEF ClientType
<1>2. PlaceInv'
  BY Known DEF PlaceInv, Verb
<1> QED
  BY <1>1, <1>2

LEMMA BeginType ==
  ASSUME TypeInv, Begin
  PROVE  TypeInv'
<1>1. PICK c \in Calls, from \in 0..(Blocks - 1) :
        /\ c = "connect" => handle = "none"
        /\ call' = c /\ todo' = Script(c, from)
        /\ at' = IF c = "connect" THEN "dial" ELSE "send"
        /\ local' = CASE c = "get" -> SubSeq(File, 1, from)
                      [] c = "put" -> SubSeq(File, from + 1, Blocks)
                      [] OTHER -> <<>>
        /\ remote' = CASE c = "get" -> SubSeq(File, from + 1, Blocks)
                       [] c = "put" -> SubSeq(File, 1, from)
                       [] OTHER -> <<>>
        /\ fault' = IF c # "connect" THEN fault
                    ELSE IF buffered = <<>> THEN {} ELSE {"stale"}
  BY DEF Begin
<1>2. /\ wire' = <<>> /\ calls' \in 0..MaxCalls
      /\ UNCHANGED <<result, handle, response, match, buffered, data, sent, kernel, server>>
  BY Known DEF Begin, ClientType
<1>3. xfer' \in XferType(sent)
  BY Known DEF Begin, XferType
<1>4. FileType'
  <2>1. Blocks \in Nat /\ from \in Nat /\ <<>> \in Seq(Nat) /\ Len(<<>>) = 0
    BY Known, FileSizes
  <2>2. CASE c = "get"
    BY <1>1, <1>2, <2>1, <2>2, SplitFile DEF FileType
  <2>3. CASE c = "put"
    BY <1>1, <1>2, <2>1, <2>3, SplitFile DEF FileType
  <2>4. CASE c \notin {"get", "put"}
    BY <1>1, <1>2, <2>1, <2>4 DEF FileType
  <2> QED
    BY <2>2, <2>3, <2>4
<1>5. fault' \subseteq Faults \cup {"uninit", "stale"}
  BY <1>1, Known
<1>6. ClientType'
  BY <1>1, <1>2, <1>5, Known DEF ClientType, Places
<1>7. WireType'
  BY <1>2, <1>3, Known DEF WireType
<1>8. PlaceInv'
  <2>1. /\ Plan(c, todo')
        /\ c # "connect" => Head(todo').verb \notin {"dial", "end", "abort"}
        /\ c = "connect" => Head(todo').verb = "dial"
    BY <1>1, Known, ScriptIsPlan
  <2>2. PlaceOf(at', Head(todo').verb, c)
    BY <1>1, <2>1 DEF PlaceOf
  <2>3. at' = "dial" => handle' = "none" /\ (buffered' = <<>> \/ "stale" \in fault')
    BY <1>1, <1>2
  <2> QED
    BY <1>1, <2>1, <2>2, <2>3 DEF PlaceInv, Verb
<1> QED
  BY <1>4, <1>6, <1>7, <1>8 DEF TypeInv

LEMMA OpenLocalFailsType ==
  ASSUME TypeInv, OpenLocalFails
  PROVE  TypeInv'
<1>1. /\ at' = "idle" /\ result' = 0 /\ response' = Line(0, "errno", FALSE)
      /\ fault' = fault \cup {"disk"}
      /\ UNCHANGED <<call, handle, match, buffered, data, local, sent, peer, calls>>
  BY DEF OpenLocalFails, Return
<1>2. "disk" \in Faults
  BY Known DEF OpenLocalFails, May
<1>3. response' \in LineType(sent)
  BY <1>1, Known DEF Line, LineType
<1>4. ClientType' /\ PlaceInv'
  BY <1>1, <1>2, <1>3, Known DEF ClientType, PlaceInv, Places
<1>5. WireType' /\ FileType'
  BY <1>1, Known DEF WireType, FileType, peer
<1> QED
  BY <1>4, <1>5 DEF TypeInv

LEMMA ConnectType ==
  ASSUME TypeInv, Connect
  PROVE  TypeInv'
<1>0. /\ at = "dial" /\ call = "connect"
      /\ UNCHANGED <<call, response, match, buffered, data, local, wire, remote, fault, calls>>
  BY DEF Connect
<1>1. FileType'
  BY <1>0, Known DEF FileType
<1>2. CASE Return(0) /\ UNCHANGED <<handle, sent, server, kernel, xfer>>
  BY <1>0, <1>1, <1>2, Known DEF Return, TypeInv, ClientType, WireType, PlaceInv, Places
<1>3. CASE /\ handle' = "open" /\ at' = "await" /\ sent' = sent + 1
           /\ server' = <<[n |-> sent + 1, verb |-> "dial", begun |-> "none"]>>
           /\ kernel' = <<>> /\ xfer' = NoXfer
           /\ UNCHANGED <<todo, result>>
  <2>1. /\ sent + 1 \in Nat /\ data \in 0..(sent + 1) /\ response \in LineType(sent + 1)
        /\ buffered \in Seq(LineType(sent + 1)) /\ 0 \in 0..(sent + 1) /\ sent + 1 \in 0..(sent + 1)
    BY Known, MoreSent
  <2>2. [n |-> sent + 1, verb |-> "dial", begun |-> "none"] \in CommandType(sent + 1)
    BY <2>1 DEF CommandType, Verbs
  <2>3. NoXfer \in XferType(sent + 1)
    BY <2>1 DEF NoXfer, XferType
  <2>4. <<>> \in Seq(LineType(sent + 1)) /\ server' \in Seq(CommandType(sent + 1))
    BY <1>3, <2>2, EmptySeq
  <2>5. ClientType'
    BY <1>0, <1>3, <2>1, Known DEF ClientType, Places
  <2>6. WireType'
    BY <1>0, <1>3, <2>1, <2>3, <2>4 DEF WireType
  <2>7. PlaceInv'
    BY <1>0, <1>3, Known DEF PlaceInv, PlaceOf, Verb
  <2> QED
    BY <1>1, <2>5, <2>6, <2>7 DEF TypeInv
<1> QED
  BY <1>2, <1>3 DEF Connect

LEMMA SendType ==
  ASSUME TypeInv, Send
  PROVE  TypeInv'
<1>0. /\ at = "send"
      /\ UNCHANGED <<call, response, match, buffered, local, kernel, xfer, wire, remote, calls>>
  BY DEF Send
<1>1. FileType'
  BY <1>0, Known DEF FileType
<1>2. CASE /\ sent' = sent + 1
           /\ server' = IF handle = "open"
                        THEN Append(server, [n |-> sent + 1, verb |-> Verb, begun |-> "none"])
                        ELSE server
           /\ at' = IF Verb \in {"RETR", "STOR"} THEN "dial" ELSE "await"
           /\ UNCHANGED <<todo, result, handle, data, fault>>
  <2>1. /\ sent + 1 \in Nat /\ data \in 0..(sent + 1) /\ response \in LineType(sent + 1)
        /\ buffered \in Seq(LineType(sent + 1)) /\ kernel \in Seq(LineType(sent + 1))
        /\ server \in Seq(CommandType(sent + 1)) /\ xfer \in XferType(sent + 1)
        /\ sent + 1 \in 0..(sent + 1)
    BY Known, MoreSent
  <2>2. [n |-> sent + 1, verb |-> Verb, begun |-> "none"] \in CommandType(sent + 1)
    BY <1>0, <2>1, Known, AheadHere DEF CommandType
  <2>3. server' \in Seq(CommandType(sent + 1))
    BY <1>2, <2>1, <2>2, AppendProperties
  <2>4. ClientType'
    BY <1>0, <1>2, <2>1, Known DEF ClientType, Places
  <2>5. WireType'
    BY <1>0, <1>2, <2>1, <2>3 DEF WireType
  <2>6. PlaceInv'
    <3>1. Plan(call, todo) /\ (Verb \in {"RETR", "STOR"} => call # "connect")
      BY <1>0, Known, AheadHere DEF Ahead, Verb
    <3> QED
      BY <1>0, <1>2, <3>1 DEF PlaceInv, PlaceOf, Verb, Moves
  <2> QED
    BY <1>1, <2>4, <2>5, <2>6 DEF TypeInv
<1>3. CASE /\ IF Verb \in {"RETR", "STOR"}
              THEN Return(0) /\ UNCHANGED <<handle, data, fault>>
              ELSE Failed(response)
           /\ UNCHANGED <<sent, server>>
  <2>1. CASE Return(0) /\ UNCHANGED <<handle, data, fault, sent, server>>
    BY <1>0, <1>1, <2>1, Known DEF Return, TypeInv, ClientType, WireType, PlaceInv, Places
  <2>2. CASE Failed(response) /\ UNCHANGED <<sent, server>>
    <3>1. GoesOn
      BY <1>0, <2>2, Known, FailedGoesOn
    <3>2. ClientType' /\ PlaceInv'
      BY <1>0, <2>2, <3>1, Known, GoesOnType
    <3>3. WireType'
      BY <1>0, <2>2, Known DEF WireType
    <3> QED
      BY <1>1, <3>2, <3>3 DEF TypeInv
  <2> QED
    BY <1>3, <2>1, <2>2
<1> QED
  BY <1>2, <1>3 DEF Send

LEMMA DialDataType ==
  ASSUME TypeInv, DialData
  PROVE  TypeInv'
<1>0. /\ at = "dial" /\ call # "connect"
      /\ UNCHANGED <<call, response, match, buffered, local, sent, kernel, server, xfer, remote,
                     calls>>
  BY DEF DialData
<1>1. WireType'
  BY <1>0, Known DEF WireType
<1>2. CASE /\ data' = sent /\ at' = "await" /\ wire' = <<>>
           /\ UNCHANGED <<todo, result, handle, fault>>
  <2>1. ClientType' /\ PlaceInv'
    BY <1>0, <1>2, Known DEF ClientType, PlaceInv, PlaceOf, Places, Verb
  <2>2. FileType'
    BY <1>0, <1>2, Known, FileLoses
  <2> QED
    BY <1>1, <2>1, <2>2 DEF TypeInv
<1>3. CASE May("nodata") /\ Failed(response) /\ UNCHANGED wire
  <2>1. GoesOn
    BY <1>0, <1>3, Known, FailedGoesOn
  <2>2. "nodata" \in fault \cup Faults
    BY <1>3 DEF May
  <2>3. ClientType' /\ PlaceInv'
    BY <1>0, <2>1, <2>2, Known, GoesOnType
  <2>4. FileType'
    BY <1>0, <1>3, Known, FileLoses
  <2> QED
    BY <1>1, <2>3, <2>4 DEF TypeInv
<1> QED
  BY <1>2, <1>3 DEF DialData

LEMMA FillType ==
  ASSUME TypeInv, Fill
  PROVE  TypeInv'
<1>1. /\ at \in {"await", "rest"} /\ buffered' = kernel /\ kernel' = <<>>
      /\ UNCHANGED <<at, call, todo, result, handle, response, match, data, local, sent,
                     server, xfer, wire, remote, fault, calls>>
  BY DEF Fill
<1>2. ClientType' /\ FileType' /\ PlaceInv'
  BY <1>1, Known DEF ClientType, FileType, PlaceInv, Verb
<1>3. <<>> \in Seq(LineType(sent))
  BY EmptySeq
<1>4. WireType'
  BY <1>1, <1>3, Known DEF WireType
<1> QED
  BY <1>2, <1>4 DEF TypeInv

LEMMA FirstLine ==
  ASSUME TypeInv, buffered # <<>>
  PROVE  /\ Head(buffered) \in LineType(sent) /\ Tail(buffered) \in Seq(LineType(sent))
         /\ Head(buffered).more => Head(buffered).class \in Classes
<1>1. Head(buffered) \in LineType(sent) /\ Tail(buffered) \in Seq(LineType(sent))
  BY Known, HeadTailProperties
<1> QED
  BY <1>1 DEF LineType

LEMMA ReadLineType ==
  ASSUME TypeInv, ReadLine
  PROVE  TypeInv'
<1>1. /\ at \in {"await", "rest"} /\ buffered # <<>>
      /\ buffered' = Tail(buffered) /\ response' = Head(buffered)
      /\ Examine(Head(buffered))
      /\ UNCHANGED <<call, local, sent, kernel, server, xfer, wire, remote, calls>>
  BY DEF ReadLine, peer
<1>2. GoesOn /\ match' \in Classes \cup {"none"}
  BY <1>1, Known, FirstLine, ExamineGoesOn
<1>3. ClientType' /\ PlaceInv'
  BY <1>1, <1>2, Known, FirstLine, GoesOnType
<1>4. FileType'
  BY <1>1, Known DEF FileType
<1>5. WireType'
  BY <1>1, Known, FirstLine DEF WireType
<1> QED
  BY <1>3, <1>4, <1>5 DEF TypeInv

LEMMA TimedOutType ==
  ASSUME TypeInv, TimedOut
  PROVE  TypeInv'
<1>1. /\ at = "await" /\ Examine(response)
      /\ UNCHANGED <<call, response, buffered, local, sent, kernel, server, xfer, wire, remote,
                     calls>>
  BY DEF TimedOut, peer
<1>2. GoesOn /\ match' \in Classes \cup {"none"}
  BY <1>1, Known, ExamineGoesOn
<1>3. ClientType' /\ PlaceInv'
  BY <1>1, <1>2, Known, GoesOnType
<1>4. FileType' /\ WireType'
  BY <1>1, Known DEF FileType, WireType
<1> QED
  BY <1>3, <1>4 DEF TypeInv

LEMMA EndOfRepliesType ==
  ASSUME TypeInv, EndOfReplies
  PROVE  TypeInv'
<1>1. /\ at \in {"await", "rest"} /\ Failed(response)
      /\ UNCHANGED <<call, response, match, buffered, local, sent, kernel, server, xfer, wire,
                     remote, calls>>
  BY DEF EndOfReplies, peer
<1>2. GoesOn
  BY <1>1, Known, FailedGoesOn
<1>3. ClientType' /\ PlaceInv'
  BY <1>1, <1>2, Known, GoesOnType
<1>4. FileType' /\ WireType'
  BY <1>1, Known DEF FileType, WireType
<1> QED
  BY <1>3, <1>4 DEF TypeInv

(* The data connection is closed, and the last reply awaited.               *)
LEMMA CloseDataType ==
  ASSUME TypeInv, at \in {"read", "write"}, NEW last, CloseData(last),
         last = Head(todo) \/ (last = Abort /\ at = "write"),
         UNCHANGED <<call, handle, response, match, buffered, sent, calls>>,
         fault' \subseteq Faults \cup {"uninit", "stale"}
  PROVE  ClientType' /\ PlaceInv'
<1>1. data' = 0 /\ at' = "await" /\ todo' = <<last>> /\ UNCHANGED result
  BY DEF CloseData
<1>2. ClientType'
  BY <1>1, Known DEF ClientType, Places
<1>3. Plan(call, todo) /\ Verb = "end"
  BY Known DEF PlaceInv, PlaceOf
<1>4. Plan(call, <<last>>)
  <2>1. CASE last = Abort
    <3>1. call = "put" /\ <<last>> = <<C("abort")>>
      BY <2>1, <1>3, Known DEF PlaceInv, PlaceOf, Abort, C, Expected, Command, Verb
    <3> QED
      BY <3>1 DEF Plan
  <2>2. CASE last = Head(todo)
    <3>1. last.verb = "end" /\ last.expected = "2"
      BY <1>3, <2>2, Known, AheadHere DEF Verb, Expected
    <3>2. Len(todo) = 1
      <4>1. Ahead(call, todo) /\ (Len(todo) > 1 <=> ~Ends(Verb))
        BY Known, AheadHere
      <4> DEFINE n == Len(todo)
      <4>2. n \in Nat \ {0}
        BY <4>1 DEF Ahead
      <4>3. ~(n > 1)
        BY <1>3, <4>1 DEF Ends
      <4> HIDE DEF n
      <4>4. n = 1
        BY <4>2, <4>3
      <4> QED
        BY <4>4 DEF n
    <3>3. todo # <<>>
      BY <1>3, Known, AheadHere DEF Ahead
    <3>4. call \in {"get", "put"} /\ last.verb # "abort"
      BY <1>3, <2>2, Known, AheadHere DEF Ahead, Verb
    <3>5. Plan(call, <<todo[Len(todo)]>>)
      BY <3>4, <2>2, Known, AheadHere DEF Last
    <3>6. Head(todo) = todo[1]
      OBVIOUS
    <3> QED
      BY <2>2, <3>2, <3>5, <3>6
  <2> QED
    BY <2>1, <2>2
<1>5. PlaceInv'
  BY <1>1, <1>4, Known DEF PlaceInv, PlaceOf, Verb
<1> QED
  BY <1>2, <1>5

LEMMA ReadDataType ==
  ASSUME TypeInv, ReadData
  PROVE  TypeInv'
<1>1. /\ at = "read"
      /\ UNCHANGED <<call, handle, response, match, buffered, sent, kernel, server, xfer, remote,
                     calls>>
  BY DEF ReadData
<1>2. WireType'
  BY <1>1, Known DEF WireType
<1>3. CASE /\ wire # <<>>
           /\ local' = Append(local, Head(wire)) /\ wire' = Tail(wire)
           /\ UNCHANGED <<at, todo, result, data, fault>>
  <2>1. ClientType' /\ PlaceInv'
    BY <1>1, <1>3, Known, ClientStays
  <2>2. FileType'
    <3>1. local \in Seq(Nat) /\ wire \in Seq(Nat) /\ remote \in Seq(Nat)
      BY Known DEF FileType
    <3>2. /\ local' \in Seq(Nat) /\ wire' \in Seq(Nat) /\ remote' \in Seq(Nat)
          /\ Len(local') = Len(local) + 1 /\ Len(wire') = Len(wire) - 1
          /\ Len(remote') = Len(remote)
      BY <1>1, <1>3, <3>1, BlockMoves
    <3> QED
      BY <3>2, Known, FileSizes DEF FileType
  <2> QED
    BY <1>2, <2>1, <2>2 DEF TypeInv
<1>4. CASE /\ wire # <<>> /\ May("disk")
           /\ CloseData(Head(todo)) /\ fault' = fault \cup {"disk"} /\ wire' = Tail(wire)
           /\ UNCHANGED local
  <2>1. fault' \subseteq Faults \cup {"uninit", "stale"}
    BY <1>4, Known DEF May
  <2>2. ClientType' /\ PlaceInv'
    BY <1>1, <1>4, <2>1, CloseDataType
  <2>3. FileType'
    <3>1. local \in Seq(Nat) /\ wire \in Seq(Nat) /\ remote \in Seq(Nat)
      BY Known DEF FileType
    <3>2. wire' \in Seq(Nat) /\ Len(wire') = Len(wire) - 1
      BY <1>4, <3>1, BlockMoves
    <3> QED
      BY <1>1, <1>4, <3>1, <3>2, Known, FileSizes DEF FileType
  <2> QED
    BY <1>2, <2>2, <2>3 DEF TypeInv
<1>5. CASE /\ CloseData(Head(todo))
           /\ UNCHANGED <<local, wire, fault>>
  <2>1. ClientType' /\ PlaceInv'
    BY <1>1, <1>5, Known, CloseDataType
  <2>2. FileType'
    BY <1>1, <1>5, Known, FileLoses
  <2> QED
    BY <1>2, <2>1, <2>2 DEF TypeInv
<1> QED
  BY <1>3, <1>4, <1>5 DEF ReadData

LEMMA WriteDataType ==
  ASSUME TypeInv, WriteData
  PROVE  TypeInv'
<1>1. /\ at = "write"
      /\ UNCHANGED <<call, handle, response, match, buffered, sent, kernel, server, xfer,
                     remote, fault, calls>>
  BY DEF WriteData
<1>2. WireType'
  BY <1>1, Known DEF WireType
<1>3. CASE /\ local # <<>>
           /\ wire' = Append(wire, Head(local)) /\ local' = Tail(local)
           /\ UNCHANGED <<at, todo, result, data>>
  <2>1. ClientType' /\ PlaceInv'
    BY <1>1, <1>3, Known, ClientStays
  <2>2. FileType'
    <3>1. local \in Seq(Nat) /\ wire \in Seq(Nat) /\ remote \in Seq(Nat)
      BY Known DEF FileType
    <3>2. /\ local' \in Seq(Nat) /\ wire' \in Seq(Nat) /\ remote' \in Seq(Nat)
          /\ Len(wire') = Len(wire) + 1 /\ Len(local') = Len(local) - 1
          /\ Len(remote') = Len(remote)
      BY <1>1, <1>3, <3>1, BlockMoves
    <3> QED
      BY <3>2, Known, FileSizes DEF FileType
  <2> QED
    BY <1>2, <2>1, <2>2 DEF TypeInv
<1>4. CASE /\ CloseData(Abort) \/ CloseData(Head(todo))
           /\ UNCHANGED <<local, wire>>
  <2>1. ClientType' /\ PlaceInv'
    BY <1>1, <1>4, Known, CloseDataType
  <2>2. FileType'
    BY <1>1, <1>4, Known, FileLoses
  <2> QED
    BY <1>2, <2>1, <2>2 DEF TypeInv
<1> QED
  BY <1>3, <1>4 DEF WriteData

(* The answer to the oldest command.                                        *)
LEMMA Answered ==
  ASSUME TypeInv, Answer
  PROVE  \E cmd \in CommandType(sent), class \in Classes, more \in BOOLEAN :
           /\ server # <<>> /\ xfer.verb = "none" /\ cmd = Head(server)
           /\ cmd.verb \in {"RETR", "STOR"} => at # "dial"
           /\ class \in IF cmd.begun = "none" THEN Replies(cmd.verb) ELSE {cmd.begun}
           /\ more => cmd.begun = "none" /\ cmd.verb = "dial"
           /\ kernel' = Append(kernel, Line(cmd.n, class, more))
           /\ server' = IF more THEN <<[cmd EXCEPT !.begun = class]>> \o Tail(server)
                                ELSE Tail(server)
           /\ xfer' = IF class = "1" THEN [n |-> cmd.n, verb |-> cmd.verb, stage |-> "open"]
                                     ELSE xfer
           /\ Tail(server) \in Seq(CommandType(sent))
<1>1. Head(server) \in CommandType(sent) /\ Tail(server) \in Seq(CommandType(sent))
  BY Known, HeadTailProperties DEF Answer
<1>2. \A v : Replies(v) \subseteq Classes
  BY DEF Replies, Classes
<1>3. Head(server).begun # "none" => Head(server).begun \in Classes
  BY <1>1 DEF CommandType
<1> QED
  BY <1>1, <1>2, <1>3 DEF Answer

LEMMA AnswerType ==
  ASSUME TypeInv, Answer
  PROVE  TypeInv'
<1>0. UNCHANGED <<client, wire, remote, fault, calls>>
  BY DEF Answer
<1>1. ClientType' /\ PlaceInv'
  BY <1>0, Known, ClientStays DEF client
<1>2. FileType'
  BY <1>0, Known, FileLoses DEF client
<1>3. PICK cmd \in CommandType(sent), class \in Classes, more \in BOOLEAN :
        /\ kernel' = Append(kernel, Line(cmd.n, class, more))
        /\ server' = IF more THEN <<[cmd EXCEPT !.begun = class]>> \o Tail(server)
                             ELSE Tail(server)
        /\ xfer' = IF class = "1" THEN [n |-> cmd.n, verb |-> cmd.verb, stage |-> "open"]
                                  ELSE xfer
        /\ Tail(server) \in Seq(CommandType(sent))
  BY Answered
<1>4. cmd.n \in 0..sent /\ cmd.verb \in Verbs
  BY DEF CommandType
<1>5. kernel' \in Seq(LineType(sent))
  BY <1>3, <1>4, Known, LineTyped, AppendProperties
<1>6. server' \in Seq(CommandType(sent))
  <2> DEFINE d == [cmd EXCEPT !.begun = class]
  <2>1. d \in CommandType(sent)
    BY DEF CommandType
  <2> HIDE DEF d
  <2>2. <<d>> \in Seq(CommandType(sent))
    BY <2>1
  <2>3. <<d>> \o Tail(server) \in Seq(CommandType(sent))
    BY <1>3, <2>2, ConcatProperties
  <2> QED
    BY <1>3, <2>3 DEF d
<1>7. xfer' \in XferType(sent)
  BY <1>3, <1>4, Known DEF XferType
<1>8. WireType'
  BY <1>0, <1>5, <1>6, <1>7, Known DEF WireType, client
<1> QED
  BY <1>1, <1>2, <1>8 DEF TypeInv

LEMMA ServeType ==
  ASSUME TypeInv, Serve
  PROVE  TypeInv'
<1>0. UNCHANGED <<client, kernel, server, fault, calls>>
  BY DEF Serve
<1>1. ClientType' /\ PlaceInv'
  BY <1>0, Known, ClientStays DEF client
<1>2. xfer' \in XferType(sent)
  BY Known DEF Serve, XferType
<1>3. WireType'
  BY <1>0, <1>2, Known DEF WireType, client
<1>4. local \in Seq(Nat) /\ wire \in Seq(Nat) /\ remote \in Seq(Nat)
  BY Known DEF FileType
<1>5. FileType'
  <2>1. CASE /\ remote # <<>>
             /\ wire' = Append(wire, Head(remote)) /\ remote' = Tail(remote)
    <3>1. /\ wire' \in Seq(Nat) /\ remote' \in Seq(Nat)
          /\ Len(wire') = Len(wire) + 1 /\ Len(remote') = Len(remote) - 1
      BY <1>4, <2>1, BlockMoves
    <3> QED
      BY <1>0, <3>1, Known, FileSizes DEF FileType, client
  <2>2. CASE /\ wire # <<>>
             /\ remote' = Append(remote, Head(wire)) /\ wire' = Tail(wire)
    <3>1. /\ wire' \in Seq(Nat) /\ remote' \in Seq(Nat)
          /\ Len(wire') = Len(wire) - 1 /\ Len(remote') = Len(remote) + 1
      BY <1>4, <2>2, BlockMoves
    <3> QED
      BY <1>0, <3>1, Known, FileSizes DEF FileType, client
  <2>3. CASE UNCHANGED <<wire, remote>>
    BY <1>0, <2>3, Known, FileLoses DEF client
  <2> QED
    BY <2>1, <2>2, <2>3 DEF Serve
<1> QED
  BY <1>1, <1>3, <1>5 DEF TypeInv

LEMMA BreakDataType ==
  ASSUME TypeInv, BreakData
  PROVE  TypeInv'
<1>0. /\ xfer' = [xfer EXCEPT !.stage = "broken"] /\ wire' = <<>>
      /\ UNCHANGED <<client, kernel, server, remote, fault, calls>>
  BY DEF BreakData
<1>1. ClientType' /\ PlaceInv'
  BY <1>0, Known, ClientStays DEF client
<1>2. FileType'
  BY <1>0, Known, FileLoses DEF client
<1>3. xfer' \in XferType(sent)
  BY <1>0, Known DEF XferType
<1>4. WireType'
  BY <1>0, <1>3, Known DEF WireType, client
<1> QED
  BY <1>1, <1>2, <1>4 DEF TypeInv

LEMMA LoseTailType ==
  ASSUME TypeInv, LoseTail
  PROVE  TypeInv'
<1>0. /\ wire' = <<>> /\ fault' = fault \cup {"reset"}
      /\ UNCHANGED <<client, kernel, server, xfer, remote, calls>>
  BY DEF LoseTail
<1>1. fault' \subseteq Faults \cup {"uninit", "stale"}
  BY <1>0, Known DEF LoseTail, May
<1>2. ClientType' /\ PlaceInv'
  BY <1>0, <1>1, Known, ClientStays DEF client
<1>3. FileType' /\ WireType'
  BY <1>0, Known, FileLoses DEF WireType, client
<1> QED
  BY <1>2, <1>3 DEF TypeInv

LEMMA NoXferTyped == sent \in Nat => NoXfer \in XferType(sent)
BY DEF NoXfer, XferType

LEMMA FinishType ==
  ASSUME TypeInv, Finish
  PROVE  TypeInv'
<1>0. /\ kernel' = Append(kernel, Line(xfer.n, IF xfer.stage = "ended" THEN "2" ELSE "4", FALSE))
      /\ xfer' = NoXfer
      /\ UNCHANGED <<client, server, wire, remote, fault, calls>>
  BY DEF Finish
<1>1. ClientType' /\ PlaceInv'
  BY <1>0, Known, ClientStays DEF client
<1>2. FileType'
  BY <1>0, Known, FileLoses DEF client
<1>3. PICK c \in Classes : kernel' = Append(kernel, Line(xfer.n, c, FALSE))
  BY <1>0 DEF Classes
<1>4. xfer.n \in 0..sent
  BY Known DEF XferType
<1>5. kernel' \in Seq(LineType(sent))
  BY <1>3, <1>4, Known, LineTyped, AppendProperties
<1>6. WireType'
  BY <1>0, <1>5, Known, NoXferTyped DEF WireType, client
<1> QED
  BY <1>1, <1>2, <1>6 DEF TypeInv

LEMMA StallType ==
  ASSUME TypeInv, Stall
  PROVE  TypeInv'
<1>0. fault' = fault \cup {"late"} /\ UNCHANGED <<client, peer, calls>>
  BY DEF Stall
<1>1. fault' \subseteq Faults \cup {"uninit", "stale"}
  BY <1>0, Known DEF Stall, May
<1>2. ClientType' /\ PlaceInv'
  BY <1>0, <1>1, Known, ClientStays DEF client
<1>3. FileType' /\ WireType'
  BY <1>0, Known, FileLoses DEF WireType, client, peer
<1> QED
  BY <1>2, <1>3 DEF TypeInv

LEMMA HangUpType ==
  ASSUME TypeInv, HangUp
  PROVE  TypeInv'
<1>0. /\ handle = "open" /\ handle' = "dead" /\ server' = <<>> /\ fault' = fault \cup {"lost"}
      /\ UNCHANGED <<at, call, todo, result, response, match, buffered, data, local, sent,
                     remote, calls>>
  BY DEF HangUp
<1>1. fault' \subseteq Faults \cup {"uninit", "stale"}
  BY <1>0, Known DEF HangUp, May
<1>2. ClientType' /\ PlaceInv'
  BY <1>0, <1>1, Known, ClientStays
<1>3. FileType'
  BY <1>0, Known, FileLoses DEF HangUp
<1>4. xfer' \in XferType(sent)
  BY Known DEF HangUp, XferType
<1>5. kernel' \in Seq(LineType(sent))
  <2>1. Line(0, "4", FALSE) \in LineType(sent)
    BY Known DEF Line, LineType, Classes
  <2>2. Append(kernel, Line(0, "4", FALSE)) \in Seq(LineType(sent))
    BY <2>1, Known, AppendProperties
  <2>3. kernel' = kernel \/ kernel' = Append(kernel, Line(0, "4", FALSE))
    BY DEF HangUp
  <2> QED
    BY <2>2, <2>3, Known, Zenon
<1>6. <<>> \in Seq(CommandType(sent))
  BY EmptySeq
<1>7. WireType'
  BY <1>0, <1>4, <1>5, <1>6, Known DEF WireType
<1> QED
  BY <1>2, <1>3, <1>7 DEF TypeInv

LEMMA InitType == Init => TypeInv
<1> SUFFICES ASSUME Init PROVE TypeInv
  OBVIOUS
<1>1. /\ at = "idle" /\ call = "none" /\ todo = <<>> /\ result = 0
      /\ handle = "none" /\ response = Line(0, "none", FALSE) /\ match = "none"
      /\ buffered = <<>> /\ data = 0 /\ local = <<>> /\ sent = 0
      /\ kernel = <<>> /\ server = <<>> /\ xfer = NoXfer /\ wire = <<>> /\ remote = <<>>
      /\ fault = {} /\ calls = 0
  BY DEF Init
<1>2. Line(0, "none", FALSE) \in LineType(0)
  BY DEF Line, LineType
<1>3. ClientType
  <2>1. response \in LineType(sent)
    BY <1>1, <1>2, Zenon
  <2>2. data \in 0..sent /\ calls \in 0..MaxCalls /\ sent \in Nat
    BY <1>1, FtpAssumption DEF FtpAssumption
  <2> QED
    BY <1>1, <2>1, <2>2 DEF ClientType, Places
<1>4. <<>> \in Seq(LineType(sent)) /\ <<>> \in Seq(CommandType(sent)) /\ <<>> \in Seq(Nat)
  BY EmptySeq
<1>5. WireType
  BY <1>1, <1>4, NoXferTyped DEF WireType
<1>6. FileType
  BY <1>1, <1>4, EmptySeq, FtpAssumption DEF FileType, FtpAssumption
<1>7. PlaceInv
  BY <1>1 DEF PlaceInv
<1> QED
  BY <1>3, <1>5, <1>6, <1>7 DEF TypeInv

LEMMA TypeStep == TypeInv /\ [Next]_vars => TypeInv'
<1> SUFFICES ASSUME TypeInv, [Next]_vars PROVE TypeInv'
  OBVIOUS
<1>1. CASE UNCHANGED vars
  BY <1>1, Known
     DEF vars, client, peer, TypeInv, ClientType, WireType, FileType, PlaceInv, Verb
<1>2. CASE Step
  BY <1>2, ConnectType, SendType, DialDataType, FillType, ReadLineType, TimedOutType,
     EndOfRepliesType, ReadDataType, WriteDataType DEF Step
<1>3. CASE ServerStep
  BY <1>3, AnswerType, ServeType, BreakDataType, FinishType DEF ServerStep
<1>4. CASE Begin \/ OpenLocalFails \/ LoseTail \/ Stall \/ HangUp
  BY <1>4, BeginType, OpenLocalFailsType, LoseTailType, StallType, HangUpType
<1> QED
  BY <1>1, <1>2, <1>3, <1>4 DEF Next

LEMMA Elements ==
  ASSUME NEW S, NEW s \in Seq(S)
  PROVE  \A i \in DOMAIN s : s[i] \in S
OBVIOUS

LEMMA TypesOK == TypeInv => TypeOK
<1> SUFFICES ASSUME TypeInv PROVE TypeOK
  OBVIOUS
<1>1. \A l \in {response} \cup {buffered[i] : i \in DOMAIN buffered}
                          \cup {kernel[i] : i \in DOMAIN kernel} : l \in LineType(sent)
  <2>1. /\ \A i \in DOMAIN buffered : buffered[i] \in LineType(sent)
        /\ \A i \in DOMAIN kernel : kernel[i] \in LineType(sent)
    BY Known, Elements, Zenon
  <2> QED
    BY <2>1, Known, Zenon
<1>2. \A l \in LineType(sent) :
        l.of \in 0..sent /\ l.more \in BOOLEAN /\ l.class \in Classes \cup {"none", "errno"}
  BY DEF LineType
<1>3. \A s \in {local, wire, remote} : Len(s) <= Blocks
  <2>1. /\ Len(local) \in Nat /\ Len(wire) \in Nat /\ Len(remote) \in Nat /\ Blocks \in Nat
        /\ Len(local) + Len(wire) + Len(remote) <= Blocks
    BY Known, FileSizes DEF FileType
  <2>2. Len(local) <= Blocks /\ Len(wire) <= Blocks /\ Len(remote) <= Blocks
    BY <2>1
  <2> QED
    BY <2>2
<1>4. xfer.stage \in {"none", "open", "ended", "broken"} /\ xfer.n \in 0..sent
  BY Known DEF XferType
<1> QED
  BY <1>1, <1>2, <1>3, <1>4, Known DEF TypeOK, ClientType, Places

(* THEOREM.  Every variable of the client and of what it talks to has its   *)
(* type in every reachable state, whatever the size of the file and however *)
(* many calls and faults there are.                                         *)
THEOREM TypeCorrect == Spec => []TypeOK
<1>1. Spec => []TypeInv
  BY InitType, TypeStep, PTL DEF Spec
<1> QED
  BY <1>1, TypesOK, PTL

-----------------------------------------------------------------------------
(* The lines on their way                                                   *)

LEMMA OneOrTwo ==
  ASSUME NEW a, NEW b
  PROVE  /\ <<a>> # <<>> /\ Head(<<a>>) = a /\ Tail(<<a>>) = <<>>
         /\ <<a, b>> # <<>> /\ Head(<<a, b>>) = a /\ Tail(<<a, b>>) = <<b>>
         /\ Append(<<>>, a) = <<a>> /\ Append(<<a>>, b) = <<a, b>>
<1>1. Tail(<<a>>) = <<>>
  <2>1. <<>> \in Seq({a})
    BY EmptySeq
  <2>2. Tail(Append(<<>>, a)) = <<>>
    BY <2>1, HeadTailAppend
  <2> QED
    BY <2>2, Append1
<1> QED
  BY <1>1, Tuples, Append1, Append2

(* The first of the lines b and k is the first of b, and goes.              *)
LEMMA FirstOfBoth ==
  ASSUME NEW S, NEW b \in Seq(S), NEW k \in Seq(S), b # <<>>
  PROVE  b \o k # <<>> /\ Head(b \o k) = Head(b) /\ Tail(b \o k) = Tail(b) \o k
<1>1. /\ b \o k \in Seq(S) /\ Len(b \o k) = Len(b) + Len(k)
      /\ \A i \in 1..(Len(b) + Len(k)) :
           (b \o k)[i] = IF i <= Len(b) THEN b[i] ELSE k[i - Len(b)]
  BY ConcatProperties
<1>2. Len(b) \in Nat \ {0} /\ Len(k) \in Nat
  BY EmptySeq, LenProperties
<1>3. b \o k # <<>>
  BY ConcatEqualIffEmpty
<1>4. /\ Tail(b) \in Seq(S) /\ Len(Tail(b)) = Len(b) - 1
      /\ \A i \in 1..Len(Tail(b)) : Tail(b)[i] = b[i + 1]
  BY HeadTailProperties
<1>5. /\ Tail(b \o k) \in Seq(S) /\ Len(Tail(b \o k)) = Len(b \o k) - 1
      /\ \A i \in 1..Len(Tail(b \o k)) : Tail(b \o k)[i] = (b \o k)[i + 1]
  BY <1>1, <1>3, HeadTailProperties
<1>6. /\ Tail(b) \o k \in Seq(S) /\ Len(Tail(b) \o k) = Len(Tail(b)) + Len(k)
      /\ \A i \in 1..(Len(Tail(b)) + Len(k)) :
           (Tail(b) \o k)[i] = IF i <= Len(Tail(b)) THEN Tail(b)[i] ELSE k[i - Len(Tail(b))]
  BY <1>4, ConcatProperties
<1>7. Head(b \o k) = (b \o k)[1] /\ Head(b) = b[1]
  OBVIOUS
<1>8. Head(b \o k) = Head(b)
  BY <1>1, <1>2, <1>7
<1> DEFINE n == Len(b)  m == Len(k)  s == b \o k  r == Tail(b)  x == Tail(b) \o k  y == Tail(b \o k)
<1>9. /\ n \in Nat \ {0} /\ m \in Nat
      /\ \A i \in 1..(n + m) : s[i] = IF i <= n THEN b[i] ELSE k[i - n]
      /\ \A i \in 1..(n - 1) : r[i] = b[i + 1]
      /\ Len(x) = n - 1 + m /\ Len(y) = n + m - 1
      /\ \A i \in 1..(n - 1 + m) : x[i] = IF i <= n - 1 THEN r[i] ELSE k[i - (n - 1)]
      /\ \A i \in 1..(n + m - 1) : y[i] = s[i + 1]
      /\ x \in Seq(S) /\ y \in Seq(S)
  BY <1>1, <1>2, <1>4, <1>5, <1>6
<1> HIDE DEF n, m, s, r, x, y
<1>10. Len(x) = Len(y) /\ \A i \in 1..Len(x) : x[i] = y[i]
  <2>1. Len(x) = Len(y)
    BY <1>9
  <2>2. ASSUME NEW i \in 1..(n - 1 + m) PROVE x[i] = y[i]
    <3>1. y[i] = s[i + 1] /\ i + 1 \in 1..(n + m)
      BY <1>9
    <3>2. CASE i <= n - 1
      BY <1>9, <3>1, <3>2
    <3>3. CASE ~(i <= n - 1)
      <4>1. x[i] = k[i - (n - 1)] /\ s[i + 1] = k[(i + 1) - n] /\ (i + 1) - n = i - (n - 1)
        BY <1>9, <3>1, <3>3
      <4> QED
        BY <3>1, <4>1
    <3> QED
      BY <3>2, <3>3
  <2> QED
    BY <1>9, <2>1, <2>2
<1>11. x = y
  BY <1>9, <1>10, SeqEqual
<1> QED
  BY <1>3, <1>8, <1>11 DEF x, y

LEMMA LastOfBoth ==
  ASSUME NEW S, NEW b \in Seq(S), NEW k \in Seq(S), NEW l \in S
  PROVE  b \o Append(k, l) = Append(b \o k, l)
<1>1. <<l>> \in Seq(S) /\ b \o k \in Seq(S)
  BY ConcatProperties
<1>2. b \o (k \o <<l>>) = (b \o k) \o <<l>>
  BY <1>1, ConcatAssociative
<1>3. Append(k, l) = k \o <<l>> /\ Append(b \o k, l) = (b \o k) \o <<l>>
  BY <1>1, AppendIsConcat
<1> QED
  BY <1>2, <1>3

LEMMA LinesEmpty ==
  ASSUME TypeInv
  PROVE  Lines = <<>> <=> buffered = <<>> /\ kernel = <<>>
BY Known, ConcatEqualIffEmpty DEF Lines

LEMMA LineArrives ==
  ASSUME TypeInv, NEW l \in LineType(sent), kernel' = Append(kernel, l), buffered' = buffered
  PROVE  Lines' = Append(Lines, l)
<1>1. buffered \o Append(kernel, l) = Append(buffered \o kernel, l)
  BY Known, LastOfBoth
<1> QED
  BY <1>1 DEF Lines

LEMMA LineTaken ==
  ASSUME TypeInv, buffered # <<>>, buffered' = Tail(buffered), kernel' = kernel
  PROVE  Lines # <<>> /\ Head(Lines) = Head(buffered) /\ Lines' = Tail(Lines)
<1>1. /\ buffered \o kernel # <<>> /\ Head(buffered \o kernel) = Head(buffered)
      /\ Tail(buffered \o kernel) = Tail(buffered) \o kernel
  BY Known, FirstOfBoth
<1> QED
  BY <1>1 DEF Lines

-----------------------------------------------------------------------------
(* Every step keeps client and server in step                               *)

LEMMA LinesStay == UNCHANGED <<buffered, kernel>> => UNCHANGED Lines
BY DEF Lines

(* A step on a clean connection starts from a clean one.                    *)
LEMMA WasClean ==
  ASSUME StepInv, Clean', fault \subseteq fault', handle' = "open" => handle = "open"
  PROVE  Clean /\ UnderWay
BY DEF StepInv, Clean, Unanswered

LEMMA BeginStep ==
  ASSUME TypeInv, StepInv, Begin
  PROVE  StepInv'
<1> SUFFICES ASSUME Clean' PROVE UnderWay'
  BY DEF StepInv
<1>1. PICK c \in Calls, from \in 0..(Blocks - 1) :
        /\ c = "connect" => handle = "none"
        /\ call' = c /\ todo' = Script(c, from)
        /\ at' = IF c = "connect" THEN "dial" ELSE "send"
        /\ local' = CASE c = "get" -> SubSeq(File, 1, from)
                      [] c = "put" -> SubSeq(File, from + 1, Blocks)
                      [] OTHER -> <<>>
        /\ remote' = CASE c = "get" -> SubSeq(File, from + 1, Blocks)
                       [] c = "put" -> SubSeq(File, 1, from)
                       [] OTHER -> <<>>
        /\ fault' = IF c # "connect" THEN fault
                    ELSE IF buffered = <<>> THEN {} ELSE {"stale"}
  BY DEF Begin
<1>2. at = "idle" /\ wire' = <<>> /\ UNCHANGED <<handle, buffered, kernel, server>>
  BY DEF Begin
<1>3. c # "connect" /\ at' = "send"
  BY <1>1, <1>2 DEF Clean
<1>4. Settled
  BY <1>1, <1>2, <1>3, WasClean DEF UnderWay
<1>5. Settled'
  <2>1. xfer' = xfer
    BY <1>4 DEF Begin, Settled, NoXfer
  <2> QED
    BY <1>2, <1>4, <2>1, LinesStay DEF Settled
<1>6. Whole'
  <2>1. /\ SubSeq(File, 1, from) \o SubSeq(File, from + 1, Blocks) = File
        /\ SubSeq(File, 1, from) \in Seq(Nat) /\ SubSeq(File, from + 1, Blocks) \in Seq(Nat)
    BY SplitFile
  <2>2. /\ <<>> \o SubSeq(File, 1, from) = SubSeq(File, 1, from)
        /\ <<>> \o SubSeq(File, from + 1, Blocks) = SubSeq(File, from + 1, Blocks)
    BY <2>1, ConcatEmptySeq
  <2>3. CASE c = "get"
    <3>1. /\ call' = "get" /\ local' = SubSeq(File, 1, from)
          /\ remote' = SubSeq(File, from + 1, Blocks) /\ wire' = <<>>
      BY <1>1, <1>2, <2>3
    <3>2. local' \o (wire' \o remote') = File
      BY <2>1, <2>2, <3>1, Zenon
    <3> QED
      BY <3>1, <3>2 DEF Whole
  <2>4. CASE c = "put"
    <3>1. /\ call' = "put" /\ remote' = SubSeq(File, 1, from)
          /\ local' = SubSeq(File, from + 1, Blocks) /\ wire' = <<>>
      BY <1>1, <1>2, <2>4
    <3>2. remote' \o (wire' \o local') = File
      BY <2>1, <2>2, <3>1, Zenon
    <3> QED
      BY <3>1, <3>2 DEF Whole
  <2>5. CASE c \notin {"get", "put"}
    BY <1>1, <2>5 DEF Whole
  <2> QED
    BY <2>3, <2>4, <2>5
<1> QED
  BY <1>2, <1>3, <1>5, <1>6 DEF UnderWay, Prepared, Moving

LEMMA OpenLocalFailsStep ==
  ASSUME TypeInv, StepInv, OpenLocalFails
  PROVE  StepInv'
<1> SUFFICES ASSUME Clean' PROVE UnderWay'
  BY DEF StepInv
<1>1. /\ at = "send" /\ at' = "idle" /\ result' = 0
      /\ UNCHANGED <<handle, buffered, kernel, server, xfer>> /\ fault \subseteq fault'
  BY DEF OpenLocalFails, Return, peer
<1>2. Settled'
  BY <1>1, WasClean, LinesStay DEF UnderWay, Settled
<1> QED
  BY <1>1, <1>2 DEF UnderWay, Told, Moving

LEMMA ConnectStep ==
  ASSUME TypeInv, StepInv, Connect
  PROVE  StepInv'
<1> SUFFICES ASSUME Clean' PROVE UnderWay'
  BY DEF StepInv
<1>1. /\ at = "dial" /\ call = "connect" /\ handle = "none"
      /\ buffered = <<>> \/ "stale" \in fault
      /\ Verb = "dial"
  BY Known, AheadHere DEF Connect, PlaceInv, Ahead, Verb
<1>2. /\ handle' = "open" /\ at' = "await" /\ sent' = sent + 1
      /\ server' = <<[n |-> sent + 1, verb |-> "dial", begun |-> "none"]>>
      /\ kernel' = <<>> /\ xfer' = NoXfer
      /\ UNCHANGED <<todo, result, buffered, fault>>
  BY <1>1 DEF Connect, Clean
<1>3. buffered = <<>>
  BY <1>1, <1>2 DEF Clean, Unanswered
<1>4. Lines' = <<>>
  <2>1. <<>> \o <<>> = <<>>
    BY <1>3, Known, ConcatEmptySeq
  <2> QED
    BY <1>2, <1>3, <2>1 DEF Lines
<1>5. Verb' = "dial" /\ server' = <<Asked("dial", "none")'>>
  BY <1>1, <1>2 DEF Verb, Asked
<1>6. Greeting'
  BY <1>2, <1>4, <1>5 DEF Greeting, Asked
<1> QED
  BY <1>2, <1>5, <1>6 DEF UnderWay, Moving, Moves

LEMMA SendStep ==
  ASSUME TypeInv, StepInv, Send
  PROVE  StepInv'
<1> SUFFICES ASSUME Clean' PROVE UnderWay'
  BY DEF StepInv
<1>0. at = "send" /\ UNCHANGED <<call, buffered, local, kernel, xfer, wire, remote>>
  BY DEF Send
<1>1. handle' \in {handle, "none"}
  BY DEF Send, Failed, HangsUp
<1>2. /\ handle = "open" /\ sent' = sent + 1
      /\ server' = Append(server, [n |-> sent + 1, verb |-> Verb, begun |-> "none"])
      /\ at' = IF Verb \in {"RETR", "STOR"} THEN "dial" ELSE "await"
      /\ UNCHANGED <<todo, fault>>
  BY <1>1 DEF Send, Clean
<1>3. Settled /\ Prepared
  BY <1>0, <1>2, WasClean DEF UnderWay
<1>4. Lines' = <<>> /\ xfer' = NoXfer
  BY <1>0, <1>3, LinesStay DEF Settled
<1>5. Prepared'
  BY <1>0, <1>3 DEF Prepared, Whole
<1>6. Verb' = Verb
  BY <1>2 DEF Verb
<1>7. server' = <<Asked(Verb, "none")'>>
  <2>1. server = <<>>
    BY <1>3 DEF Settled
  <2>2. server' = <<[n |-> sent + 1, verb |-> Verb, begun |-> "none"]>>
    BY <1>2, <2>1, OneOrTwo
  <2> QED
    BY <1>2, <1>6, <2>2 DEF Asked
<1>8. Verb \notin {"dial", "end", "abort"}
  BY <1>0, Known, AheadHere DEF PlaceOf
<1>9. CASE Moves(Verb)
  <2>1. at' = "dial"
    BY <1>2, <1>9 DEF Moves
  <2> QED
    BY <1>4, <1>5, <1>6, <1>7, <2>1 DEF UnderWay, Moving, Asked
<1>10. CASE ~Moves(Verb)
  <2>1. at' = "await"
    BY <1>2, <1>10 DEF Moves
  <2>2. Asking'
    BY <1>4, <1>5, <1>6, <1>7 DEF Asking, Asked
  <2> QED
    BY <1>6, <1>8, <1>10, <2>1, <2>2 DEF UnderWay, Moving, Moves
<1> QED
  BY <1>9, <1>10

LEMMA DialDataStep ==
  ASSUME TypeInv, StepInv, DialData
  PROVE  StepInv'
<1> SUFFICES ASSUME Clean' PROVE UnderWay'
  BY DEF StepInv
<1>0. /\ at = "dial" /\ call # "connect"
      /\ UNCHANGED <<call, buffered, local, sent, kernel, server, xfer, remote>>
  BY DEF DialData
<1>1. Moves(Verb)
  BY <1>0, Known, AheadHere DEF PlaceOf, Ahead, Verb
<1>2. ~Failed(response)
  BY <1>1 DEF Failed, Unopened, Moves, Clean, Unanswered
<1>3. /\ data' = sent /\ at' = "await" /\ wire' = <<>>
      /\ UNCHANGED <<todo, result, handle, fault>>
  BY <1>2 DEF DialData
<1>4. Prepared /\ xfer = NoXfer /\ Lines = <<>> /\ server = <<Asked(Verb, "none")>>
  BY <1>0, <1>3, WasClean DEF UnderWay
<1>5. Prepared' /\ xfer' = NoXfer /\ Lines' = <<>>
  BY <1>0, <1>3, <1>4, LinesStay DEF Prepared, Whole
<1>6. Verb' = Verb /\ server' = <<Asked(Verb, "none")'>>
  BY <1>0, <1>3, <1>4 DEF Verb, Asked
<1>7. Asking'
  BY <1>5, <1>6 DEF Asking, Asked
<1> QED
  BY <1>0, <1>1, <1>3, <1>6, <1>7 DEF UnderWay, Moving, Moves

LEMMA FillStep ==
  ASSUME TypeInv, StepInv, Fill
  PROVE  StepInv'
<1> SUFFICES ASSUME Clean' PROVE UnderWay'
  BY DEF StepInv
<1>1. /\ buffered = <<>> /\ buffered' = kernel /\ kernel' = <<>>
      /\ UNCHANGED <<at, call, todo, result, handle, response, match, data, local, sent,
                     server, xfer, wire, remote, fault>>
  BY DEF Fill
<1>2. Lines' = Lines
  <2>1. <<>> \o kernel = kernel /\ kernel \o <<>> = kernel
    BY Known, ConcatEmptySeq
  <2> QED
    BY <1>1, <2>1 DEF Lines
<1>3. UnderWay
  BY <1>1, WasClean
<1>4. at \in {"await", "rest"} /\ Verb' = Verb
  BY <1>1 DEF Fill, Verb
<1>5. Greeting => Greeting'
  BY <1>1, <1>2 DEF Greeting, Reply, Asked
<1>6. Asking => Asking'
  BY <1>1, <1>2, <1>4 DEF Asking, Prepared, Whole, Reply, Asked
<1>7. Transferring => Transferring'
  BY <1>1, <1>2, <1>4
     DEF Transferring, Kept, Whole, Running, Over, First, Waiting, Unspoilt, Reply
<1> QED
  BY <1>1, <1>3, <1>4, <1>5, <1>6, <1>7 DEF UnderWay, Moving

LEMMA TimedOutStep ==
  ASSUME TypeInv, StepInv, TimedOut
  PROVE  StepInv'
<1> SUFFICES ASSUME Clean' PROVE FALSE
  BY DEF StepInv
<1>1. /\ at = "await" /\ buffered = <<>> /\ kernel = <<>> /\ handle = "open"
      /\ "late" \in fault \/ (server = <<>> /\ xfer = NoXfer)
      /\ Examine(response)
  BY DEF TimedOut
<1>2. GoesOn
  BY <1>1, Known, ExamineGoesOn
<1>3. UnderWay /\ "late" \notin fault
  BY <1>1, <1>2, WasClean DEF GoesOn, Clean, Unanswered
<1>4. Lines = <<>> /\ server = <<>> /\ xfer = NoXfer
  BY <1>1, <1>3, LinesEmpty
<1>5. ~Greeting /\ ~Asking
  BY <1>1, <1>4, OneOrTwo DEF Greeting, Asking
<1>6. ~Transferring
  <2>1. \A w : ~Running(w)
    BY <1>4 DEF Running, NoXfer
  <2>2. \A w : Append(First, Reply(Verdict(w))) # <<>>
    BY OneOrTwo DEF First
  <2> QED
    BY <1>4, <2>1, <2>2 DEF Transferring, Over
<1> QED
  BY <1>1, <1>3, <1>5, <1>6 DEF UnderWay

LEMMA EndOfRepliesStep ==
  ASSUME TypeInv, StepInv, EndOfReplies
  PROVE  StepInv'
<1>1. handle' # "open"
  BY DEF EndOfReplies, HangUpSeen, Failed, HangsUp
<1> QED
  BY <1>1 DEF StepInv, Clean

(* A line is read: what Examine may do with it.                             *)
LEMMA LineRead ==
  ASSUME TypeInv, StepInv, ReadLine, Clean'
  PROVE  /\ UnderWay /\ at \in {"await", "rest"}
         /\ Lines # <<>> /\ Lines' = Tail(Lines) /\ response' = Head(Lines)
         /\ Examine(Head(Lines))
         /\ UNCHANGED <<call, local, sent, server, xfer, wire, remote>>
<1>1. /\ at \in {"await", "rest"} /\ buffered # <<>>
      /\ buffered' = Tail(buffered) /\ response' = Head(buffered)
      /\ Examine(Head(buffered))
      /\ UNCHANGED <<call, local, sent, kernel, server, xfer, wire, remote>>
  BY DEF ReadLine, peer
<1>2. GoesOn
  BY <1>1, Known, FirstLine, ExamineGoesOn
<1>3. UnderWay
  BY <1>1, <1>2, WasClean DEF GoesOn, Clean
<1> QED
  BY <1>1, <1>3, LineTaken

(* A reply of one line is judged at once.                                   *)
LEMMA OneLineJudged ==
  ASSUME NEW resp, ~resp.more, at = "rest" => resp.class = match, Examine(resp)
  PROVE  IF resp.class = Head(todo).expected THEN Done ELSE Failed(resp)
BY DEF Examine, Judge, Accepts

LEMMA Replied ==
  ASSUME NEW c
  PROVE  /\ Reply(c).of = sent /\ Reply(c).class = c /\ ~Reply(c).more
         /\ Line(sent, c, TRUE).of = sent /\ Line(sent, c, TRUE).class = c
         /\ Line(sent, c, TRUE).more
BY DEF Reply, Line

LEMMA GreetingStep ==
  ASSUME TypeInv, StepInv, ReadLine, Clean', Verb = "dial"
  PROVE  UnderWay'
<1>1. /\ Greeting /\ at \in {"await", "rest"}
      /\ Lines # <<>> /\ Lines' = Tail(Lines) /\ response' = Head(Lines)
      /\ Examine(Head(Lines))
      /\ UNCHANGED <<call, local, sent, server, xfer, wire, remote>>
  BY LineRead DEF UnderWay
<1>2. xfer' = NoXfer
  BY <1>1 DEF Greeting
<1>3. ASSUME NEW c \in {"2", "4"}, at = "await", Lines' = <<>> \/ Lines' = <<Reply(c)>>,
             Head(Lines) = Line(sent, c, TRUE),
             server = IF Lines' = <<>> THEN <<Asked("dial", c)>> ELSE <<>>
      PROVE  UnderWay'
  <2>1. at' = "rest" /\ match' = c /\ UNCHANGED <<todo, result, handle, data, fault>>
    BY <1>1, <1>3, Replied DEF Examine
  <2>2. Verb' = "dial"
    BY <2>1 DEF Verb
  <2>3. Asked("dial", c)' = Asked("dial", c) /\ Reply(c)' = Reply(c)
    BY <1>1 DEF Asked, Reply
  <2>4. Asked("dial", match)' = Asked("dial", c) /\ Reply(match)' = Reply(c)
    BY <1>1, <2>1 DEF Asked, Reply
  <2>5. /\ match' \in {"2", "4"}
        /\ \/ Lines' = <<>> /\ server' = <<Asked("dial", match)>>'
           \/ Lines' = <<Reply(match)>>' /\ server' = <<>>
    BY <1>1, <1>3, <2>1, <2>4, OneOrTwo
  <2>6. Greeting'
    BY <1>2, <2>1, <2>5 DEF Greeting
  <2> QED
    BY <2>1, <2>2, <2>6 DEF UnderWay, Moving
<1>4. ASSUME NEW c \in {"2", "4"}, at = "rest" => match = c, Lines = <<Reply(c)>>, server = <<>>
      PROVE  UnderWay'
  <2>1. Head(Lines) = Reply(c) /\ Lines' = <<>>
    BY <1>1, <1>4, OneOrTwo
  <2>2. IF c = Head(todo).expected THEN Done ELSE Failed(Head(Lines))
    <3>1. Examine(Reply(c)) /\ ~Reply(c).more /\ Reply(c).class = c
      BY <1>1, <2>1, Replied
    <3> QED
      BY <1>4, <2>1, <3>1, OneLineJudged
  <2>3. ~Failed(Head(Lines))
    BY DEF Failed, HangsUp, Clean
  <2>4. c = "2" /\ Done
    BY <1>1, <2>2, <2>3, Known, AheadHere DEF Expected
  <2>5. at' = "idle" /\ result' = 1
    BY <1>1, <2>4, Known, AheadHere DEF Done, NoAddress, Ends, Return
  <2>6. call = "connect"
    BY <1>1, Known, AheadHere DEF Ahead, Verb
  <2>7. Settled'
    BY <1>1, <1>2, <1>4, <2>1 DEF Settled
  <2>8. Told'
    <3>1. response'.of = sent' /\ response'.class = "2"
      BY <1>1, <2>1, <2>4 DEF Reply, Line
    <3> QED
      BY <1>1, <2>6, <3>1 DEF Told
  <2> QED
    BY <2>5, <2>7, <2>8 DEF UnderWay, Moving
<1>5. CASE at = "await"
  <2>1. PICK c \in {"2", "4"} :
          \/ Lines = <<Line(sent, c, TRUE)>> /\ server = <<Asked("dial", c)>>
          \/ Lines = <<Line(sent, c, TRUE), Reply(c)>> /\ server = <<>>
          \/ Lines = <<Reply(c)>> /\ server = <<>>
    BY <1>1, <1>5 DEF Greeting
  <2>2. CASE Lines = <<Line(sent, c, TRUE)>> /\ server = <<Asked("dial", c)>>
    <3>1. Head(Lines) = Line(sent, c, TRUE) /\ Lines' = <<>>
      BY <1>1, <2>2, OneOrTwo
    <3> QED
      BY <1>3, <1>5, <2>2, <3>1
  <2>3. CASE Lines = <<Line(sent, c, TRUE), Reply(c)>> /\ server = <<>>
    <3>1. Head(Lines) = Line(sent, c, TRUE) /\ Lines' = <<Reply(c)>> /\ Lines' # <<>>
      BY <1>1, <2>3, OneOrTwo
    <3> QED
      BY <1>3, <1>5, <2>3, <3>1
  <2>4. CASE Lines = <<Reply(c)>> /\ server = <<>>
    BY <1>4, <1>5, <2>4
  <2> QED
    BY <2>1, <2>2, <2>3, <2>4
<1>6. CASE at = "rest"
  <2>1. match \in {"2", "4"} /\ Lines = <<Reply(match)>> /\ server = <<>>
    BY <1>1, <1>6 DEF Greeting
  <2> QED
    BY <1>4, <1>6, <2>1
<1> QED
  BY <1>1, <1>5, <1>6

(* The reply to a command that has begun no transfer.                       *)
LEMMA AnswerRead ==
  ASSUME TypeInv, StepInv, ReadLine, Clean', at = "await", Asking,
         Verb \notin {"dial", "end", "abort"}
  PROVE  UnderWay'
<1>1. /\ Lines # <<>> /\ Lines' = Tail(Lines) /\ response' = Head(Lines)
      /\ Examine(Head(Lines))
      /\ UNCHANGED <<call, local, sent, server, xfer, wire, remote>>
  BY LineRead
<1>2. PICK c \in Classes \ {"1"} : Lines = <<Reply(c)>> /\ server = <<>>
  BY <1>1 DEF Asking
<1>3. Head(Lines) = Reply(c) /\ Lines' = <<>>
  BY <1>1, <1>2, OneOrTwo
<1>4. Settled'
  BY <1>1, <1>2, <1>3 DEF Settled, Asking
<1>5. Prepared'
  BY <1>1 DEF Asking, Prepared, Whole
<1>6. /\ Verb \in Verbs /\ Head(todo).expected = Expected(Verb) /\ Ahead(call, todo)
      /\ Onward(call, todo) /\ (Len(todo) > 1 <=> ~Ends(Verb))
  BY Known, AheadHere
<1>7. IF c = Expected(Verb) THEN Done ELSE Failed(Reply(c))
  <2>1. Examine(Reply(c)) /\ ~Reply(c).more /\ Reply(c).class = c
    BY <1>1, <1>3, Replied
  <2> QED
    BY <1>6, <2>1, OneLineJudged
<1>8. CASE c = Expected(Verb) /\ Done
  <2>1. ~Moves(Verb)
    BY <1>8 DEF Expected, Moves
  <2>0. CASE NoAddress
    <3>1. at' = "idle" /\ result' = 0
      BY <2>0 DEF NoAddress, Return
    <3>2. Told'
      BY <1>1, <3>1 DEF Told
    <3> QED
      BY <1>4, <3>1, <3>2 DEF UnderWay, Moving
  <2>2. CASE ~NoAddress /\ Len(todo) > 1
    <3>1. at' = "send"
      BY <1>8, <2>1, <2>2 DEF Done, Moves
    <3> QED
      BY <1>4, <1>5, <3>1 DEF UnderWay, Moving
  <2>3. CASE ~NoAddress /\ ~(Len(todo) > 1)
    <3>1. at' = "idle"
      BY <1>8, <2>3 DEF Done, Return
    <3>2. Ends(Verb)
      BY <1>6, <2>3
    <3>3. call \notin {"get", "put"} /\ c = "2"
      BY <1>6, <1>8, <3>2 DEF Ahead, Ends, Expected, Verb
    <3>4. Told'
      <4>1. response'.of = sent' /\ response'.class = "2"
        BY <1>1, <1>3, <3>3 DEF Reply, Line
      <4> QED
        BY <1>1, <3>3, <4>1 DEF Told
    <3> QED
      BY <1>4, <3>1, <3>4 DEF UnderWay, Moving
  <2> QED
    BY <2>0, <2>2, <2>3
<1>9. CASE Failed(Reply(c))
  <2>1. Verb \notin {"REST", "RETR", "STOR"}
    BY <1>9 DEF Failed, Unopened, Clean, Unanswered
  <2>2. /\ at' = "idle"
        /\ result' = 1 => Verb = "USER" /\ c = "2"
    <3>1. Return(CASE Verb = "USER" /\ Reply(c).class = "2" -> 1
                   [] Verb = "end" -> -1
                   [] OTHER -> 0)
      BY <1>9, <2>1 DEF Failed
    <3> QED
      BY <3>1 DEF Return, Reply, Line
  <2>3. Told'
    BY <1>1, <1>3, <1>6, <2>2, Replied DEF Told, Ahead, Verb
  <2> QED
    BY <1>4, <2>2, <2>3 DEF UnderWay, Moving
<1> QED
  BY <1>7, <1>8, <1>9

(* The first reply to RETR or STOR: the data may move.                      *)
LEMMA BeginningRead ==
  ASSUME TypeInv, StepInv, ReadLine, Clean', at = "await", Transferring, Moves(Verb)
  PROVE  UnderWay'
<1>1. /\ Lines # <<>> /\ Lines' = Tail(Lines) /\ response' = Head(Lines)
      /\ Examine(Head(Lines)) /\ UnderWay
      /\ UNCHANGED <<call, local, sent, server, xfer, wire, remote>>
  BY LineRead
<1>2. PICK w \in {"open", "ended", "broken"} : server = <<>> /\ Kept(w) /\ (Running(w) \/ Over(w))
  BY DEF Transferring
<1>3. First = <<Reply("1")>>
  BY DEF First
<1>4. Lines = <<Reply("1")>> \/ Lines = <<Reply("1"), Reply(Verdict(w))>>
  BY <1>2, <1>3, OneOrTwo DEF Running, Over
<1>5. Head(Lines) = Reply("1")
  BY <1>4, OneOrTwo
<1>6. Done
  <2>1. Examine(Reply("1")) /\ ~Reply("1").more /\ Reply("1").class = "1"
    BY <1>1, <1>5, Replied
  <2>2. Head(todo).expected = "1"
    BY Known, AheadHere DEF Expected, Moves
  <2> QED
    BY <2>1, <2>2, OneLineJudged
<1>7. Len(todo) > 1
  BY Known, AheadHere DEF Ends, Moves
<1>8. /\ at' = IF Verb = "RETR" THEN "read" ELSE "write"
      /\ UNCHANGED <<data, fault>>
  BY <1>6, <1>7 DEF Done, NoAddress, Moves
<1>9. data' = sent'
  BY <1>1, <1>8 DEF UnderWay, Moving
<1>10. First' = <<>> /\ ~Waiting'
  BY <1>8 DEF First, Waiting
<1>11. Kept(w)'
  BY <1>1, <1>2, <1>8, <1>10 DEF Kept, Whole, Unspoilt
<1>12. Running(w)' \/ Over(w)'
  <2>1. CASE Running(w)
    <3>1. Lines = <<Reply("1")>> /\ Lines' = <<>>
      BY <1>1, <1>3, <2>1, OneOrTwo DEF Running
    <3> QED
      BY <1>1, <1>10, <2>1, <3>1 DEF Running
  <2>2. CASE Over(w)
    <3>1. Lines = <<Reply("1"), Reply(Verdict(w))>>
      BY <1>3, <2>2, OneOrTwo DEF Over
    <3>2. Lines' = <<Reply(Verdict(w))>>
      BY <1>1, <3>1, OneOrTwo
    <3>3. Reply(Verdict(w))' = Reply(Verdict(w))
      BY <1>1 DEF Reply, Verdict
    <3>4. Lines' = Append(First, Reply(Verdict(w)))'
      BY <1>10, <3>2, <3>3, OneOrTwo
    <3> QED
      BY <1>1, <2>2, <3>4 DEF Over
  <2> QED
    BY <1>2, <2>1, <2>2
<1>13. Transferring'
  BY <1>1, <1>2, <1>11, <1>12 DEF Transferring
<1> QED
  BY <1>8, <1>9, <1>13 DEF UnderWay

(* The last reply to a transfer: how it went.                               *)
LEMMA VerdictRead ==
  ASSUME TypeInv, StepInv, ReadLine, Clean', at = "await", Transferring,
         Verb \in {"end", "abort"}
  PROVE  UnderWay'
<1>1. /\ Lines # <<>> /\ Lines' = Tail(Lines) /\ response' = Head(Lines)
      /\ Examine(Head(Lines)) /\ UnderWay
      /\ UNCHANGED <<call, local, sent, server, xfer, wire, remote>>
  BY LineRead
<1>2. PICK w \in {"open", "ended", "broken"} : server = <<>> /\ Kept(w) /\ (Running(w) \/ Over(w))
  BY DEF Transferring
<1>3. First = <<>>
  BY DEF First, Moves
<1>4. w # "open" /\ Lines = <<Reply(Verdict(w))>> /\ xfer = NoXfer
  BY <1>1, <1>2, <1>3, OneOrTwo DEF Running, Over
<1>5. Head(Lines) = Reply(Verdict(w)) /\ Lines' = <<>>
  BY <1>1, <1>4, OneOrTwo
<1>6. IF Verdict(w) = "2" THEN Done ELSE Failed(Reply(Verdict(w)))
  <2>1. Head(todo).expected = "2"
    BY Known, AheadHere DEF Expected
  <2>2. /\ Examine(Reply(Verdict(w))) /\ ~Reply(Verdict(w)).more
        /\ Reply(Verdict(w)).class = Verdict(w)
    BY <1>1, <1>5, Replied
  <2> QED
    BY <2>1, <2>2, OneLineJudged
<1>7. Settled'
  BY <1>1, <1>2, <1>4, <1>5 DEF Settled
<1>8. CASE Verdict(w) = "2" /\ Done
  <2>1. w = "ended"
    BY <1>8 DEF Verdict
  <2>2. /\ at' = "idle" /\ fault' = fault
        /\ result' = 1 => Verb = "end"
    BY <1>8, Known, AheadHere DEF Done, NoAddress, Return, Ends
  <2>3. ASSUME Verb = "end", Unspoilt
        PROVE  (call = "get" => local = File) /\ (call = "put" => remote = File)
    <3>1. /\ Whole
          /\ call = "get" => remote = <<>> /\ wire = <<>>
          /\ call = "put" => wire = <<>> /\ local = <<>>
      BY <1>2, <2>1, <2>3 DEF Kept, Waiting
    <3>2. local \o (<<>> \o <<>>) = local /\ remote \o (<<>> \o <<>>) = remote
      <4>1. local \in Seq(Nat) /\ remote \in Seq(Nat) /\ <<>> \in Seq(Nat)
        BY Known DEF FileType
      <4>2. <<>> \o <<>> = <<>>
        BY <4>1, ConcatEmptySeq
      <4> QED
        BY <4>1, <4>2, ConcatEmptySeq
    <3> QED
      BY <3>1, <3>2 DEF Whole
  <2>4. Told'
    <3>1. response'.of = sent' /\ response'.class = "2"
      BY <1>1, <1>5, <1>8 DEF Reply, Line
    <3> QED
      BY <1>1, <2>2, <2>3, <3>1 DEF Told, Unspoilt
  <2> QED
    BY <1>7, <2>2, <2>4 DEF UnderWay, Moving
<1>9. CASE Failed(Reply(Verdict(w)))
  <2>1. at' = "idle" /\ result' # 1
    BY <1>9, Replied DEF Failed, Return
  <2> QED
    BY <1>7, <2>1 DEF UnderWay, Told, Moving
<1> QED
  BY <1>6, <1>8, <1>9

LEMMA ReadLineStep ==
  ASSUME TypeInv, StepInv, ReadLine
  PROVE  StepInv'
<1> SUFFICES ASSUME Clean' PROVE UnderWay'
  BY DEF StepInv
<1>1. UnderWay /\ at \in {"await", "rest"}
  BY LineRead
<1> QED
  BY <1>1, GreetingStep, AnswerRead, BeginningRead, VerdictRead DEF UnderWay

(* While the data moves: what there is, and what it takes to go on.         *)
LEMMA AtData ==
  ASSUME TypeInv, StepInv, Clean', at \in {"read", "write"},
         UNCHANGED handle, fault \subseteq fault'
  PROVE  /\ Transferring /\ data = sent /\ Verb = "end" /\ First = <<>> /\ ~Waiting
         /\ IF at = "read" THEN call = "get" ELSE call = "put"
         /\ local \in Seq(Nat) /\ wire \in Seq(Nat) /\ remote \in Seq(Nat)
<1>1. UnderWay
  BY WasClean
<1>2. Verb = "end" /\ IF at = "read" THEN call = "get" ELSE call = "put"
  BY Known, AheadHere DEF PlaceOf
<1> QED
  BY <1>1, <1>2, Known DEF UnderWay, Moving, First, Waiting, FileType

(* What the server has begun goes on in the same way.                       *)
LEMMA SameWay ==
  ASSUME UNCHANGED <<call, sent, xfer, buffered, kernel>>, First' = First, NEW w,
         Running(w) \/ Over(w)
  PROVE  Running(w)' \/ Over(w)'
<1>1. Lines' = Lines /\ Reply(Verdict(w))' = Reply(Verdict(w))
  BY LinesStay DEF Reply, Verdict
<1>2. CASE Running(w)
  BY <1>1, <1>2 DEF Running
<1>3. CASE Over(w)
  BY <1>1, <1>3 DEF Over
<1> QED
  BY <1>2, <1>3

LEMMA ReadDataStep ==
  ASSUME TypeInv, StepInv, ReadData
  PROVE  StepInv'
<1> SUFFICES ASSUME Clean' PROVE UnderWay'
  BY DEF StepInv
<1>0. /\ at = "read"
      /\ UNCHANGED <<call, handle, response, match, buffered, sent, kernel, server, xfer, remote>>
      /\ fault \subseteq fault'
  BY DEF ReadData
<1>1. /\ Transferring /\ data = sent /\ Verb = "end" /\ First = <<>> /\ ~Waiting
      /\ call = "get"
      /\ local \in Seq(Nat) /\ wire \in Seq(Nat) /\ remote \in Seq(Nat)
  BY <1>0, AtData
<1>2. PICK w \in {"open", "ended", "broken"} : server = <<>> /\ Kept(w) /\ (Running(w) \/ Over(w))
  BY <1>1 DEF Transferring
<1>3. ASSUME First' = <<>>, Kept(w)' PROVE Transferring'
  <2>1. Running(w)' \/ Over(w)'
    BY <1>0, <1>1, <1>2, <1>3, SameWay
  <2> QED
    BY <1>0, <1>2, <1>3, <2>1 DEF Transferring
<1>4. ASSUME CloseData(Head(todo))
      PROVE  /\ at' = "await" /\ Verb' = "end" /\ First' = <<>> /\ ~Moving'
             /\ Transferring' => UnderWay'
  <2>1. at' = "await" /\ todo' = <<Head(todo)>>
    BY <1>4 DEF CloseData
  <2>2. Verb' = "end"
    BY <1>1, <2>1, OneOrTwo DEF Verb
  <2>3. First' = <<>> /\ ~Moving'
    BY <2>1, <2>2 DEF First, Moving, Moves
  <2> QED
    BY <2>1, <2>2, <2>3 DEF UnderWay
<1>5. CASE /\ wire # <<>>
           /\ local' = Append(local, Head(wire)) /\ wire' = Tail(wire)
           /\ UNCHANGED <<at, todo, result, data, fault>>
  <2>1. local' \o (wire' \o remote') = local \o (wire \o remote)
    <3>1. Append(local, Head(wire)) \o (Tail(wire) \o remote) = local \o (wire \o remote)
      <4>1. local \in Seq(Nat) /\ wire \in Seq(Nat) /\ remote \in Seq(Nat) /\ wire # <<>>
        BY <1>1, <1>5
      <4>2. Moved(Nat, local, wire)
        BY <4>1, ElementMoves
      <4> QED
        BY <4>1, <4>2, Zenon DEF Moved
    <3> QED
      BY <1>0, <1>5, <3>1, Zenon
  <2>2. First' = <<>> /\ ~Waiting'
    BY <1>0, <1>5 DEF First, Waiting
  <2>3. Kept(w)'
    BY <1>0, <1>1, <1>2, <1>5, <2>1, <2>2 DEF Kept, Whole, Unspoilt
  <2>4. Transferring'
    BY <1>3, <2>2, <2>3
  <2> QED
    BY <1>0, <1>1, <1>5, <2>4 DEF UnderWay
<1>6. CASE CloseData(Head(todo)) /\ fault' = fault \cup {"disk"}
  <2>1. Kept(w)'
    BY <1>6 DEF Kept, Unspoilt
  <2> QED
    BY <1>3, <1>4, <1>6, <2>1
<1>7. CASE /\ wire = <<>> /\ ~Streaming
           /\ CloseData(Head(todo))
           /\ UNCHANGED <<local, wire, fault>>
  <2>1. w # "open"
    BY <1>1, <1>2, <1>7 DEF Streaming, Running, Over
  <2>2. Kept(w)'
    BY <1>0, <1>1, <1>2, <1>7, <2>1 DEF Kept, Whole, Unspoilt
  <2> QED
    BY <1>3, <1>4, <1>7, <2>2
<1> QED
  BY <1>5, <1>6, <1>7 DEF ReadData

LEMMA WriteDataStep ==
  ASSUME TypeInv, StepInv, WriteData
  PROVE  StepInv'
<1> SUFFICES ASSUME Clean' PROVE UnderWay'
  BY DEF StepInv
<1>0. /\ at = "write"
      /\ UNCHANGED <<call, handle, response, match, buffered, sent, kernel, server, xfer,
                     remote, fault>>
  BY DEF WriteData
<1>1. /\ Transferring /\ data = sent /\ Verb = "end" /\ First = <<>> /\ ~Waiting
      /\ call = "put"
      /\ local \in Seq(Nat) /\ wire \in Seq(Nat) /\ remote \in Seq(Nat)
  BY <1>0, AtData
<1>2. PICK w \in {"open", "ended", "broken"} : server = <<>> /\ Kept(w) /\ (Running(w) \/ Over(w))
  BY <1>1 DEF Transferring
<1>3. ASSUME First' = <<>>, Kept(w)' PROVE Transferring'
  <2>1. Running(w)' \/ Over(w)'
    BY <1>0, <1>1, <1>2, <1>3, SameWay
  <2> QED
    BY <1>0, <1>2, <1>3, <2>1 DEF Transferring
<1>4. ASSUME NEW last, CloseData(last), last.verb \in {"end", "abort"}
      PROVE  /\ at' = "await" /\ Verb' = last.verb /\ First' = <<>> /\ ~Moving'
             /\ Transferring' => UnderWay'
  <2>1. at' = "await" /\ todo' = <<last>>
    BY <1>4 DEF CloseData
  <2>2. Verb' = last.verb
    BY <1>1, <2>1, OneOrTwo DEF Verb
  <2>3. First' = <<>> /\ ~Moving'
    BY <1>4, <2>1, <2>2 DEF First, Moving, Moves
  <2> QED
    BY <1>4, <2>1, <2>2, <2>3 DEF UnderWay
<1>5. CASE /\ local # <<>> /\ Streaming
           /\ wire' = Append(wire, Head(local)) /\ local' = Tail(local)
           /\ UNCHANGED <<at, todo, result, data>>
  <2>1. remote' \o (wire' \o local') = remote \o (wire \o local)
    <3>1. remote \o (Append(wire, Head(local)) \o Tail(local)) = remote \o (wire \o local)
      <4>1. local \in Seq(Nat) /\ wire \in Seq(Nat) /\ remote \in Seq(Nat) /\ local # <<>>
        BY <1>1, <1>5
      <4>2. Moved(Nat, wire, local)
        BY <4>1, ElementMoves
      <4> QED
        BY <4>1, <4>2, Zenon DEF Moved
    <3> QED
      BY <1>0, <1>5, <3>1, Zenon
  <2>2. First' = <<>> /\ ~Waiting'
    BY <1>0, <1>5 DEF First, Waiting
  <2>3. w = "open"
    <3>1. xfer.stage = "open"
      BY <1>2, <1>5 DEF Streaming
    <3> QED
      BY <1>2, <3>1 DEF Running, Over, NoXfer
  <2>4. Kept(w)'
    BY <1>0, <1>1, <1>2, <1>5, <2>1, <2>2, <2>3 DEF Kept, Whole, Unspoilt
  <2>5. Transferring'
    BY <1>3, <2>2, <2>4
  <2> QED
    BY <1>0, <1>1, <1>5, <2>5 DEF UnderWay
<1>6. CASE /\ CloseData(Abort)
           /\ UNCHANGED <<local, wire>>
  <2>1. Abort.verb = "abort"
    BY DEF Abort, Command
  <2>2. Verb' = "abort"
    BY <1>4, <1>6, <2>1
  <2>3. Kept(w)'
    BY <1>0, <1>1, <1>2, <1>6, <2>2 DEF Kept, Whole, Unspoilt, Waiting
  <2> QED
    BY <1>3, <1>4, <1>6, <2>1, <2>3
<1>7. CASE /\ local = <<>>
           /\ CloseData(Head(todo))
           /\ UNCHANGED <<local, wire>>
  <2>1. Kept(w)'
    BY <1>0, <1>1, <1>2, <1>7 DEF Kept, Whole, Unspoilt
  <2>2. Head(todo).verb = "end"
    BY <1>1 DEF Verb
  <2> QED
    BY <1>3, <1>4, <1>7, <2>1, <2>2
<1> QED
  BY <1>5, <1>6, <1>7 DEF WriteData

(* The server moves while a transfer is under way.                          *)
LEMMA AtWork ==
  ASSUME TypeInv, StepInv, Clean', UNCHANGED handle, fault \subseteq fault',
         xfer.stage # "none"
  PROVE  /\ UnderWay /\ at \in {"await", "read", "write"} /\ server = <<>>
         /\ at = "await" => Moves(Verb) \/ Verb \in {"end", "abort"}
         /\ Kept(xfer.stage) /\ Running(xfer.stage) /\ Transferring
         /\ xfer.stage \in {"open", "ended", "broken"}
         /\ xfer.n = sent /\ xfer.verb = IF call = "get" THEN "RETR" ELSE "STOR"
<1>1. UnderWay /\ xfer # NoXfer
  BY WasClean DEF NoXfer
<1>2. ~Settled /\ ~Greeting /\ ~Asking
  BY <1>1 DEF Settled, Greeting, Asking
<1>3. at \in {"await", "read", "write"}
  BY <1>1, <1>2, Known, AheadHere DEF UnderWay, ClientType, Places
<1>4. Transferring /\ (at = "await" => Moves(Verb) \/ Verb \in {"end", "abort"})
  BY <1>1, <1>2, <1>3 DEF UnderWay
<1>5. PICK w \in {"open", "ended", "broken"} : server = <<>> /\ Kept(w) /\ (Running(w) \/ Over(w))
  BY <1>4 DEF Transferring
<1>6. Running(w)
  BY <1>1, <1>5 DEF Over
<1>7. xfer.stage = w /\ xfer.n = sent /\ xfer.verb = IF call = "get" THEN "RETR" ELSE "STOR"
  BY <1>6 DEF Running
<1> QED
  BY <1>1, <1>3, <1>4, <1>5, <1>6, <1>7

LEMMA StillTransferring ==
  ASSUME UnderWay, at \in {"await", "read", "write"}, UNCHANGED client,
         at = "await" => Moves(Verb) \/ Verb \in {"end", "abort"}, Transferring'
  PROVE  UnderWay'
BY DEF UnderWay, client, Verb, Moving, Moves

LEMMA ClientViews ==
  ASSUME UNCHANGED client, UNCHANGED fault
  PROVE  /\ First' = First /\ Waiting' = Waiting /\ Unspoilt' = Unspoilt
         /\ \A w : Reply(Verdict(w))' = Reply(Verdict(w))
BY DEF First, Waiting, Unspoilt, Reply, Verdict, Verb, client

LEMMA AnswerStep ==
  ASSUME TypeInv, StepInv, Answer
  PROVE  StepInv'
<1> SUFFICES ASSUME Clean' PROVE UnderWay'
  BY DEF StepInv
<1>0. UNCHANGED <<client, wire, remote, fault>>
  BY DEF Answer
<1>1. /\ UnderWay
      /\ UNCHANGED <<at, call, todo, handle, match, buffered, data, local, sent, wire, remote, fault>>
  BY <1>0, WasClean DEF client
<1>2. PICK cmd \in CommandType(sent), class \in Classes, more \in BOOLEAN :
        /\ server # <<>> /\ xfer.verb = "none" /\ cmd = Head(server)
        /\ cmd.verb \in {"RETR", "STOR"} => at # "dial"
        /\ class \in IF cmd.begun = "none" THEN Replies(cmd.verb) ELSE {cmd.begun}
        /\ more => cmd.begun = "none" /\ cmd.verb = "dial"
        /\ kernel' = Append(kernel, Line(cmd.n, class, more))
        /\ server' = IF more THEN <<[cmd EXCEPT !.begun = class]>> \o Tail(server)
                             ELSE Tail(server)
        /\ xfer' = IF class = "1" THEN [n |-> cmd.n, verb |-> cmd.verb, stage |-> "open"]
                                  ELSE xfer
  BY Answered
<1>3. Lines' = Append(Lines, Line(cmd.n, class, more))
  <2>1. cmd.n \in 0..sent
    BY DEF CommandType
  <2>2. Line(cmd.n, class, more) \in LineType(sent)
    BY <2>1, Known, LineTyped
  <2> QED
    BY <1>1, <1>2, <2>2, LineArrives
<1>4. at \in {"await", "rest"}
  <2>1. ~Settled /\ ~Transferring
    BY <1>2 DEF Settled, Transferring
  <2>2. at \in {"dial", "await", "rest"}
    BY <1>1, <2>1, Known DEF UnderWay, ClientType, Places
  <2>3. ASSUME at = "dial" PROVE FALSE
    <3>1. server = <<Asked(Verb, "none")>>
      BY <1>1, <2>3 DEF UnderWay
    <3>2. cmd.verb = Verb
      BY <1>2, <3>1, OneOrTwo DEF Asked
    <3>3. call = "connect"
      BY <1>2, <2>3, <3>2, Known, AheadHere DEF PlaceOf, Moves, Ahead, Verb
    <3> QED
      BY <1>1, <2>3, <3>3, Known DEF PlaceInv, Clean
  <2> QED
    BY <2>2, <2>3
<1>5. Verb' = Verb /\ at' = at
  BY <1>1 DEF Verb
<1>6. CASE Verb = "dial"
  <2>1. Greeting
    BY <1>1, <1>4, <1>6 DEF UnderWay
  <2>2. ASSUME NEW b, server = <<Asked("dial", b)>>
        PROVE  /\ cmd.n = sent /\ cmd.verb = "dial" /\ cmd.begun = b
               /\ server' = IF more THEN <<Asked("dial", class)>>' ELSE <<>>
    <3>1. cmd = Asked("dial", b) /\ Tail(server) = <<>>
      BY <1>2, <2>2, OneOrTwo
    <3>2. cmd.n = sent /\ cmd.verb = "dial" /\ cmd.begun = b
      BY <3>1 DEF Asked
    <3>3. [cmd EXCEPT !.begun = class] = Asked("dial", class)
      BY <3>1 DEF Asked
    <3>4. <<Asked("dial", class)>> \o <<>> = <<Asked("dial", class)>>
      <4> DEFINE x == Asked("dial", class)
      <4> HIDE DEF x
      <4>1. <<x>> \in Seq({x})
        OBVIOUS
      <4>2. <<x>> \o <<>> = <<x>>
        BY <4>1, ConcatEmptySeq
      <4> QED
        BY <4>2 DEF x
    <3>5. Asked("dial", class)' = Asked("dial", class)
      BY <1>1 DEF Asked
    <3>6. CASE more
      <4>1. server' = <<Asked("dial", class)>>
        BY <1>2, <3>1, <3>3, <3>4, <3>6
      <4> QED
        BY <3>2, <3>5, <3>6, <4>1
    <3>7. CASE ~more
      BY <1>2, <3>1, <3>2, <3>7
    <3> QED
      BY <3>6, <3>7
  <2>3. xfer = NoXfer
    BY <2>1 DEF Greeting
  <2>4. CASE at = "await" /\ Lines = <<>> /\ server = <<Asked("dial", "none")>>
    <3>1. /\ cmd.n = sent /\ cmd.verb = "dial" /\ cmd.begun = "none"
          /\ server' = IF more THEN <<Asked("dial", class)>>' ELSE <<>>
      BY <2>2, <2>4
    <3>2. class \in {"2", "4"}
      BY <1>2, <3>1 DEF Replies
    <3>3. Lines' = <<Line(sent, class, more)>> /\ xfer' = NoXfer
      BY <1>2, <1>3, <2>3, <2>4, <3>1, <3>2, OneOrTwo
    <3>4. Greeting'
      <4>1. CASE more
        <5>1. Line(sent, class, more) = Line(sent, class, TRUE)
          BY <4>1
        <5>2. Lines' = <<Line(sent, class, TRUE)>>' /\ server' = <<Asked("dial", class)>>'
          BY <1>1, <3>1, <3>3, <4>1, <5>1 DEF Line
        <5> QED
          BY <1>5, <2>4, <3>2, <3>3, <5>2 DEF Greeting
      <4>2. CASE ~more
        <5>1. Line(sent, class, more) = Reply(class)'
          BY <1>1, <4>2 DEF Reply, Line
        <5>2. Lines' = <<Reply(class)>>' /\ server' = <<>>
          BY <3>1, <3>3, <4>2, <5>1
        <5> QED
          BY <1>5, <2>4, <3>2, <3>3, <5>2 DEF Greeting
      <4> QED
        BY <4>1, <4>2
    <3> QED
      BY <1>5, <1>6, <2>4, <3>4 DEF UnderWay, Moving, Moves
  <2>5. ASSUME NEW c \in {"2", "4"}, at = "await", Lines = <<Line(sent, c, TRUE)>>,
               server = <<Asked("dial", c)>>
        PROVE  UnderWay'
    <3>1. /\ cmd.n = sent /\ cmd.begun = c
          /\ server' = IF more THEN <<Asked("dial", class)>>' ELSE <<>>
      BY <2>2, <2>5
    <3>2. class = c /\ ~more
      BY <1>2, <3>1
    <3>3. Line(sent, class, more) = Reply(c)' /\ Line(sent, c, TRUE) = Line(sent, c, TRUE)'
      BY <1>1, <3>2 DEF Reply, Line
    <3>4. Lines' = <<Line(sent, c, TRUE), Reply(c)>>' /\ xfer' = NoXfer /\ server' = <<>>
      <4>1. Lines' = <<Line(sent, c, TRUE), Line(sent, class, more)>>
        BY <1>3, <2>5, <3>1, OneOrTwo
      <4> QED
        BY <1>2, <2>3, <3>1, <3>2, <3>3, <4>1
    <3>5. Greeting'
      BY <1>5, <2>5, <3>4 DEF Greeting
    <3> QED
      BY <1>5, <1>6, <2>5, <3>5 DEF UnderWay, Moving, Moves
  <2>6. CASE /\ at = "rest" /\ match \in {"2", "4"}
             /\ Lines = <<>> /\ server = <<Asked("dial", match)>>
    <3>1. /\ cmd.n = sent /\ cmd.begun = match
          /\ server' = IF more THEN <<Asked("dial", class)>>' ELSE <<>>
      BY <2>2, <2>6
    <3>2. class = match /\ ~more
      BY <1>2, <2>6, <3>1
    <3>3. Line(sent, class, more) = Reply(match)'
      BY <1>1, <3>2 DEF Reply, Line
    <3>4. Lines' = <<Reply(match)>>' /\ xfer' = NoXfer /\ server' = <<>> /\ match' \in {"2", "4"}
      <4>1. Lines' = <<Line(sent, class, more)>>
        BY <1>3, <2>6, <3>1, OneOrTwo
      <4> QED
        BY <1>1, <1>2, <2>3, <2>6, <3>1, <3>2, <3>3, <4>1
    <3>5. Greeting'
      BY <1>5, <2>6, <3>4 DEF Greeting
    <3> QED
      BY <1>5, <1>6, <2>6, <3>5 DEF UnderWay, Moving
  <2> QED
    BY <1>2, <2>1, <2>4, <2>5, <2>6 DEF Greeting
<1>7. CASE Verb # "dial"
  <2>1. at = "await" /\ Verb \notin {"end", "abort"} /\ Asking /\ ~Transferring
    BY <1>1, <1>2, <1>4, <1>7 DEF UnderWay, Transferring
  <2>2. Prepared /\ xfer = NoXfer /\ Lines = <<>> /\ server = <<Asked(Verb, "none")>>
    BY <1>2, <2>1 DEF Asking
  <2>3. cmd = Asked(Verb, "none") /\ Tail(server) = <<>>
    BY <1>2, <2>2, OneOrTwo
  <2>4. cmd.n = sent /\ cmd.verb = Verb /\ cmd.begun = "none"
    BY <2>3 DEF Asked
  <2>5. ~more /\ class \in Replies(Verb)
    BY <1>2, <1>7, <2>4
  <2>6. Line(sent, class, more) = Reply(class)'
    BY <1>1, <2>5 DEF Reply, Line
  <2>7. Lines' = <<Reply(class)>>' /\ server' = <<>>
    <3>1. Lines' = <<Line(sent, class, more)>>
      BY <1>3, <2>2, <2>4, OneOrTwo
    <3> QED
      BY <1>2, <2>3, <2>5, <2>6, <3>1
  <2>8. CASE class # "1"
    <3>1. Prepared' /\ xfer' = NoXfer
      BY <1>1, <1>2, <2>2, <2>8 DEF Prepared, Whole
    <3>2. Asking'
      BY <2>7, <2>8, <3>1 DEF Asking
    <3>3. Moving' => data' = sent'
      BY <1>1, <1>5 DEF UnderWay, Moving
    <3> QED
      BY <1>5, <1>7, <2>1, <3>2, <3>3 DEF UnderWay
  <2>9. CASE class = "1"
    <3>1. Moves(Verb)
      BY <2>5, <2>9 DEF Replies, Moves
    <3>2. Verb = IF call = "get" THEN "RETR" ELSE "STOR"
      BY <2>1, <3>1, Known, AheadHere DEF Ahead, Moves, Verb
    <3>3. xfer' = [n |-> sent', verb |-> IF call' = "get" THEN "RETR" ELSE "STOR", stage |-> "open"]
      BY <1>1, <1>2, <2>4, <2>9, <3>2
    <3>4. First' = <<Reply("1")>>'
      BY <1>5, <2>1, <3>1 DEF First
    <3>5. Running("open")'
      BY <2>7, <2>9, <3>3, <3>4 DEF Running
    <3>6. Kept("open")'
      BY <1>1, <1>5, <2>1, <2>2 DEF Kept, Prepared, Whole, Waiting
    <3>7. Transferring'
      BY <2>7, <3>5, <3>6 DEF Transferring
    <3>8. Moving' => data' = sent'
      BY <1>1, <1>5 DEF UnderWay, Moving
    <3> QED
      BY <1>5, <1>7, <2>1, <3>1, <3>7, <3>8 DEF UnderWay
  <2> QED
    BY <2>8, <2>9
<1> QED
  BY <1>6, <1>7

LEMMA ServeStep ==
  ASSUME TypeInv, StepInv, Serve
  PROVE  StepInv'
<1> SUFFICES ASSUME Clean' PROVE UnderWay'
  BY DEF StepInv
<1>0. xfer.stage = "open" /\ UNCHANGED <<client, kernel, server, fault>>
  BY DEF Serve
<1>1. UNCHANGED <<at, call, todo, handle, buffered, data, local, sent>>
  BY <1>0 DEF client
<1>2. /\ UnderWay /\ at \in {"await", "read", "write"} /\ server = <<>>
      /\ at = "await" => Moves(Verb) \/ Verb \in {"end", "abort"}
      /\ Kept("open") /\ Running("open")
      /\ xfer.n = sent /\ xfer.verb = IF call = "get" THEN "RETR" ELSE "STOR"
  BY <1>0, <1>1, AtWork
<1>3. First' = First /\ Waiting' = Waiting /\ Unspoilt' = Unspoilt /\ Lines' = Lines
  BY <1>0, <1>1, ClientViews, LinesStay
<1>4. ASSUME NEW w \in {"open", "ended"}, Kept(w)',
             xfer' = [xfer EXCEPT !.stage = w]
      PROVE  UnderWay'
  <2>1. Running(w)'
    BY <1>1, <1>2, <1>3, <1>4 DEF Running
  <2>2. Transferring'
    BY <1>0, <1>2, <1>4, <2>1 DEF Transferring
  <2> QED
    BY <1>0, <1>2, <2>2, StillTransferring
<1>5. local \in Seq(Nat) /\ wire \in Seq(Nat) /\ remote \in Seq(Nat)
  BY Known DEF FileType
<1>6. xfer.stage = "open" => xfer = [xfer EXCEPT !.stage = "open"]
  BY Known DEF XferType
<1>7. CASE /\ xfer.verb = "RETR" /\ remote # <<>>
           /\ wire' = Append(wire, Head(remote)) /\ remote' = Tail(remote)
           /\ UNCHANGED xfer
  <2>1. call = "get"
    BY <1>2, <1>7
  <2>2. local' \o (wire' \o remote') = local \o (wire \o remote)
    <3>1. local \o (Append(wire, Head(remote)) \o Tail(remote)) = local \o (wire \o remote)
      <4>1. remote # <<>>
        BY <1>7
      <4>2. Moved(Nat, wire, remote)
        BY <1>5, <4>1, ElementMoves
      <4> QED
        BY <1>5, <4>2, Zenon DEF Moved
    <3> QED
      BY <1>1, <1>7, <3>1, Zenon
  <2>3. Kept("open")'
    BY <1>1, <1>2, <1>3, <2>1, <2>2 DEF Kept, Whole
  <2> QED
    BY <1>0, <1>4, <1>6, <1>7, <2>3
<1>8. CASE /\ xfer.verb = "STOR" /\ wire # <<>>
           /\ remote' = Append(remote, Head(wire)) /\ wire' = Tail(wire)
           /\ UNCHANGED xfer
  <2>1. call # "get"
    BY <1>2, <1>8
  <2>2. remote' \o (wire' \o local') = remote \o (wire \o local)
    <3>1. Append(remote, Head(wire)) \o (Tail(wire) \o local) = remote \o (wire \o local)
      <4>1. wire # <<>>
        BY <1>8
      <4>2. Moved(Nat, remote, wire)
        BY <1>5, <4>1, ElementMoves
      <4> QED
        BY <1>5, <4>2, Zenon DEF Moved
    <3> QED
      BY <1>1, <1>8, <3>1, Zenon
  <2>3. Kept("open")'
    BY <1>1, <1>2, <1>3, <2>1, <2>2 DEF Kept, Whole
  <2> QED
    BY <1>0, <1>4, <1>6, <1>8, <2>3
<1>9. CASE /\ \/ xfer.verb = "RETR" /\ remote = <<>>
              \/ xfer.verb = "STOR" /\ wire = <<>> /\ data # xfer.n
           /\ xfer' = [xfer EXCEPT !.stage = "ended"]
           /\ UNCHANGED <<wire, remote>>
  <2>1. (call = "get" => remote = <<>>) /\ (call = "put" => wire = <<>>)
    BY <1>2, <1>9
  <2>2. Kept("ended")'
    BY <1>1, <1>2, <1>3, <1>9, <2>1 DEF Kept, Whole
  <2> QED
    BY <1>4, <1>9, <2>2
<1> QED
  BY <1>7, <1>8, <1>9 DEF Serve

LEMMA BreakDataStep ==
  ASSUME TypeInv, StepInv, BreakData
  PROVE  StepInv'
<1> SUFFICES ASSUME Clean' PROVE UnderWay'
  BY DEF StepInv
<1>0. /\ xfer.stage = "open" /\ xfer' = [xfer EXCEPT !.stage = "broken"]
      /\ UNCHANGED <<client, kernel, server, fault>>
  BY DEF BreakData
<1>1. UNCHANGED <<at, call, todo, handle, buffered, data, local, sent>>
  BY <1>0 DEF client
<1>2. /\ UnderWay /\ at \in {"await", "read", "write"} /\ server = <<>>
      /\ at = "await" => Moves(Verb) \/ Verb \in {"end", "abort"}
      /\ Running("open")
  BY <1>0, <1>1, AtWork
<1>3. First' = First /\ Lines' = Lines
  BY <1>0, <1>1, ClientViews, LinesStay
<1>4. Running("broken")' /\ Kept("broken")'
  BY <1>0, <1>1, <1>2, <1>3 DEF Running, Kept
<1>5. Transferring'
  BY <1>0, <1>2, <1>4 DEF Transferring
<1> QED
  BY <1>0, <1>2, <1>5, StillTransferring

LEMMA LoseTailStep ==
  ASSUME TypeInv, StepInv, LoseTail
  PROVE  StepInv'
<1> SUFFICES ASSUME Clean' PROVE UnderWay'
  BY DEF StepInv
<1>0. /\ at = "read" /\ fault' = fault \cup {"reset"}
      /\ UNCHANGED <<client, kernel, server, xfer>>
  BY DEF LoseTail
<1>1. UNCHANGED <<at, call, todo, handle, buffered, data, sent>>
  BY <1>0 DEF client
<1>2. UnderWay /\ Transferring /\ First = <<>>
  BY <1>0, <1>1, AtData, WasClean
<1>3. PICK w \in {"open", "ended", "broken"} : server = <<>> /\ (Running(w) \/ Over(w))
  BY <1>2 DEF Transferring
<1>4. First' = First
  BY <1>1 DEF First, Reply, Verb
<1>5. Running(w)' \/ Over(w)'
  BY <1>0, <1>1, <1>3, <1>4, SameWay
<1>6. Kept(w)'
  BY <1>0 DEF Kept, Unspoilt
<1>7. Transferring'
  BY <1>0, <1>3, <1>5, <1>6 DEF Transferring
<1> QED
  BY <1>0, <1>2, <1>7, StillTransferring

LEMMA FinishStep ==
  ASSUME TypeInv, StepInv, Finish
  PROVE  StepInv'
<1> SUFFICES ASSUME Clean' PROVE UnderWay'
  BY DEF StepInv
<1> DEFINE w == xfer.stage
<1>0. /\ w \in {"ended", "broken"} /\ xfer' = NoXfer
      /\ kernel' = Append(kernel, Line(xfer.n, IF w = "ended" THEN "2" ELSE "4", FALSE))
      /\ UNCHANGED <<client, server, wire, remote, fault>>
  BY DEF Finish
<1>1. UNCHANGED <<at, call, todo, handle, buffered, data, local, sent>>
  BY <1>0 DEF client
<1>2. /\ UnderWay /\ at \in {"await", "read", "write"} /\ server = <<>>
      /\ at = "await" => Moves(Verb) \/ Verb \in {"end", "abort"}
      /\ Kept(w) /\ Running(w) /\ xfer.n = sent
  BY <1>0, <1>1, AtWork
<1>3. First' = First /\ Waiting' = Waiting /\ Unspoilt' = Unspoilt
  BY <1>0, ClientViews
<1>4. Lines' = Append(First, Reply(Verdict(w)))
  <2>1. Line(xfer.n, IF w = "ended" THEN "2" ELSE "4", FALSE) = Reply(Verdict(w))
    BY <1>2 DEF Reply, Verdict
  <2>2. Reply(Verdict(w)) \in LineType(sent)
    BY Known DEF Reply, Verdict, Line, LineType, Classes
  <2>3. Lines' = Append(Lines, Reply(Verdict(w)))
    BY <1>0, <1>1, <2>1, <2>2, LineArrives
  <2> QED
    BY <1>2, <2>3 DEF Running
<1>5. ASSUME NEW v, v = w PROVE Over(v)' /\ Kept(v)'
  <2>1. Reply(Verdict(v))' = Reply(Verdict(w))
    BY <1>1, <1>5 DEF Reply, Verdict
  <2>2. Over(v)'
    BY <1>0, <1>3, <1>4, <1>5, <2>1 DEF Over
  <2>3. Kept(v)'
    BY <1>0, <1>1, <1>2, <1>3, <1>5 DEF Kept, Whole
  <2> QED
    BY <2>2, <2>3
<1>6. Transferring'
  <2>1. PICK v \in {"ended", "broken"} : v = w
    BY <1>0
  <2> QED
    BY <1>0, <1>2, <1>5, <2>1 DEF Transferring
<1>7. /\ UnderWay /\ at \in {"await", "read", "write"} /\ UNCHANGED client
      /\ at = "await" => Moves(Verb) \/ Verb \in {"end", "abort"}
  BY <1>0, <1>2
<1> QED
  BY <1>6, <1>7, StillTransferring

(* The invariant is inductive.                                              *)
LEMMA StepInvInit == Init => StepInv
BY DEF Init, StepInv, Clean

LEMMA StepInvStep == TypeInv /\ StepInv /\ [Next]_vars => StepInv'
<1> SUFFICES ASSUME TypeInv, StepInv, [Next]_vars PROVE StepInv'
  OBVIOUS
<1>1. CASE UNCHANGED vars
  <2>1. UNCHANGED <<at, call, todo, result, handle, response, match, buffered, data, local, sent,
                    kernel, server, xfer, wire, remote, fault>>
    BY <1>1 DEF vars, client, peer
  <2>2. Clean' = Clean /\ Lines' = Lines /\ Verb' = Verb /\ Whole' = Whole /\ Unspoilt' = Unspoilt
    BY <2>1 DEF Clean, Unanswered, Lines, Verb, Whole, Unspoilt
  <2>3. \A v, b : Reply(v)' = Reply(v) /\ Asked(v, b)' = Asked(v, b)
    BY <2>1 DEF Reply, Asked
  <2>4. Settled' = Settled /\ Prepared' = Prepared /\ Told' = Told /\ Moving' = Moving
    BY <2>1, <2>2 DEF Settled, Prepared, Told, Moving
  <2>5. Greeting => Greeting'
    BY <2>1, <2>2 DEF Greeting, Reply, Asked
  <2>9. Asking => Asking'
    BY <2>1, <2>2, <2>4 DEF Asking, Reply, Asked
  <2>6. First' = First /\ Waiting' = Waiting
    BY <2>1, <2>2, <2>3 DEF First, Waiting
  <2>7. ASSUME NEW w
        PROVE  Kept(w)' = Kept(w) /\ (Running(w) \/ Over(w))' = (Running(w) \/ Over(w))
    BY <2>1, <2>2, <2>3, <2>6 DEF Kept, Running, Over, Verdict
  <2>8. Transferring' = Transferring
    BY <2>1, <2>7 DEF Transferring
  <2> QED
    BY <2>1, <2>2, <2>3, <2>4, <2>5, <2>8, <2>9 DEF StepInv, UnderWay
<1>2. CASE Step
  BY <1>2, ConnectStep, SendStep, DialDataStep, FillStep, ReadLineStep, TimedOutStep,
     EndOfRepliesStep, ReadDataStep, WriteDataStep DEF Step
<1>3. CASE ServerStep
  BY <1>3, AnswerStep, ServeStep, BreakDataStep, FinishStep DEF ServerStep
<1>4. CASE Begin \/ OpenLocalFails \/ LoseTail
  BY <1>4, BeginStep, OpenLocalFailsStep, LoseTailStep
<1>5. CASE Stall \/ HangUp
  <2>1. ~Clean'
    BY <1>5 DEF Stall, HangUp, Clean, Unanswered
  <2> QED
    BY <2>1 DEF StepInv
<1> QED
  BY <1>1, <1>2, <1>3, <1>4, <1>5 DEF Next

LEMMA InvCorrect == Spec => [](TypeInv /\ StepInv)
<1>1. Init => TypeInv /\ StepInv
  BY InitType, StepInvInit
<1>2. TypeInv /\ StepInv /\ [Next]_vars => (TypeInv /\ StepInv)'
  BY TypeStep, StepInvStep
<1> QED
  BY <1>1, <1>2, PTL DEF Spec

(* THEOREM.  As long as the server answers in time, nothing is outstanding  *)
(* when the client sends a command or a call has returned (readresp,        *)
(* FtpClose): no transfer, and no data connection that fails, puts the      *)
(* control connection out of step.                                          *)
THEOREM StaysInStep == Spec => []InStep
<1>1. TypeInv /\ StepInv => InStep
  <2> SUFFICES ASSUME TypeInv, StepInv, handle = "open", at \in {"idle", "send"},
                      Unanswered = {}
               PROVE  buffered = <<>> /\ kernel = <<>> /\ server = <<>> /\ xfer = NoXfer
    BY DEF InStep
  <2>1. Settled
    BY DEF StepInv, Clean, UnderWay
  <2> QED
    BY <2>1, LinesEmpty DEF Settled
<1> QED
  BY <1>1, InvCorrect, PTL

(* THEOREM.  On such a connection a call that reports success has the       *)
(* server's own word for its last command, and a transfer has moved every   *)
(* block once, whatever the size of the file and the offset (FtpXfer,       *)
(* FtpClose).                                                               *)
THEOREM SuccessIsTrue == Spec => []SuccessTruthful
<1>1. StepInv => SuccessTruthful
  BY DEF StepInv, Clean, UnderWay, Told, Unspoilt, SuccessTruthful
<1> QED
  BY <1>1, InvCorrect, PTL
-----------------------------------------------------------------------------
(* Sequences                                                                *)

(* The first n members of s, and what is behind them.                       *)
LEMMA Cut ==
  ASSUME NEW s \in Seq(Nat), NEW n \in 0..Len(s)
  PROVE  LET f == SubSeq(s, 1, n)  d == SubSeq(s, n + 1, Len(s)) IN
         /\ f \in Seq(Nat) /\ Len(f) = n /\ \A i \in 1..n : f[i] = s[i]
         /\ d \in Seq(Nat) /\ Len(d) = Len(s) - n /\ \A i \in 1..(Len(s) - n) : d[i] = s[n + i]
<1> DEFINE f == SubSeq(s, 1, n)  d == SubSeq(s, n + 1, Len(s))
<1>1. Len(s) \in Nat /\ n \in Int /\ n + 1 \in Int /\ Len(s) \in Int /\ 1 \in Int /\ n <= Len(s)
  BY LenProperties
<1>2. \A i \in 1..Len(s) : s[i] \in Nat
  BY ElementOfSeq
<1>3. /\ f \in Seq(Nat) /\ Len(f) = IF 1 <= n THEN n - 1 + 1 ELSE 0
      /\ \A i \in 1..(n - 1 + 1) : f[i] = s[1 + i - 1]
  <2>1. \A i \in 1..n : s[i] \in Nat
    BY <1>1, <1>2
  <2> QED
    BY <1>1, <2>1, SubSeqProperties
<1>4. /\ d \in Seq(Nat) /\ Len(d) = IF n + 1 <= Len(s) THEN Len(s) - (n + 1) + 1 ELSE 0
      /\ \A i \in 1..(Len(s) - (n + 1) + 1) : d[i] = s[(n + 1) + i - 1]
  <2>1. \A i \in (n + 1)..Len(s) : s[i] \in Nat
    BY <1>1, <1>2
  <2> HIDE DEF d
  <2> QED
    BY <1>1, <2>1, SubSeqProperties DEF d
<1> HIDE DEF f, d
<1>5. Len(f) = n /\ \A i \in 1..n : f[i] = s[i]
  BY <1>1, <1>3
<1>6. Len(d) = Len(s) - n /\ \A i \in 1..(Len(s) - n) : d[i] = s[n + i]
  BY <1>1, <1>4
<1> QED
  BY <1>3, <1>4, <1>5, <1>6 DEF f, d

-----------------------------------------------------------------------------
(* The invariant of Sockets.  Every unit is where the stream says: what is  *)
(* in the buffer follows the frames, what is under way that, and            *)
(* what is unsent follows that.  It needs the buffer to be empty between    *)
(* two calls of LoopRead, which holds as long as none was left with units.  *)

(* The units of s are those of the stream that follow its first b.          *)
From(s, b) == \A i \in 1..Len(s) : s[i] = b + i

Base == 2 * Len(handed)
InPlace == From(rbuf, Base) /\ From(net, Base + Len(rbuf)) /\ From(unsent, Base + Len(rbuf) + Len(net))
Quiet == reader \in {"accept", "idle", "left"} => rbuf = <<>>
InOrder == \A i \in DOMAIN handed : handed[i] = Message(i)

(* No unit was lost, and none is another connection's.                      *)
Ours == ~dropped /\ theirs = 0

SocketsInv == SocketsTypeOK /\ (Ours => Quiet /\ InPlace /\ InOrder)

(* Taking the first units of a sequence that is in place.                   *)
LEMMA FromCut ==
  ASSUME NEW s \in Seq(Nat), NEW b \in Nat, NEW n \in 0..Len(s), From(s, b)
  PROVE  /\ From(SubSeq(s, 1, n), b) /\ From(SubSeq(s, n + 1, Len(s)), b + n)
         /\ \A i \in 1..n : SubSeq(s, 1, n)[i] = b + i
<1> DEFINE f == SubSeq(s, 1, n)  d == SubSeq(s, n + 1, Len(s))
<1>1. /\ Len(f) = n /\ \A i \in 1..n : f[i] = s[i]
      /\ Len(d) = Len(s) - n /\ \A i \in 1..(Len(s) - n) : d[i] = s[n + i]
  BY Cut
<1>2. Len(s) \in Nat /\ n \in Nat /\ n <= Len(s)
  BY LenProperties
<1> HIDE DEF f, d
<1>3. \A i \in 1..n : i \in 1..Len(s) /\ s[i] = b + i
  BY <1>2 DEF From
<1>4. \A i \in 1..(Len(s) - n) : s[n + i] = b + n + i
  <2>1. \A i \in 1..(Len(s) - n) : n + i \in 1..Len(s) /\ b + (n + i) = b + n + i
    BY <1>2
  <2> QED
    BY <2>1 DEF From
<1> QED
  BY <1>1, <1>2, <1>3, <1>4 DEF From, f, d

(* Appending the units that follow.                                         *)
LEMMA FromAppend ==
  ASSUME NEW s \in Seq(Nat), NEW t \in Seq(Nat), NEW b \in Nat, From(s, b), From(t, b + Len(s))
  PROVE  From(s \o t, b)
<1>1. /\ Len(s) \in Nat /\ Len(t) \in Nat /\ Len(s \o t) = Len(s) + Len(t)
      /\ \A i \in 1..(Len(s) + Len(t)) : (s \o t)[i] = IF i <= Len(s) THEN s[i] ELSE t[i - Len(s)]
  BY LenProperties, ConcatProperties
<1>2. SUFFICES ASSUME NEW i \in 1..Len(s \o t) PROVE (s \o t)[i] = b + i
  BY DEF From
<1>3. CASE i <= Len(s)
  BY <1>1, <1>2, <1>3 DEF From
<1>4. CASE ~(i <= Len(s))
  <2>1. i - Len(s) \in 1..Len(t) /\ (b + Len(s)) + (i - Len(s)) = b + i
    BY <1>1, <1>2, <1>4
  <2>2. t[i - Len(s)] = (b + Len(s)) + (i - Len(s))
    BY <2>1 DEF From
  <2> QED
    BY <1>1, <1>2, <1>4, <2>1, <2>2
<1> QED
  BY <1>3, <1>4

-----------------------------------------------------------------------------
(* The steps.  Those that move no unit are alike.                           *)

Still == UNCHANGED <<unsent, net, rbuf, handed>>

LEMMA Stays_InPlace ==
  SocketsInv /\ Still /\ (Ours' => Ours) /\ (reader' \in {"accept", "idle", "left"} =>
     reader \in {"accept", "idle", "left"} \/ rbuf = <<>>)
  => (Ours' => (Quiet /\ InPlace /\ InOrder)')
BY DEF SocketsInv, Still, Quiet, InPlace, InOrder, Base, From

LEMMA SocketsStarts == SocketsInit => SocketsInv
<1> SUFFICES ASSUME SocketsInit PROVE SocketsInv
  OBVIOUS
<1>1. <<>> \in Seq(Nat) /\ <<>> \in Seq(Seq(Nat)) /\ Len(<<>>) = 0 /\ DOMAIN <<>> = {}
  BY EmptySeq
<1>2. unsent \in Seq(Nat) /\ \A i \in 1..Len(unsent) : unsent[i] = i
  <2>1. 2 * Messages \in Nat /\ \A i \in 1..(2 * Messages) : i \in Nat
    BY SocketsAssumption
  <2>2. unsent = [i \in 1..(2 * Messages) |-> i]
    BY DEF SocketsInit, Stream
  <2> QED
    BY <2>1, <2>2
<1>3. SocketsTypeOK
  <2>1. 0 \in 0..MaxReads /\ 0 \in 0..MaxDials /\ 0 <= Window /\ 0 \in 0..MaxTheirs
    BY SocketsAssumption
  <2> QED
    <3>1. unsent \in Seq(Nat) /\ net \in Seq(Nat) /\ rbuf \in Seq(Nat) /\ handed \in Seq(Seq(Nat))
      BY <1>1, <1>2 DEF SocketsInit
    <3>2. Len(net) <= Window
      BY <1>1, <2>1 DEF SocketsInit
    <3>3. /\ dialer \in [sock : {"none", "open", "closed"}, connected : BOOLEAN]
          /\ conn \in [sock : {"none", "open"}, connected : BOOLEAN]
      BY DEF SocketsInit
    <3>4. /\ listener = "new" /\ backlog = 0 /\ dials = 0 /\ reads = 0 /\ number = "free"
          /\ reader = "accept" /\ closer = "start" /\ error = NoError
          /\ ended = FALSE /\ timed = FALSE /\ dropped = FALSE /\ crossed = FALSE /\ theirs = 0
      BY DEF SocketsInit
    <3>5. dials \in 0..MaxDials /\ reads \in 0..MaxReads /\ backlog \in 0..1 /\ theirs \in 0..MaxTheirs
      BY <2>1, <3>4
    <3>6. /\ listener \in {"new", "listening", "closed"} /\ number \in {"free", "mine", "other"}
          /\ reader \in {"accept", "idle", "check", "wait", "recv", "blocked", "handle", "left"}
          /\ closer \in {"start", "close", "forget", "mark", "done"} /\ error \in Errors \cup {NoError}
          /\ ended \in BOOLEAN /\ timed \in BOOLEAN /\ dropped \in BOOLEAN /\ crossed \in BOOLEAN
      BY <3>4, Zenon
    <3> QED
      BY <3>1, <3>2, <3>3, <3>5, <3>6, Zenon DEF SocketsTypeOK
<1>4. Quiet /\ InPlace /\ InOrder
  <2>1. rbuf = <<>> /\ net = <<>> /\ handed = <<>>
    BY DEF SocketsInit
  <2>2. Base = 0 /\ Base + Len(rbuf) = 0 /\ Base + Len(rbuf) + Len(net) = 0
    BY <1>1, <2>1 DEF Base
  <2>3. \A i \in 1..Len(unsent) : unsent[i] = 0 + i
    BY <1>2, LenProperties
  <2> QED
    BY <1>1, <2>1, <2>2, <2>3 DEF Quiet, InPlace, InOrder, From
<1> QED
  BY <1>3, <1>4 DEF SocketsInv

(* A type that no step of the connection's threads disturbs.                *)
LEMMA SocketsTypeKept == SocketsTypeOK /\ [SocketsNext]_socketsVars => SocketsTypeOK'
<1> SUFFICES ASSUME SocketsTypeOK, [SocketsNext]_socketsVars PROVE SocketsTypeOK'
  OBVIOUS
<1> USE DEF SocketsTypeOK, peers, history
<1>1. ASSUME NEW e \in Errors, Leaves(e) PROVE SocketsTypeOK'
  <2>1. reader' \in {"idle", "left"} /\ error' = e /\ dropped' \in BOOLEAN
    BY <1>1 DEF Leaves
  <2> QED
    BY <1>1, <2>1 DEF Leaves
<1>s. ASSUME Stays, crossed' \in BOOLEAN, reader' \in {"wait", "recv", "blocked"} PROVE SocketsTypeOK'
  BY <1>s DEF Stays
<1>e. /\ "ENotConnected" \in Errors /\ "ETimedOut" \in Errors /\ "EConnectionClosed" \in Errors
      /\ TranslateError("EBADF") \in Errors
  BY DEF Errors, TranslateError
<1>2. CASE Listen
  BY <1>2 DEF Listen
<1>3. CASE Dial
  <2>1. dials' \in 0..MaxDials
    BY <1>3, SocketsAssumption DEF Dial
  <2>2. /\ dialer' \in [sock : {"none", "open", "closed"}, connected : BOOLEAN]
        /\ backlog' \in 0..1
    <3>1. [sock |-> "open", connected |-> TRUE] \in [sock : {"none", "open", "closed"}, connected : BOOLEAN]
      OBVIOUS
    <3>2. [dialer EXCEPT !.sock = "open"] \in [sock : {"none", "open", "closed"}, connected : BOOLEAN]
      OBVIOUS
    <3>3. \/ dialer' = [sock |-> "open", connected |-> TRUE] /\ backlog' = 1
          \/ dialer' = [dialer EXCEPT !.sock = "open"] /\ backlog' = backlog
      <4> HIDE DEF SocketsTypeOK
      <4> QED
        BY <1>3 DEF Dial
    <3>4. backlog' = 1 \/ backlog' = backlog
      BY <3>3
    <3>5. dialer' \in [sock : {"none", "open", "closed"}, connected : BOOLEAN]
      <4> HIDE DEF SocketsTypeOK
      <4> QED
        BY <3>1, <3>2, <3>3, Zenon
    <3> QED
      BY <3>4, <3>5
  <2> QED
    BY <1>3, <2>1, <2>2 DEF Dial
<1>4. CASE Write
  <2>1. PICK n \in 1..Len(unsent) :
          /\ Len(net) + n <= Window
          /\ net' = net \o SubSeq(unsent, 1, n) /\ unsent' = SubSeq(unsent, n + 1, Len(unsent))
    BY <1>4 DEF Write
  <2>2. n \in 0..Len(unsent)
    BY <2>1, LenProperties
  <2>3. /\ SubSeq(unsent, 1, n) \in Seq(Nat) /\ Len(SubSeq(unsent, 1, n)) = n
        /\ unsent' \in Seq(Nat)
    BY <2>1, <2>2, Cut
  <2>4. net' \in Seq(Nat) /\ Len(net') = Len(net) + n
    BY <2>1, <2>3, ConcatProperties
  <2> QED
    BY <1>4, <2>1, <2>3, <2>4 DEF Write
<1>5. CASE ClientCloses
  BY <1>5 DEF ClientCloses
<1>6. CASE ServerCloses
  BY <1>6 DEF ServerCloses
<1>7. CASE Accept
  BY <1>7 DEF Accept
<1>8. CASE LoopRead
  BY <1>8, SocketsAssumption, EmptySeq DEF LoopRead
<1>9. CASE CheckConnected
  BY <1>1, <1>s, <1>e, <1>9 DEF CheckConnected
<1>10. CASE Select
  BY <1>1, <1>s, <1>e, <1>10 DEF Select
<1>11. CASE Recv
  BY <1>1, <1>s, <1>e, <1>11 DEF Recv
<1>12. CASE Received
  <2>1. CASE net = <<>> /\ ended /\ Leaves("EConnectionClosed")
    BY <1>1, <1>e, <2>1
  <2>2. ASSUME NEW n \in 1..Len(net), rbuf' = rbuf \o SubSeq(net, 1, n),
               net' = SubSeq(net, n + 1, Len(net)), reader' = "handle",
               UNCHANGED <<peers, ended, conn, number, error, closer, handed, history>>
        PROVE  SocketsTypeOK'
    <3>1. n \in 0..Len(net) /\ Len(net) \in Nat
      BY <2>2, LenProperties
    <3>2. /\ SubSeq(net, 1, n) \in Seq(Nat) /\ net' \in Seq(Nat) /\ Len(net') = Len(net) - n
      BY <2>2, <3>1, Cut
    <3>3. rbuf' \in Seq(Nat)
      BY <2>2, <3>2, ConcatProperties
    <3>4. Len(net') <= Window
      BY <3>1, <3>2, SocketsAssumption
    <3>5. reader' \in {"accept", "idle", "check", "wait", "recv", "blocked", "handle", "left"}
      BY <2>2
    <3>6. UNCHANGED <<listener, backlog, dialer, dials, unsent, ended, conn, number, error, closer,
                      handed, timed, reads, dropped, crossed, theirs>>
      BY <2>2
    <3> QED
      BY <3>2, <3>3, <3>4, <3>5, <3>6
  <2> QED
    BY <1>12, <2>1, <2>2 DEF Received
<1>t. CASE ReceivedTheirs
  <2>1. CASE Leaves("EConnectionClosed")
    BY <1>1, <1>e, <2>1
  <2>2. ASSUME NEW n \in 1..(MaxTheirs - theirs), rbuf' = rbuf \o Foreign(n), theirs' = theirs + n,
               reader' = "handle",
               UNCHANGED <<peers, net, ended, conn, number, error, closer, handed, timed, reads,
                           dropped, crossed>>
        PROVE  SocketsTypeOK'
    <3>1. Foreign(n) \in Seq(Nat)
      BY DEF Foreign
    <3>2. rbuf' \in Seq(Nat)
      BY <2>2, <3>1, ConcatProperties
    <3>3. theirs' \in 0..MaxTheirs
      BY <2>2, SocketsAssumption
    <3>4. reader' \in {"accept", "idle", "check", "wait", "recv", "blocked", "handle", "left"}
      BY <2>2
    <3>5. UNCHANGED <<listener, backlog, dialer, dials, unsent, net, ended, conn, number, error,
                      closer, handed, timed, reads, dropped, crossed>>
      BY <2>2
    <3> QED
      BY <3>2, <3>3, <3>4, <3>5
  <2> QED
    BY <1>t, <2>1, <2>2 DEF ReceivedTheirs
<1>13. CASE Handle
  <2>1. ASSUME Len(rbuf) >= 2, handed' = Append(handed, SubSeq(rbuf, 1, 2)),
               rbuf' = SubSeq(rbuf, 2 + 1, Len(rbuf)), UNCHANGED reader
        PROVE  rbuf' \in Seq(Nat) /\ handed' \in Seq(Seq(Nat)) /\ reader' = reader
    <3>1. 2 \in 0..Len(rbuf)
      BY <2>1, LenProperties
    <3>2. SubSeq(rbuf, 1, 2) \in Seq(Nat) /\ rbuf' \in Seq(Nat)
      BY <2>1, <3>1, Cut
    <3> QED
      BY <2>1, <3>2, AppendProperties
  <2>2. rbuf' \in Seq(Nat) /\ handed' \in Seq(Seq(Nat)) /\ reader' \in {reader, "check"}
    BY <1>13, <2>1 DEF Handle, Takes
  <2> QED
    BY <1>13, <2>2 DEF Handle
<1>14. CASE Shutdown
  BY <1>14 DEF Shutdown, EndsStream
<1>15. CASE CloseNumber \/ ForgetNumber \/ MarkClosed \/ OtherOpens
  <2>1. CASE CloseNumber \/ OtherOpens
    BY <2>1 DEF CloseNumber, OtherOpens
  <2>2. /\ [conn EXCEPT !.sock = "none"] \in [sock : {"none", "open"}, connected : BOOLEAN]
        /\ [conn EXCEPT !.connected = FALSE] \in [sock : {"none", "open"}, connected : BOOLEAN]
    OBVIOUS
  <2>3. CASE ForgetNumber
    BY <2>2, <2>3 DEF ForgetNumber
  <2>4. CASE MarkClosed
    BY <2>2, <2>4 DEF MarkClosed
  <2> QED
    BY <1>15, <2>1, <2>3, <2>4
<1>16. CASE UNCHANGED socketsVars
  BY <1>16 DEF socketsVars
<1> QED
  BY <1>2, <1>3, <1>4, <1>5, <1>6, <1>7, <1>8, <1>9, <1>10, <1>11, <1>12, <1>13, <1>14,
     <1>15, <1>16, <1>t DEF SocketsNext, Reader, Closer

(* Every step keeps the units in place.                                     *)
LEMMA SocketsKeeps == SocketsInv /\ [SocketsNext]_socketsVars => SocketsInv'
<1> SUFFICES ASSUME SocketsInv, [SocketsNext]_socketsVars PROVE SocketsInv'
  OBVIOUS
<1>1. SocketsTypeOK /\ SocketsTypeOK'
  BY SocketsTypeKept DEF SocketsInv
<1>2. SUFFICES ASSUME Ours' PROVE (Quiet /\ InPlace /\ InOrder)'
  BY <1>1 DEF SocketsInv
<1>3. unsent \in Seq(Nat) /\ net \in Seq(Nat) /\ rbuf \in Seq(Nat) /\ handed \in Seq(Seq(Nat))
  BY <1>1 DEF SocketsTypeOK
<1>4. Len(rbuf) \in Nat /\ Len(net) \in Nat /\ Len(unsent) \in Nat /\ Len(handed) \in Nat /\ Base \in Nat
  BY <1>3, LenProperties DEF Base
<1>5. ASSUME dropped' = dropped, theirs' = theirs PROVE Quiet /\ InPlace /\ InOrder
  BY <1>2, <1>5 DEF SocketsInv, Ours
<1>6. ASSUME NEW e, Leaves(e) PROVE (Quiet /\ InPlace /\ InOrder)'
  <2>1. Ours /\ rbuf = <<>>
    BY <1>2, <1>6 DEF Leaves, Ours
  <2>2. Still
    BY <1>6 DEF Leaves, Still, peers
  <2> QED
    BY <1>2, <2>1, <2>2, Stays_InPlace
<1>7. ASSUME Still, dropped' = dropped, theirs' = theirs, reader' = reader \/ reader' \notin {"accept", "idle", "left"}
      PROVE  (Quiet /\ InPlace /\ InOrder)'
  BY <1>2, <1>7, Stays_InPlace DEF Ours
<1>8. CASE Write
  <2>1. PICK n \in 1..Len(unsent) :
          net' = net \o SubSeq(unsent, 1, n) /\ unsent' = SubSeq(unsent, n + 1, Len(unsent))
    BY <1>8 DEF Write
  <2>2. UNCHANGED <<rbuf, handed, reader, dropped, theirs>>
    BY <1>8 DEF Write, history
  <2>3. n \in 0..Len(unsent) /\ n \in Nat
    BY <1>4, <2>1
  <2>4. Quiet /\ InPlace /\ InOrder
    BY <1>5, <2>2
  <2> DEFINE b == Base + Len(rbuf)  f == SubSeq(unsent, 1, n)
  <2>5. b \in Nat /\ b + Len(net) \in Nat /\ From(net, b) /\ From(unsent, b + Len(net))
    BY <1>4, <2>4 DEF InPlace
  <2>6. /\ From(f, b + Len(net)) /\ From(unsent', (b + Len(net)) + n)
        /\ f \in Seq(Nat) /\ Len(f) = n
    BY <1>3, <2>1, <2>3, <2>5, FromCut, Cut
  <2> HIDE DEF b, f
  <2>7. From(net \o f, b) /\ Len(net \o f) = Len(net) + n
    BY <1>3, <2>5, <2>6, FromAppend, ConcatProperties
  <2>8. net' = net \o f /\ (b + Len(net)) + n = b + (Len(net) + n)
    BY <1>4, <2>1, <2>3, <2>5 DEF f
  <2>9. From(net', b) /\ From(unsent', b + Len(net'))
    BY <2>6, <2>7, <2>8
  <2>10. Base' = Base /\ b = Base' + Len(rbuf')
    BY <2>2 DEF Base, b
  <2> QED
    BY <2>2, <2>4, <2>9, <2>10 DEF Quiet, InPlace, InOrder, From, Base
<1>9. CASE LoopRead
  <2>1. Quiet /\ InPlace /\ InOrder
    BY <1>5, <1>9 DEF LoopRead
  <2>2. rbuf = <<>> /\ rbuf' = <<>> /\ dropped' = dropped /\ UNCHANGED <<unsent, net, handed, theirs>>
    BY <1>9, <2>1 DEF LoopRead, Quiet, peers
  <2> QED
    BY <1>2, <2>2, Stays_InPlace DEF Still, Ours
<1>10. CASE Received
  <2>1. ASSUME NEW n \in 1..Len(net), rbuf' = rbuf \o SubSeq(net, 1, n),
               net' = SubSeq(net, n + 1, Len(net)), reader' = "handle",
               UNCHANGED <<peers, ended, conn, number, error, closer, handed, history>>
        PROVE  (Quiet /\ InPlace /\ InOrder)'
    <3>1. UNCHANGED <<unsent, handed, dropped, theirs>>
      BY <2>1 DEF peers, history
    <3>2. Quiet /\ InPlace /\ InOrder
      BY <1>5, <3>1
    <3>3. n \in 0..Len(net) /\ n \in Nat
      BY <1>4, <2>1
    <3> DEFINE f == SubSeq(net, 1, n)
    <3>4. Base + Len(rbuf) \in Nat
      BY <1>4
    <3>5. /\ From(f, Base + Len(rbuf)) /\ From(net', (Base + Len(rbuf)) + n)
          /\ f \in Seq(Nat) /\ Len(f) = n /\ Len(net') = Len(net) - n
      BY <1>3, <2>1, <3>2, <3>3, <3>4, FromCut, Cut DEF InPlace
    <3> HIDE DEF f
    <3>6. From(rbuf \o f, Base) /\ Len(rbuf \o f) = Len(rbuf) + n
      BY <1>3, <1>4, <3>2, <3>5, FromAppend, ConcatProperties DEF InPlace
    <3>7. rbuf' = rbuf \o f
      BY <2>1 DEF f
    <3>8. /\ (Base + Len(rbuf)) + n = Base + Len(rbuf')
          /\ Base + Len(rbuf) + Len(net) = Base + Len(rbuf') + Len(net')
      <4>1. Len(rbuf') = Len(rbuf) + n /\ Len(net') = Len(net) - n
        BY <3>5, <3>6, <3>7
      <4> QED
        BY <1>4, <3>3, <4>1
    <3>9. Base' = Base
      BY <3>1 DEF Base
    <3> QED
      <4>1. From(rbuf', Base') /\ From(net', Base' + Len(rbuf'))
        BY <3>5, <3>6, <3>7, <3>8, <3>9
      <4>2. From(unsent', Base' + Len(rbuf') + Len(net'))
        BY <3>1, <3>2, <3>8, <3>9 DEF InPlace
      <4>3. InPlace'
        BY <4>1, <4>2 DEF InPlace, From
      <4> QED
        BY <2>1, <3>1, <3>2, <4>3 DEF Quiet, InOrder
  <2> QED
    BY <1>6, <1>10, <2>1 DEF Received
<1>11. CASE Handle
  <2>1. UNCHANGED <<unsent, net, dropped, theirs>> /\ reader = "handle" /\ reader' \in {"handle", "check"}
    BY <1>11 DEF Handle, peers, history
  <2>2. Quiet /\ InPlace /\ InOrder
    BY <1>5, <2>1
  <2>3. CASE UNCHANGED <<rbuf, handed>>
    BY <1>7, <2>1, <2>3 DEF Still
  <2>4. CASE /\ Len(rbuf) >= 2 /\ handed' = Append(handed, SubSeq(rbuf, 1, 2))
             /\ rbuf' = SubSeq(rbuf, 2 + 1, Len(rbuf))
    <3> DEFINE m == SubSeq(rbuf, 1, 2)
    <3>1. 2 \in 0..Len(rbuf) /\ 2 \in Nat
      BY <1>4, <2>4
    <3>2. /\ m \in Seq(Nat) /\ Len(m) = 2 /\ \A i \in 1..2 : m[i] = Base + i
          /\ From(rbuf', Base + 2) /\ Len(rbuf') = Len(rbuf) - 2
      BY <1>3, <1>4, <2>2, <2>4, <3>1, FromCut, Cut DEF InPlace
    <3> HIDE DEF m
    <3>3. /\ Len(handed') = Len(handed) + 1
          /\ \A i \in 1..Len(handed) : handed'[i] = handed[i]
          /\ handed'[Len(handed) + 1] = m /\ handed' \in Seq(Seq(Nat))
      <4>1. handed' = Append(handed, m)
        BY <2>4 DEF m
      <4>2. handed \in Seq(Seq(Nat)) /\ m \in Seq(Nat)
        BY <1>3, <3>2
      <4> QED
        BY <4>1, <4>2, AppendProperties
    <3>4. Base' = Base + 2
      BY <1>4, <3>3 DEF Base
    <3>5. m = Message(Len(handed) + 1)
      <4>1. m[1] = 2 * (Len(handed) + 1) - 1 /\ m[2] = 2 * (Len(handed) + 1)
        BY <1>4, <3>2 DEF Base
      <4>2. m = <<m[1], m[2]>>
        BY <3>2
      <4> QED
        BY <4>1, <4>2 DEF Message
    <3>6. InOrder'
      <4>1. DOMAIN handed' = 1..(Len(handed) + 1) /\ DOMAIN handed = 1..Len(handed)
        BY <1>3, <3>3, LenProperties
      <4>2. \A i \in 1..(Len(handed) + 1) : i \in 1..Len(handed) \/ i = Len(handed) + 1
        BY <1>4
      <4> QED
        BY <2>2, <3>3, <3>5, <4>1, <4>2 DEF InOrder, Message
    <3>7. /\ Base' + Len(rbuf') = Base + Len(rbuf)
          /\ Base' + Len(rbuf') + Len(net') = Base + Len(rbuf) + Len(net)
      BY <1>4, <2>1, <3>2, <3>4
    <3>8. InPlace'
      BY <2>1, <2>2, <3>2, <3>4, <3>7 DEF InPlace, From
    <3> QED
      BY <2>1, <3>6, <3>8 DEF Quiet
  <2> QED
    BY <1>11, <2>3, <2>4 DEF Handle, Takes
<1>12. CASE Listen \/ Dial \/ ClientCloses \/ ServerCloses
  BY <1>7, <1>12 DEF Listen, Dial, ClientCloses, ServerCloses, Still, peers, history
<1>13. CASE Accept
  <2>1. Still /\ dropped' = dropped /\ theirs' = theirs /\ reader = "accept"
    BY <1>13 DEF Accept, Still, history
  <2> QED
    BY <1>2, <2>1, Stays_InPlace DEF Ours
<1>14. CASE CheckConnected
  BY <1>6, <1>7, <1>14 DEF CheckConnected, Stays, Still, peers
<1>15. CASE Select
  BY <1>6, <1>7, <1>15 DEF Select, Stays, Still, peers
<1>16. CASE Recv
  BY <1>6, <1>7, <1>16 DEF Recv, Stays, Still, peers
<1>17. CASE Shutdown \/ CloseNumber \/ ForgetNumber \/ MarkClosed \/ OtherOpens
  BY <1>7, <1>17 DEF Shutdown, CloseNumber, ForgetNumber, MarkClosed, OtherOpens, Still, peers, history
<1>t. CASE ReceivedTheirs
  <2>1. ASSUME NEW n \in 1..(MaxTheirs - theirs), theirs' = theirs + n PROVE FALSE
    <3>1. theirs \in Nat /\ theirs' = 0
      BY <1>1, <1>2, SocketsAssumption DEF SocketsTypeOK, Ours
    <3> QED
      BY <2>1, <3>1, SocketsAssumption
  <2> QED
    BY <1>6, <1>t, <2>1 DEF ReceivedTheirs
<1>18. CASE UNCHANGED socketsVars
  BY <1>7, <1>18 DEF socketsVars, Still, peers, history
<1> QED
  BY <1>8, <1>9, <1>10, <1>11, <1>12, <1>13, <1>14, <1>15, <1>16, <1>17, <1>18, <1>t
  DEF SocketsNext, Reader, Closer

(* THEOREM.  The state of both ends and of the reader's and the closer's    *)
(* calls is of its type.                                                    *)
THEOREM SocketsTypeCorrect == SocketsSpec => []SocketsTypeOK
BY SocketsStarts, SocketsKeeps, PTL DEF SocketsSpec, SocketsInv

(* THEOREM.  For a stream of any length, any window, and reads and writes   *)
(* that cut it anywhere, the handler of LoopRead is given the messages      *)
(* whole, in order and without a gap, at whichever step another thread      *)
(* closes the connection - until LoopRead is left with units in its buffer, *)
(* or a recv takes the bytes of another connection, to which the number was *)
(* given between the close and the recv.                                    *)
THEOREM FramesInOrder == SocketsSpec => []MessagesInOrder
<1>1. SocketsInv => MessagesInOrder
  BY DEF SocketsInv, InOrder, MessagesInOrder, Ours
<1> QED
  BY <1>1, SocketsStarts, SocketsKeeps, PTL DEF SocketsSpec

=============================================================================
