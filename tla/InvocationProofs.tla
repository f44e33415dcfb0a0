--------------------------- MODULE InvocationProofs ---------------------------
(***************************************************************************)
(* What BackendInvocation promises of any outputs, limits, capacities and  *)
(* children: a success was delivered (IInv); the two ends of an exchange   *)
(* agree, and one that nothing disturbs ends in its program's own answer   *)
(* (ExchangeInv, which is added to IInv).                                  *)
(***************************************************************************)
EXTENDS BackendInvocation, FiniteSums

-----------------------------------------------------------------------------
(* The frames and the programs                                             *)

Writes(F) == {Write(f) : f \in F}

\* What a program writes besides a manifest.
Headers(c) == {ChunkFrame(Request, p, 0, TRUE, Len(c)) : p \in Paths}
PlainFrames ==
  {Capabilities(TRUE), Capabilities(FALSE), ErrorFrame(Request), ErrorFrame(NoRequest),
   CancelledFrame(Request), UnknownFrame(FALSE, FALSE)}
    \cup (UNION {Headers(c) : c \in Payloads})
    \cup {BytesFrame(c) : c \in Payloads}

\* What a program p may have on the wire, and what its manifests can stand for.
Emitted(p) == {CutFrame} \cup {p[j].frame : j \in {k \in DOMAIN p : p[k].op = "write"}}
Outputs(p) ==
  {[requestId |-> Request, artifacts |-> ArtifactsOf(s)] :
     s \in {x \in SourceSets : p = Rendering(x)}}

\* What the invoker sends, and in which order if it does not cancel.
CoreFrames == {Control("Hello"), EmitFrame(Request), ProjectionFrame(TRUE),
               CancelFrame(Request), Control("Goodbye")}
Script == <<Control("Hello"), EmitFrame(Request), ProjectionFrame(TRUE), Control("Goodbye")>>

\* The shape of a program that renders: it reads the fourth frame last.
Renders(p) ==
  /\ Len(p) \in Nat /\ Len(p) >= 6
  /\ \A j \in 1 .. Len(p) :
       (p[j].op = "read") <=> (j \in {1, 3, 4, Len(p)})

\* How many frames such a program of length n has read when its next operation
\* is the a-th.
Reads(a, n) == IF a = 1 THEN 0 ELSE IF a <= 3 THEN 1 ELSE IF a = 4 THEN 2
               ELSE IF a <= n THEN 3 ELSE 4

\* How many frames of the script the invoker has sent when it is at c.
SentBy(c, n) ==
  /\ c \in {"launch", "hello"} => n = 0
  /\ c \in {"handshake", "emit"} => n = 1
  /\ c = "projection" => n = 2
  /\ c \in {"collect", "cancel", "cancelling", "goodbye"} => n = 3

-----------------------------------------------------------------------------
(* The inductive invariant                                                 *)

Pendings == {"none", "skipped", "projection", "artifact"}
IsSession(s) == DOMAIN s = DOMAIN NewSession /\ s.pending \in Pendings

WiresOK ==
  /\ program \in Programs /\ at \in Nat \ {0} /\ cancels \in Nat
  /\ IsSession(session) /\ IsSession(peer)
  /\ session.completed \in Seq(Outputs(program))
  /\ peer.completed \in Seq(Outputs(program))
  /\ toCore \in Seq(Emitted(program))
  /\ toPeer \in Seq(CoreFrames)

\* The invoker: when it may have cancelled, and what a success rests on.
ReportOK ==
  /\ cancels # 0 => pc \in {"cancelling", "goodbye", "exit", "eof", "done"}
  /\ report = "success" => /\ pc \in {"goodbye", "exit", "done"}
                           /\ cancels = 0
                           /\ emission \in Seq(Outputs(program)) /\ emission # << >>
  /\ outcome = "success" => pc = "done" /\ report = "success" /\ clean
  /\ pc = "done" => child = "gone"

\* The frames under way to the child are the next ones of the script.
Scripted(c, a, n, q) ==
  \E sent \in 0 .. 4 :
    /\ SentBy(c, sent)
    /\ Reads(a, n) + Len(q) = sent
    /\ \A i \in 1 .. Len(q) : q[i] = Script[Reads(a, n) + i]

\* The child: it exits cleanly at the end of its program, with a session that
\* has not failed; one that renders has then read the Goodbye, unless the
\* invoker cancelled.
ChildOK ==
  /\ pc = "launch" => child = "absent"
  /\ child \in {"absent", "running"} \/ clean => peer.state # "Failed"
  /\ clean => at > Len(program)
  /\ cancels = 0 /\ Renders(program) /\ peer.state # "Failed" =>
       /\ at <= Len(program) + 1
       /\ Scripted(pc, at, Len(program), toPeer)
       /\ at > Len(program) => peer.state = "Closed"

IInv == WiresOK /\ ReportOK /\ ChildOK

-----------------------------------------------------------------------------
(* What programs write                                                     *)

FrameTypes == {"Hello", "Capabilities", "Emit", "ArtifactChunk", "Manifest", "Cancel",
               "Cancelled", "Error", "Goodbye", "ProjectionBytes", "ArtifactBytes",
               "Unknown", "Invalid"}

\* The frames besides the manifests are of the other types.
LEMMA PlainTypes ==
  \A f \in PlainFrames \cup Garbage \cup CoreFrames : f.type \in FrameTypes \ {"Manifest"}
<1> USE DEF FrameTypes
<1>1. \A f \in {Capabilities(TRUE), Capabilities(FALSE), ErrorFrame(Request),
                ErrorFrame(NoRequest), CancelledFrame(Request), UnknownFrame(FALSE, FALSE)} :
        f.type \in FrameTypes \ {"Manifest"}
  BY DEF Capabilities, ErrorFrame, CancelledFrame, UnknownFrame, About
<1>2. /\ \A c : \A f \in Headers(c) : f.type \in FrameTypes \ {"Manifest"}
      /\ \A c : BytesFrame(c).type \in FrameTypes \ {"Manifest"}
  BY DEF Headers, ChunkFrame, BytesFrame
<1>3. \A f \in Garbage \cup CoreFrames : f.type \in FrameTypes \ {"Manifest"}
  BY DEF Garbage, CoreFrames, InvalidFrame, UnknownFrame, CancelledFrame, About, Control,
     EmitFrame, ProjectionFrame, CancelFrame
<1> HIDE DEF FrameTypes
<1> QED BY <1>1, <1>2, <1>3 DEF PlainFrames

\* Short sequences over B, and their concatenations.
LEMMA Sequences ==
  ASSUME NEW B
  PROVE  /\ \A x \in B : <<x>> \in Seq(B)
         /\ \A x, y \in B : <<x, y>> \in Seq(B)
         /\ \A x, y, z \in B : <<x, y, z>> \in Seq(B)
         /\ \A a, b \in Seq(B) : a \o b \in Seq(B)
OBVIOUS

PlainOps == {Read} \cup Writes(PlainFrames)
Manifest(s) == Write(ManifestFrame(Request, ArtifactsOf(s)))

\* What a package's main() does before it renders is plain.
LEMMA OpeningIsPlain ==
  ASSUME NEW b \in BOOLEAN
  PROVE  /\ Opening(b) \in Seq(PlainOps) /\ Len(Opening(b)) = 4
         /\ Tail(Opening(b)) \in Seq(PlainOps)
<1>1. Read \in PlainOps /\ Write(Capabilities(b)) \in PlainOps
  BY DEF PlainOps, Writes, PlainFrames
<1> QED BY <1>1 DEF Opening

\* A child that renders nothing writes plain frames.
LEMMA OthersArePlain ==
  \A p \in {Refusing, Mismatched} \cup Sessionless : p \in Seq(PlainOps)
<1>1. /\ Read \in PlainOps /\ Write(ErrorFrame(Request)) \in PlainOps
      /\ Write(ErrorFrame(NoRequest)) \in PlainOps
      /\ Write(CancelledFrame(Request)) \in PlainOps
      /\ Write(UnknownFrame(FALSE, FALSE)) \in PlainOps
  BY DEF PlainOps, Writes, PlainFrames
<1>2. /\ Opening(TRUE) \in Seq(PlainOps) /\ Opening(FALSE) \in Seq(PlainOps)
      /\ Tail(Opening(TRUE)) \in Seq(PlainOps)
  <2>1. TRUE \in BOOLEAN /\ FALSE \in BOOLEAN
    OBVIOUS
  <2> QED BY <2>1, OpeningIsPlain, Zenon
<1>3. /\ <<Write(ErrorFrame(Request)), Read>> \in Seq(PlainOps)
      /\ <<Read>> \in Seq(PlainOps)
      /\ <<Read, Write(CancelledFrame(Request)), Read>> \in Seq(PlainOps)
      /\ <<Read, Write(UnknownFrame(FALSE, FALSE))>> \in Seq(PlainOps)
      /\ <<Read, Write(ErrorFrame(NoRequest))>> \in Seq(PlainOps)
  BY <1>1, Sequences
<1>4. /\ Opening(TRUE) \o <<Write(ErrorFrame(Request)), Read>> \in Seq(PlainOps)
      /\ Opening(FALSE) \o <<Read>> \in Seq(PlainOps)
      /\ Opening(TRUE) \o <<Read, Write(CancelledFrame(Request)), Read>> \in Seq(PlainOps)
      /\ <<Read, Write(UnknownFrame(FALSE, FALSE))>> \o Tail(Opening(TRUE)) \in Seq(PlainOps)
  BY <1>2, <1>3, Sequences
<1> QED BY <1>3, <1>4 DEF Sessionless, Refusing, Mismatched, Cancellable, Declining, Chatty

\* The operations that send one file.
FileOps(x) == <<Write(ChunkFrame(Request, x.path, 0, TRUE, Len(x.content))),
                Write(BytesFrame(x.content))>>

\* A child that renders writes, between its third and its last read, frames
\* that end with the manifest of its output.
LEMMA RenderingIs ==
  ASSUME NEW s \in SourceSets
  PROVE  \E e \in Seq(Writes(PlainFrames)) :
           Rendering(s) = Opening(TRUE) \o (e \o <<Manifest(s)>>) \o <<Read>>
<1> DEFINE W == Writes(PlainFrames)
           parts == [i \in DOMAIN s |-> FileOps(s[i])]
           Files == [path : Paths, content : Payloads]
<1>1. \A x \in Files : FileOps(x) \in Seq(W)
  <2> SUFFICES ASSUME NEW x \in Files PROVE FileOps(x) \in Seq(W)
    OBVIOUS
  <2>1. PICK p \in Paths, c \in Payloads : p = x.path /\ c = x.content
    OBVIOUS
  <2>2. ChunkFrame(Request, p, 0, TRUE, Len(c)) \in PlainFrames /\ BytesFrame(c) \in PlainFrames
    <3>1. ChunkFrame(Request, p, 0, TRUE, Len(c)) \in Headers(c)
      BY DEF Headers
    <3> QED BY <3>1 DEF PlainFrames
  <2>3. /\ Write(ChunkFrame(Request, x.path, 0, TRUE, Len(x.content))) \in W
        /\ Write(BytesFrame(x.content)) \in W
    BY <2>1, <2>2 DEF Writes
  <2> HIDE DEF W
  <2> QED BY <2>3, Sequences DEF FileOps
<1>2. s \in Seq(Files)
  BY InvocationAssumption DEF InvocationAssumption
<1>3. parts \in Seq(Seq(W))
  <2> HIDE DEF W, Files
  <2>1. DOMAIN s = 1 .. Len(s) /\ Len(s) \in Nat /\ \A i \in 1 .. Len(s) : s[i] \in Files
    BY <1>2
  <2>2. parts \in [1 .. Len(s) -> Seq(W)]
    BY <1>1, <2>1
  <2> HIDE DEF parts
  <2> QED BY <2>1, <2>2
<1>4. FlattenSeq(parts) \in Seq(W)
  <2> HIDE DEF W, parts
  <2> QED BY <1>3, FlattenType
<1>5. Rendering(s) = Opening(TRUE) \o (FlattenSeq(parts) \o <<Manifest(s)>>) \o <<Read>>
  BY DEF Rendering, Emission, Manifest, FileOps
<1> QED BY <1>4, <1>5

\* Two sequences joined, position by position.
Joins(B, c, a, n, b, k) ==
  /\ c \in Seq(B) /\ Len(c) = n + k
  /\ \A j \in 1 .. n : c[j] = a[j]
  /\ \A j \in 1 .. k : c[n + j] = b[j]

\* Joining two sequences joins them.
LEMMA Joined ==
  ASSUME NEW B, NEW a \in Seq(B), NEW b \in Seq(B)
  PROVE  Joins(B, a \o b, a, Len(a), b, Len(b))
BY DEF Joins

\* Four operations, some more, one and one.
Spans(B, p, o, e, n, m, r) ==
  /\ p \in Seq(B) /\ Len(p) = n + 6
  /\ \A j \in 1 .. 4 : p[j] = o[j]
  /\ \A j \in 1 .. n : p[4 + j] = e[j]
  /\ p[n + 5] = m /\ p[n + 6] = r

\* Joined, four operations, some more, one and one keep their positions.
LEMMA Positions ==
  ASSUME NEW B, NEW o \in Seq(B), Len(o) = 4, NEW e \in Seq(B), NEW m \in B, NEW r \in B
  PROVE  Spans(B, o \o (e \o <<m>>) \o <<r>>, o, e, Len(e), m, r)
<1> DEFINE p == o \o (e \o <<m>>) \o <<r>>
<1>1. <<m>> \in Seq(B) /\ Len(<<m>>) = 1 /\ <<m>>[1] = m
  OBVIOUS
<1>2. <<r>> \in Seq(B) /\ Len(<<r>>) = 1 /\ <<r>>[1] = r
  OBVIOUS
<1>3. PICK n \in Nat : n = Len(e)
  OBVIOUS
<1>4. PICK b : b = e \o <<m>>
  OBVIOUS
<1>5. Joins(B, b, e, n, <<m>>, 1)
  BY <1>1, <1>3, <1>4, Joined
<1>6. b \in Seq(B) /\ Len(b) = n + 1
  BY <1>5 DEF Joins
<1>7. PICK q : q = o \o b
  OBVIOUS
<1>8. Joins(B, q, o, 4, b, n + 1)
  BY <1>6, <1>7, Joined
<1>9. q \in Seq(B) /\ Len(q) = n + 5
  BY <1>8 DEF Joins
<1>10. p = q \o <<r>>
  BY <1>4, <1>7
<1> HIDE DEF p
<1>11. Joins(B, p, q, n + 5, <<r>>, 1)
  BY <1>2, <1>9, <1>10, Joined
<1>12. /\ p \in Seq(B) /\ Len(p) = n + 6
       /\ \A j \in 1 .. n + 5 : p[j] = q[j]
       /\ p[n + 6] = r
  <2>1. /\ p \in Seq(B) /\ Len(p) = (n + 5) + 1
        /\ \A j \in 1 .. n + 5 : p[j] = q[j]
        /\ \A j \in 1 .. 1 : p[(n + 5) + j] = <<r>>[j]
    BY <1>11 DEF Joins
  <2>2. (n + 5) + 1 = n + 6 /\ 1 \in 1 .. 1
    OBVIOUS
  <2>3. p[(n + 5) + 1] = <<r>>[1]
    BY <2>1, <2>2
  <2> QED BY <1>2, <2>1, <2>2, <2>3
<1>13. /\ \A j \in 1 .. 4 : q[j] = o[j]
       /\ \A j \in 1 .. n + 1 : q[4 + j] = b[j]
  BY <1>8 DEF Joins
<1>14. /\ \A j \in 1 .. n : b[j] = e[j]
       /\ b[n + 1] = m
  BY <1>1, <1>5 DEF Joins
<1>15. \A j \in 1 .. 4 : p[j] = o[j]
  BY <1>12, <1>13
<1>16. ASSUME NEW j \in 1 .. n PROVE p[4 + j] = e[j]
  <2>1. 4 + j \in 1 .. n + 5 /\ j \in 1 .. n + 1
    OBVIOUS
  <2> QED BY <1>12, <1>13, <1>14, <2>1
<1>17. p[n + 5] = m
  <2>1. n + 5 = 4 + (n + 1) /\ n + 1 \in 1 .. n + 1 /\ n + 5 \in 1 .. n + 5
    OBVIOUS
  <2>2. p[n + 5] = q[n + 5]
    BY <1>12, <2>1
  <2>3. q[4 + (n + 1)] = b[n + 1]
    BY <1>13, <2>1
  <2> QED BY <1>14, <2>1, <2>2, <2>3
<1>18. Spans(B, p, o, e, n, m, r)
  BY <1>12, <1>15, <1>16, <1>17 DEF Spans
<1> QED BY <1>3, <1>18 DEF p

\* The operations of a child that renders.
LEMMA RenderingRenders ==
  ASSUME NEW s \in SourceSets, NEW p, p = Rendering(s)
  PROVE  /\ Renders(p) /\ p \in Seq(PlainOps \cup {Manifest(s)})
<1> DEFINE W == Writes(PlainFrames)
           B == PlainOps \cup {Manifest(s)}
           o == Opening(TRUE)
<1>1. PICK e \in Seq(W) : p = o \o (e \o <<Manifest(s)>>) \o <<Read>>
  BY RenderingIs
<1>2. /\ o \in Seq(B) /\ Len(o) = 4 /\ e \in Seq(B)
      /\ Manifest(s) \in B /\ Read \in B
  <2>1. o \in Seq(PlainOps) /\ Len(o) = 4
    <3>1. TRUE \in BOOLEAN
      OBVIOUS
    <3> QED BY <3>1, OpeningIsPlain
  <2>2. W \in SUBSET B /\ PlainOps \in SUBSET B /\ Read \in B /\ Manifest(s) \in B
    BY DEF PlainOps
  <2> HIDE DEF W, B, o
  <2> QED BY <2>1, <2>2
<1>3. /\ o[1].op = "read" /\ o[2].op = "write" /\ o[3].op = "read" /\ o[4].op = "read"
      /\ Read.op = "read" /\ Manifest(s).op = "write"
  BY DEF Opening, Read, Write, Manifest
<1>4. \A w \in W : w.op = "write"
  BY DEF Writes, Write
<1> HIDE DEF W, B, o
<1>5. PICK n \in Nat : n = Len(e)
  OBVIOUS
<1>6. /\ p \in Seq(B) /\ Len(p) = n + 6
      /\ \A j \in 1 .. 4 : p[j] = o[j]
      /\ \A j \in 1 .. n : p[4 + j] = e[j]
      /\ p[n + 5] = Manifest(s) /\ p[n + 6] = Read
  <2>1. Spans(B, p, o, e, n, Manifest(s), Read)
    BY <1>1, <1>2, <1>5, Positions
  <2> QED BY <2>1 DEF Spans
<1>7. \A j \in 1 .. n : e[j] \in W
  BY <1>5
<1>8. ASSUME NEW j \in 1 .. n + 6
      PROVE  (p[j].op = "read") <=> (j \in {1, 3, 4, n + 6})
  <2>1. CASE j <= 4
    <3>1. j \in 1 .. 4 /\ j # n + 6
      BY <2>1
    <3>2. p[j] = o[j]
      BY <1>6, <3>1
    <3>3. j = 1 \/ j = 2 \/ j = 3 \/ j = 4
      BY <3>1
    <3> QED BY <1>3, <3>1, <3>2, <3>3
  <2>2. CASE 5 <= j /\ j <= n + 4
    <3>1. PICK k \in 1 .. n : j = 4 + k
      <4>1. j - 4 \in 1 .. n /\ j = 4 + (j - 4)
        BY <2>2
      <4> QED BY <4>1
    <3>2. p[j].op = "write"
      BY <1>4, <1>6, <1>7, <3>1
    <3>3. j \notin {1, 3, 4, n + 6}
      BY <2>2
    <3> QED BY <3>2, <3>3
  <2>3. CASE j = n + 5
    <3>1. j \notin {1, 3, 4, n + 6}
      BY <2>3
    <3> QED BY <1>3, <1>6, <2>3, <3>1
  <2>4. CASE j = n + 6
    BY <1>3, <1>6, <2>4
  <2>5. j <= 4 \/ (5 <= j /\ j <= n + 4) \/ j = n + 5 \/ j = n + 6
    OBVIOUS
  <2> QED BY <2>1, <2>2, <2>3, <2>4, <2>5
<1>9. Renders(p)
  <2>1. Len(p) \in Nat /\ Len(p) >= 6
    BY <1>6
  <2> QED BY <1>6, <1>8, <2>1 DEF Renders
<1> QED BY <1>6, <1>9 DEF B

\* A child that renders keeps a session of its own.
LEMMA RenderingFollows ==
  ASSUME NEW p, Renders(p)
  PROVE  p \notin Sessionless
<1>1. PICK n \in Nat : n = Len(p)
  BY DEF Renders
<1>2. n >= 6 /\ 5 \in 1 .. n /\ 5 # n
  BY <1>1 DEF Renders
<1>3. p[5].op # "read"
  <2>1. 5 \notin {1, 3, 4, n}
    BY <1>2
  <2> QED BY <1>1, <1>2, <2>1 DEF Renders
<1>4. p # Declining
  <2>1. Len(Declining) = 2
    BY DEF Declining
  <2> QED BY <1>1, <1>2, <2>1
<1>5. p # Chatty
  <2>1. Len(Chatty) = 5
    BY DEF Chatty, Opening
  <2> QED BY <1>1, <1>2, <2>1
<1>6. p # Cancellable
  <2>1. Cancellable[5].op = "read"
    BY DEF Cancellable, Opening, Read, Write
  <2> QED BY <1>3, <2>1
<1> QED BY <1>4, <1>5, <1>6 DEF Sessionless

-----------------------------------------------------------------------------
(* What is on the wire, and what a session makes of it                     *)

\* A frame that p may emit: it ends p, or is a plain one, or p's manifest.
Speaks(p, f) ==
  /\ f.type \in FrameTypes
  /\ f.type = "Manifest" => [requestId |-> f.requestId, artifacts |-> f.artifacts] \in Outputs(p)

\* A program is a sequence of reads and writes.
LEMMA ProgramsAreSequences ==
  ASSUME NEW p \in Programs
  PROVE  \/ p \in Seq(PlainOps)
         \/ \E s \in SourceSets : p = Rendering(s) /\ p \in Seq(PlainOps \cup {Manifest(s)})
<1>1. CASE \E s \in SourceSets : p = Rendering(s)
  BY <1>1, RenderingRenders
<1>2. CASE p \in {Refusing, Mismatched} \cup Sessionless
  BY <1>2, OthersArePlain
<1> QED BY <1>1, <1>2 DEF Programs

\* The length of a program.
LEMMA ProgramLength ==
  ASSUME NEW p \in Programs
  PROVE  Len(p) \in Nat /\ DOMAIN p = 1 .. Len(p)
<1>1. PICK B : p \in Seq(B)
  BY ProgramsAreSequences
<1> QED BY <1>1

\* What a program writes, it may emit: a manifest is the one of the output it
\* renders.
LEMMA WritesAreSpoken ==
  ASSUME NEW p \in Programs, NEW j \in DOMAIN p, p[j].op = "write"
  PROVE  Speaks(p, p[j].frame)
<1>1. \A g \in PlainFrames : Speaks(p, g)
  BY PlainTypes DEF Speaks
<1>2. ASSUME NEW w \in PlainOps, w.op = "write" PROVE Speaks(p, w.frame)
  <2>1. PICK g \in PlainFrames : w = Write(g)
    BY <1>2 DEF PlainOps, Writes, Read
  <2> QED BY <1>1, <2>1 DEF Write
<1>3. CASE p \in Seq(PlainOps)
  <2>1. p[j] \in PlainOps
    BY <1>3
  <2> QED BY <1>2, <2>1
<1>4. ASSUME NEW s \in SourceSets, p = Rendering(s), p \in Seq(PlainOps \cup {Manifest(s)})
      PROVE  Speaks(p, p[j].frame)
  <2>1. p[j] \in PlainOps \cup {Manifest(s)}
    BY <1>4
  <2>2. CASE p[j] = Manifest(s)
    <3>1. p[j].frame = ManifestFrame(Request, ArtifactsOf(s))
      BY <2>2 DEF Manifest, Write
    <3>2. /\ p[j].frame.type = "Manifest" /\ p[j].frame.requestId = Request
          /\ p[j].frame.artifacts = ArtifactsOf(s)
      BY <3>1 DEF ManifestFrame
    <3>3. [requestId |-> Request, artifacts |-> ArtifactsOf(s)] \in Outputs(p)
      BY <1>4 DEF Outputs
    <3> QED BY <3>2, <3>3 DEF Speaks, FrameTypes
  <2> QED BY <1>2, <2>1, <2>2
<1> QED BY <1>3, <1>4, ProgramsAreSequences

\* What is on the wire is spoken by the program, or was cut short.
LEMMA WireIsSpoken ==
  ASSUME NEW p \in Programs, NEW f \in Emitted(p)
  PROVE  f = CutFrame \/ Speaks(p, f)
BY WritesAreSpoken DEF Emitted

\* A session stays one, and completes nothing but what it is sent.
LEMMA ConsumeKeeps ==
  ASSUME NEW C, NEW s, IsSession(s), s.completed \in Seq(C), NEW d,
         NEW f, f.type \in FrameTypes,
         f.type = "Manifest" => [requestId |-> f.requestId, artifacts |-> f.artifacts] \in C
  PROVE  IsSession(Consume(s, d, f)) /\ Consume(s, d, f).completed \in Seq(C)
<1> DEFINE Keeps(t) == IsSession(t) /\ t.completed \in Seq(C)
<1>0. Keeps(s)
  OBVIOUS
<1>1. Keeps(Fail(s))
  BY DEF Fail, IsSession, NewSession
<1>2. /\ IsSession(ResetRequest(s)) /\ ResetRequest(s).completed = s.completed
      /\ ResetRequest(s).pending = "none"
  BY DEF ResetRequest, IsSession, NewSession, Pendings
<1>3. CASE s.state \in {"Failed", "Closed"} \/ f.type = "Invalid"
  BY <1>0, <1>1, <1>3 DEF Consume
<1>4. CASE ~(s.state \in {"Failed", "Closed"} \/ f.type = "Invalid") /\ s.pending # "none"
  <2>1. Consume(s, d, f) = ConsumePendingRaw(s, d, f)
    BY <1>4 DEF Consume
  <2>2. CASE d # s.pendingDir \/ f.trailingRaw \/ ~RawAdmissible(s, f)
    BY <1>1, <2>1, <2>2 DEF ConsumePendingRaw
  <2>3. CASE ~(d # s.pendingDir \/ f.trailingRaw \/ ~RawAdmissible(s, f))
    <3>1. CASE s.pending = "skipped"
      BY <2>1, <2>3, <3>1 DEF ConsumePendingRaw, IsSession, NewSession, Pendings
    <3>2. CASE s.pending = "projection"
      BY <2>1, <2>3, <3>2 DEF ConsumePendingRaw, IsSession, NewSession, Pendings
    <3>3. CASE s.pending = "artifact"
      <4>1. Consume(s, d, f) = ApplyArtifactBytes(s, f)
        BY <2>1, <2>3, <3>3 DEF ConsumePendingRaw
      <4> QED BY <4>1 DEF ApplyArtifactBytes, IsSession, NewSession, Pendings
    <3> QED BY <1>4, <3>1, <3>2, <3>3 DEF IsSession, Pendings
  <2> QED BY <2>2, <2>3
<1>5. CASE ~(s.state \in {"Failed", "Closed"} \/ f.type = "Invalid") /\ s.pending = "none"
  <2>1. CASE f.type = "Unknown"
    BY <1>0, <1>1, <1>5, <2>1 DEF Consume, ConsumeUnknown, IsSession, NewSession, Pendings
  <2>2. CASE f.type \in RawTypes
    BY <1>1, <1>5, <2>2 DEF Consume, RawTypes
  <2>3. CASE f.type \notin RawTypes \cup {"Unknown"}
    <3>1. Consume(s, d, f) = ConsumeKnown(s, d, f)
      BY <1>5, <2>3 DEF Consume
    <3>2. CASE ~ControlAdmissible(s, d, f)
      BY <1>1, <3>1, <3>2 DEF ConsumeKnown
    <3>3. CASE ControlAdmissible(s, d, f)
      <4>1. Consume(s, d, f) = ApplyControl(s, d, f)
        BY <3>1, <3>3 DEF ConsumeKnown
      <4>2. CASE f.type = "Manifest"
        <5>1. f.requestId = s.request /\ f.artifacts = s.artifacts
          BY <3>3, <4>2 DEF ControlAdmissible, ManifestAdmissible
        <5>2. Append(s.completed, [requestId |-> s.request, artifacts |-> s.artifacts]) \in Seq(C)
          BY <4>2, <5>1
        <5> QED BY <1>2, <4>1, <4>2, <5>2 DEF ApplyControl, IsSession, NewSession, Pendings
      <4>3. CASE f.type \in {"Hello", "Capabilities", "Goodbye", "Cancel"}
        BY <4>1, <4>3 DEF ApplyControl, IsSession, NewSession, Pendings
      <4>4. CASE f.type \in {"Emit", "ArtifactChunk"}
        BY <4>1, <4>4 DEF ApplyControl, IsSession, NewSession, Pendings
      <4>5. CASE f.type = "Cancelled"
        BY <1>2, <4>1, <4>5 DEF ApplyControl, IsSession, NewSession, Pendings
      <4>6. CASE f.type = "Error"
        <5>1. s.state \in {"AwaitingCapabilities", "Emitting"}
          BY <3>3, <4>6 DEF ControlAdmissible, StatesOf
        <5> QED BY <1>2, <4>1, <4>6, <5>1 DEF ApplyControl, IsSession, NewSession, Pendings
      <4> QED BY <1>5, <2>3, <4>2, <4>3, <4>4, <4>5, <4>6 DEF FrameTypes, RawTypes
    <3> QED BY <3>2, <3>3
  <2> QED BY <2>1, <2>2, <2>3
<1> QED BY <1>3, <1>4, <1>5 DEF IsSession

\* A Goodbye is refused or closes the session.
LEMMA GoodbyeCloses ==
  ASSUME NEW s, IsSession(s)
  PROVE  Consume(s, Core, Control("Goodbye")).state \in {"Failed", "Closed"}
<1> DEFINE f == Control("Goodbye")
<1>1. f.type = "Goodbye" /\ f.trailingRaw = FALSE
  BY DEF Control
<1>2. Fail(s).state = "Failed"
  BY DEF Fail, IsSession, NewSession
<1>3. CASE s.state \in {"Failed", "Closed"}
  BY <1>2, <1>3 DEF Consume
<1>4. CASE s.state \notin {"Failed", "Closed"} /\ s.pending # "none"
  <2>1. ~RawAdmissible(s, f)
    BY <1>1, <1>4 DEF RawAdmissible, RawTypes, IsSession, Pendings
  <2> HIDE DEF f
  <2>2. Consume(s, Core, f) = Fail(s)
    BY <1>1, <1>4, <2>1 DEF Consume, ConsumePendingRaw
  <2> QED BY <1>2, <2>2 DEF f
<1>5. CASE s.state \notin {"Failed", "Closed"} /\ s.pending = "none"
  <2>1. Consume(s, Core, f) = ConsumeKnown(s, Core, f)
    BY <1>1, <1>5 DEF Consume, RawTypes
  <2>2. ApplyControl(s, Core, f).state = "Closed"
    BY <1>1 DEF ApplyControl, IsSession, NewSession
  <2> QED BY <1>2, <2>1, <2>2 DEF ConsumeKnown
<1> QED BY <1>3, <1>4, <1>5

-----------------------------------------------------------------------------
(* The initial states and the invoker's steps                              *)

\* The initial states satisfy the invariant.
LEMMA Initially == Init => IInv
<1> SUFFICES ASSUME Init PROVE IInv
  OBVIOUS
<1>1. IsSession(NewSession) /\ NewSession.completed = << >> /\ NewSession.state = "Init"
  BY DEF IsSession, NewSession, Pendings
<1>2. WiresOK
  BY <1>1 DEF Init, WiresOK
<1>3. ReportOK
  BY DEF Init, ReportOK
<1>4. Len(program) \in Nat
  BY ProgramLength DEF Init
<1>5. Scripted("launch", 1, Len(program), << >>)
  <2>1. 0 \in 0 .. 4 /\ SentBy("launch", 0) /\ Reads(1, Len(program)) + Len(<< >>) = 0
    BY DEF SentBy, Reads
  <2>2. \A i \in 1 .. Len(<< >>) : << >>[i] = Script[Reads(1, Len(program)) + i]
    OBVIOUS
  <2> QED BY <2>1, <2>2 DEF Scripted
<1>6. Renders(program) => 1 <= Len(program)
  BY <1>4 DEF Renders
<1>7. ChildOK
  BY <1>1, <1>4, <1>5, <1>6 DEF Init, ChildOK
<1> QED BY <1>2, <1>3, <1>7 DEF IInv

\* The frames sent so far are as many at d as at c.
LEMMA ScriptedAt ==
  ASSUME NEW c, NEW a, NEW n, NEW q, NEW d, Scripted(c, a, n, q),
         \A k \in 0 .. 4 : SentBy(c, k) => SentBy(d, k)
  PROVE  Scripted(d, a, n, q)
BY DEF Scripted

\* The invoker may move on, or kill the child, without touching what the child
\* still has to read.
LEMMA InvokerLeavesChild ==
  ASSUME IInv, UNCHANGED <<program, at, peer, clean, toPeer, cancels>>,
         child' \in {child, "gone"}, pc' # "launch",
         \A k \in 0 .. 4 : SentBy(pc, k) => SentBy(pc', k)
  PROVE  ChildOK'
<1>1. Scripted(pc, at, Len(program), toPeer) => Scripted(pc', at, Len(program), toPeer)
  BY ScriptedAt
<1> QED BY <1>1 DEF IInv, ChildOK

\* A return that does not report a success it has not earned.
LEMMA ReturnKeeps ==
  ASSUME IInv, NEW o, Return(o), UNCHANGED <<toPeer, cancels>>,
         o = "success" => report = "success" /\ clean
  PROVE  ReportOK' /\ ChildOK'
<1>1. /\ pc' = "done" /\ child' = "gone" /\ outcome' = o
      /\ UNCHANGED <<program, at, peer, clean, report, emission>>
  BY DEF Return
<1>2. ReportOK'
  BY <1>1 DEF IInv, ReportOK
<1>3. \A k \in 0 .. 4 : SentBy("done", k)
  BY DEF SentBy
<1> QED BY <1>1, <1>2, <1>3, InvokerLeavesChild

\* Launch keeps the invariant.
LEMMA LaunchKeeps == IInv /\ Launch => IInv'
<1> SUFFICES ASSUME IInv, Launch PROVE IInv'
  OBVIOUS
<1>1. pc = "launch" /\ UNCHANGED <<session, toPeer, toCore, cancels>>
  BY DEF Launch
<1>2. CASE Return("E_PROCESS")
  <2>1. UNCHANGED <<program, at, peer>>
    BY <1>2 DEF Return
  <2> QED BY <1>1, <1>2, <2>1, ReturnKeeps DEF IInv, WiresOK
<1>3. CASE ~Return("E_PROCESS")
  <2>1. /\ pc' = "hello" /\ child' = "running"
        /\ UNCHANGED <<emission, report, outcome, program, at, peer, clean>>
    BY <1>3 DEF Launch
  <2>2. WiresOK' /\ ReportOK'
    BY <1>1, <2>1 DEF IInv, WiresOK, ReportOK
  <2>3. \A k \in 0 .. 4 : SentBy("launch", k) => SentBy("hello", k)
    BY DEF SentBy
  <2>4. Scripted("launch", at, Len(program), toPeer) => Scripted("hello", at, Len(program), toPeer)
    BY <2>3, ScriptedAt
  <2>5. ChildOK'
    BY <1>1, <2>1, <2>4 DEF IInv, ChildOK
  <2> QED BY <2>2, <2>5 DEF IInv
<1> QED BY <1>2, <1>3

\* What sending f and going on at next asks of the script.
Sends(f, next) ==
  /\ f \in CoreFrames
  /\ next \notin {"launch", "done"}
  /\ pc = "goodbye" => next = "exit"
  /\ IF f.type = "Cancel" THEN next = "cancelling"
     ELSE \A k \in 0 .. 4 :
            SentBy(pc, k) => k \in 0 .. 3 /\ Script[k + 1] = f /\ SentBy(next, k + 1)

\* Sending keeps the invariant.
LEMMA SendKeeps ==
  ASSUME IInv, NEW f, NEW next, Send(f, next), Sends(f, next),
         pc \in {"hello", "emit", "projection", "cancel", "goodbye"}
  PROVE  IInv'
<1> DEFINE s == Consume(session, Core, f)
<1>1. session' = s /\ UNCHANGED toCore
  BY DEF Send
<1>2. IsSession(s) /\ s.completed \in Seq(Outputs(program))
  <2>1. f.type \in FrameTypes \ {"Manifest"}
    BY PlainTypes DEF Sends
  <2> HIDE DEF s
  <2> QED BY <2>1, ConsumeKeeps DEF IInv, WiresOK, s
<1> HIDE DEF s
<1>3. ASSUME NEW o \in {"E_PROTOCOL", "E_TIMEOUT", "E_PROCESS"}, Return(o),
             UNCHANGED <<toPeer, history>>
      PROVE  IInv'
  <2>1. UNCHANGED <<program, at, peer, cancels>>
    BY <1>3 DEF Return, history
  <2>2. WiresOK'
    BY <1>1, <1>2, <1>3, <2>1 DEF IInv, WiresOK
  <2>3. ReportOK' /\ ChildOK'
    BY <1>3, <2>1, ReturnKeeps
  <2> QED BY <2>2, <2>3 DEF IInv
<1>4. CASE /\ toPeer' = Append(toPeer, f) /\ pc' = next
           /\ cancels' = (IF f.type = "Cancel" THEN cancels + 1 ELSE cancels)
           /\ UNCHANGED <<emission, report, outcome, process>>
  <2>1. UNCHANGED <<program, at, peer, child, clean>>
    BY <1>4 DEF process
  <2>2. toPeer \in Seq(CoreFrames) /\ f \in CoreFrames /\ cancels \in Nat
    BY DEF IInv, WiresOK, Sends
  <2>3. toPeer' \in Seq(CoreFrames) /\ cancels' \in Nat
    BY <1>4, <2>2
  <2>4. WiresOK'
    BY <1>1, <1>2, <2>1, <2>3 DEF IInv, WiresOK
  <2>5. ReportOK'
    BY <1>4, <2>1 DEF IInv, ReportOK, Sends
  <2>6. ASSUME f.type # "Cancel", Scripted(pc, at, Len(program), toPeer)
        PROVE  Scripted(next, at, Len(program), Append(toPeer, f))
    <3> DEFINE r == Reads(at, Len(program))
    <3>1. PICK k \in 0 .. 4 : /\ SentBy(pc, k) /\ r + Len(toPeer) = k
                              /\ \A i \in 1 .. Len(toPeer) : toPeer[i] = Script[r + i]
      BY <2>6 DEF Scripted
    <3>2. k \in 0 .. 3 /\ Script[k + 1] = f /\ SentBy(next, k + 1)
      BY <2>6, <3>1 DEF Sends
    <3>3. r \in Nat
      BY DEF Reads
    <3> HIDE DEF r
    <3>4. PICK n \in Nat : n = Len(toPeer)
      BY <2>2
    <3>5. /\ Len(Append(toPeer, f)) = n + 1 /\ Append(toPeer, f)[n + 1] = f
          /\ \A i \in 1 .. n : Append(toPeer, f)[i] = toPeer[i]
      BY <2>2, <3>4
    <3>6. r + (n + 1) = k + 1 /\ k + 1 \in 0 .. 4
      BY <3>1, <3>2, <3>3, <3>4
    <3>7. ASSUME NEW i \in 1 .. n + 1 PROVE Append(toPeer, f)[i] = Script[r + i]
      <4>1. CASE i = n + 1
        BY <3>2, <3>5, <3>6, <4>1
      <4>2. CASE i \in 1 .. n
        BY <3>1, <3>4, <3>5, <4>2
      <4>3. i = n + 1 \/ i \in 1 .. n
        OBVIOUS
      <4> QED BY <4>1, <4>2, <4>3
    <3> QED BY <3>2, <3>5, <3>6, <3>7 DEF Scripted, r
  <2>7. ChildOK'
    <3>1. pc' # "launch"
      BY <1>4 DEF Sends
    <3>2. CASE f.type = "Cancel"
      <4>1. cancels' # 0
        BY <1>4, <2>2, <3>2
      <4> QED BY <2>1, <3>1, <4>1 DEF IInv, ChildOK
    <3>3. CASE f.type # "Cancel"
      <4>1. cancels' = cancels
        BY <1>4, <3>3
      <4> QED BY <1>4, <2>1, <2>6, <3>1, <3>3, <4>1 DEF IInv, ChildOK
    <3> QED BY <3>2, <3>3
  <2> QED BY <2>4, <2>5, <2>7 DEF IInv
<1> QED BY <1>3, <1>4 DEF Send, s, history

\* The frame read off the wire is one the program may emit.
LEMMA FrameIsSpoken ==
  ASSUME IInv, toCore # << >>, Head(toCore).type # "Cut",
         NEW f \in IF torn THEN Garbage ELSE {Head(toCore)}
  PROVE  Speaks(program, f)
<1>1. CASE torn
  <2>1. f.type \in FrameTypes \ {"Manifest"}
    BY <1>1, PlainTypes
  <2> QED BY <2>1 DEF Speaks
<1>2. CASE ~torn
  <2>1. f = Head(toCore) /\ f \in Emitted(program)
    <3>1. toCore \in Seq(Emitted(program))
      BY DEF IInv, WiresOK
    <3> QED BY <1>2, <3>1
  <2>2. f # CutFrame
    BY <2>1 DEF CutFrame
  <2> QED BY <2>1, <2>2, WireIsSpoken DEF IInv, WiresOK
<1> QED BY <1>1, <1>2

\* Reading a frame keeps the invariant.
LEMMA ReceiveFrameKeeps == IInv /\ ReceiveFrame => IInv'
<1> SUFFICES ASSUME IInv, ReceiveFrame PROVE IInv'
  OBVIOUS
<1>1. /\ pc \in {"handshake", "collect", "cancelling"}
      /\ toCore # << >> /\ Head(toCore).type # "Cut" /\ toCore' = Tail(toCore)
  BY DEF ReceiveFrame, Reading
<1>2. PICK f \in IF torn THEN Garbage ELSE {Head(toCore)} :
        LET s == Consume(session, Backend, f)
            refused == s.state = "Failed" /\ s.errors = << >>
        IN  IF refused THEN session' = s /\ Unread("E_PROTOCOL")
            ELSE /\ CASE pc = "handshake"  -> Handshake(s, f)
                      [] pc = "collect"    -> Collect(s)
                      [] pc = "cancelling" -> Acknowledge(s)
                 /\ UNCHANGED <<toPeer, history>>
  BY DEF ReceiveFrame
<1> DEFINE s == Consume(session, Backend, f)
           refused == s.state = "Failed" /\ s.errors = << >>
<1>3. IsSession(s) /\ s.completed \in Seq(Outputs(program))
  <2>1. Speaks(program, f)
    BY <1>1, FrameIsSpoken
  <2> HIDE DEF s
  <2> QED BY <2>1, ConsumeKeeps DEF IInv, WiresOK, Speaks, s
<1>4. IF refused THEN session' = s /\ Unread("E_PROTOCOL")
      ELSE /\ CASE pc = "handshake"  -> Handshake(s, f)
                [] pc = "collect"    -> Collect(s)
                [] pc = "cancelling" -> Acknowledge(s)
           /\ UNCHANGED <<toPeer, history>>
  BY <1>2
<1>5. toCore' \in Seq(Emitted(program))
  <2>1. toCore \in Seq(Emitted(program))
    BY DEF IInv, WiresOK
  <2> QED BY <1>1, <2>1
<1> HIDE DEF s
<1>6. /\ UNCHANGED <<program, at, peer, clean, cancels, toPeer>>
      /\ child' \in {child, "gone"}
      /\ IsSession(session') /\ session'.completed \in Seq(Outputs(program))
      /\ pc' # "launch"
      /\ \A k \in 0 .. 4 : SentBy(pc, k) => SentBy(pc', k)
  <2>1. CASE refused
    BY <1>3, <1>4, <2>1 DEF Unread, Return, history, SentBy
  <2>2. CASE ~refused /\ pc = "handshake"
    <3>1. Handshake(s, f) /\ UNCHANGED <<toPeer, history>>
      BY <1>4, <2>2
    <3>2. session' = [s EXCEPT !.errors = << >>]
      BY <3>1 DEF Handshake
    <3>3. IsSession(session') /\ session'.completed = s.completed
      BY <1>3, <3>2 DEF IsSession, NewSession
    <3> QED BY <1>3, <2>2, <3>1, <3>3 DEF Handshake, Return, process, history, SentBy
  <2>3. CASE ~refused /\ pc = "collect"
    <3>1. Collect(s) /\ UNCHANGED <<toPeer, history>>
      BY <1>4, <2>3
    <3>2. session' = [s EXCEPT !.errors = << >>, !.completed = << >>]
      BY <3>1 DEF Collect
    <3>3. IsSession(session') /\ session'.completed = << >>
      BY <1>3, <3>2 DEF IsSession, NewSession
    <3> QED BY <2>3, <3>1, <3>3 DEF Collect, process, history, SentBy
  <2>4. CASE ~refused /\ pc = "cancelling"
    <3>1. Acknowledge(s) /\ UNCHANGED <<toPeer, history>>
      BY <1>4, <2>4
    <3> QED BY <1>3, <2>4, <3>1 DEF Acknowledge, Return, process, history, SentBy
  <2> QED BY <1>1, <2>1, <2>2, <2>3, <2>4
<1>7. WiresOK'
  <2>1. toPeer' \in Seq(CoreFrames) /\ program \in Programs /\ at \in Nat \ {0} /\ cancels \in Nat
        /\ IsSession(peer) /\ peer.completed \in Seq(Outputs(program))
    BY <1>6 DEF IInv, WiresOK
  <2> QED BY <1>5, <1>6, <2>1 DEF WiresOK
<1>8. ReportOK'
  <2>0. ASSUME NEW o, o # "success", Return(o) PROVE ReportOK'
    BY <1>6, <2>0, ReturnKeeps
  <2>1. CASE refused
    BY <1>4, <2>0, <2>1 DEF Unread
  <2>2. CASE ~refused /\ pc = "handshake"
    <3>1. Handshake(s, f)
      BY <1>4, <2>2
    <3>2. CASE pc' = "emit" /\ UNCHANGED <<emission, report, outcome, process>>
      BY <1>6, <2>2, <3>2 DEF IInv, ReportOK
    <3> QED BY <2>0, <3>1, <3>2 DEF Handshake
  <2>3. CASE ~refused /\ pc = "collect"
    <3>1. Collect(s)
      BY <1>4, <2>3
    <3>2. cancels = 0 /\ report # "success" /\ outcome # "success"
      BY <2>3 DEF IInv, ReportOK
    <3>3. UNCHANGED <<outcome, child>>
      BY <3>1 DEF Collect, process
    <3>4. \/ /\ pc' = "goodbye"
             /\ report' = "success" => emission' = s.completed /\ s.completed # << >>
          \/ /\ pc' = "collect" /\ UNCHANGED report
      BY <2>3, <3>1 DEF Collect
    <3> QED BY <1>3, <1>6, <3>2, <3>3, <3>4 DEF ReportOK
  <2>4. CASE ~refused /\ pc = "cancelling"
    <3>1. Acknowledge(s)
      BY <1>4, <2>4
    <3>2. CASE pc' = "goodbye" /\ report' = "cancelled" /\ UNCHANGED <<emission, outcome, process>>
      BY <1>6, <2>4, <3>2 DEF IInv, ReportOK
    <3> QED BY <2>0, <3>1, <3>2 DEF Acknowledge
  <2> QED BY <1>1, <2>1, <2>2, <2>3, <2>4
<1>9. ChildOK'
  BY <1>6, InvokerLeavesChild
<1> QED BY <1>7, <1>8, <1>9 DEF IInv

\* The invoker's other steps, and the clock's, keep the invariant: they send and
\* read nothing.
LEMMA OthersKeep ==
  IInv /\ (ReceiveTimeout \/ ReceiveEnd \/ AwaitExit \/ SystemFailure \/ Tick) => IInv'
<1> SUFFICES ASSUME IInv, ReceiveTimeout \/ ReceiveEnd \/ AwaitExit \/ SystemFailure \/ Tick
             PROVE  IInv'
  OBVIOUS
<1> USE DEF Reading
<1>1. /\ UNCHANGED <<program, at, peer, clean, cancels, session, toPeer, toCore>>
      /\ child' \in {child, "gone"} /\ pc' # "launch" /\ pc # "launch"
      /\ \A k \in 0 .. 4 : SentBy(pc, k) => SentBy(pc', k)
  <2>1. CASE ReceiveTimeout
    BY <2>1 DEF ReceiveTimeout, Return, process, history, SentBy
  <2>2. CASE ReceiveEnd
    BY <2>2 DEF ReceiveEnd, Unread, Return, process, history, SentBy
  <2>3. CASE AwaitExit
    BY <2>3 DEF AwaitExit, Return, history, SentBy
  <2>4. CASE SystemFailure
    BY <2>4 DEF SystemFailure, Return, SentBy
  <2>5. CASE Tick
    BY <2>5 DEF Tick, process, SentBy
  <2> QED BY <2>1, <2>2, <2>3, <2>4, <2>5
<1>2. WiresOK'
  BY <1>1 DEF IInv, WiresOK
<1>3. ChildOK'
  BY <1>1, InvokerLeavesChild
<1>4. ReportOK'
  <2>0. ASSUME NEW o, Return(o), o = "success" => report = "success" /\ clean PROVE ReportOK'
    BY <1>1, <2>0, ReturnKeeps
  <2>1. CASE ReceiveTimeout
    <3>1. CASE Return("E_TIMEOUT")
      BY <2>0, <3>1
    <3>2. CASE pc = "collect" /\ pc' = "cancel" /\ UNCHANGED <<emission, report, outcome, process>>
      BY <1>1, <3>2 DEF IInv, ReportOK, process
    <3> QED BY <2>1, <3>1, <3>2 DEF ReceiveTimeout
  <2>2. CASE ReceiveEnd
    <3>1. CASE Unread("E_PROCESS") \/ Unread("E_PROTOCOL")
      <4>1. PICK o \in {"E_PROCESS", "E_PROTOCOL", "E_TIMEOUT"} : Return(o)
        BY <3>1 DEF Unread
      <4> QED BY <2>0, <4>1
    <3>2. CASE /\ report' = (IF pc = "cancelling" THEN "E_TIMEOUT" ELSE "E_PROCESS_EXIT")
               /\ pc' = "eof"
               /\ UNCHANGED <<emission, outcome, process>>
      <4>1. pc \in {"handshake", "collect", "cancelling"}
        BY <2>2 DEF ReceiveEnd
      <4>2. report' # "success" /\ UNCHANGED <<outcome, child, clean>>
        BY <3>2 DEF process
      <4> QED BY <1>1, <3>2, <4>1, <4>2 DEF IInv, ReportOK
    <3> QED BY <2>2, <3>1, <3>2 DEF ReceiveEnd
  <2>3. CASE AwaitExit
    <3>1. pc \in {"exit", "eof"} /\ (report = "success" => pc # "eof")
      BY <2>3 DEF AwaitExit, IInv, ReportOK
    <3>2. CASE Return(IF clean \/ pc = "eof" THEN report ELSE "E_PROCESS_EXIT")
      <4>1. CASE clean \/ pc = "eof"
        <5>1. Return(report)
          BY <3>2, <4>1
        <5> QED BY <2>0, <3>1, <4>1, <5>1
      <4>2. CASE ~(clean \/ pc = "eof")
        BY <2>0, <3>2, <4>2
      <4> QED BY <4>1, <4>2
    <3>3. CASE Return("E_TIMEOUT")
      BY <2>0, <3>3
    <3> QED BY <2>3, <3>2, <3>3 DEF AwaitExit
  <2>4. CASE SystemFailure
    <3>1. PICK o \in {"E_TIMEOUT", "E_PROCESS"} : Return(o)
      BY <2>4 DEF SystemFailure
    <3> QED BY <2>0, <3>1
  <2>5. CASE Tick
    BY <2>5 DEF IInv, ReportOK, Tick, process
  <2> QED BY <2>1, <2>2, <2>3, <2>4, <2>5
<1> QED BY <1>2, <1>3, <1>4 DEF IInv

-----------------------------------------------------------------------------
(* The child's steps                                                       *)

\* The child leaves the invoker's side of the invariant alone.
LEMMA ChildLeavesReport ==
  ASSUME IInv, UNCHANGED <<invoker, program, cancels>>, child # "gone", clean => clean'
  PROVE  ReportOK'
<1>1. UNCHANGED <<pc, emission, report, outcome, program, cancels>>
  BY DEF invoker
<1>2. pc # "done"
  BY DEF IInv, ReportOK
<1> QED BY <1>1, <1>2 DEF IInv, ReportOK

\* One read more, or none.
LEMMA ReadsGrow ==
  ASSUME NEW p, Renders(p), NEW a \in 1 .. Len(p)
  PROVE  /\ p[a].op = "read" => Reads(a + 1, Len(p)) = Reads(a, Len(p)) + 1
         /\ p[a].op # "read" => Reads(a + 1, Len(p)) = Reads(a, Len(p))
<1>1. PICK n \in Nat : n = Len(p) /\ n >= 6
  BY DEF Renders
<1>2. (p[a].op = "read") <=> (a \in {1, 3, 4, n})
  BY <1>1 DEF Renders
<1>3. a \in 1 .. n
  BY <1>1
<1>4. a \in {1, 3, 4, n} => Reads(a + 1, n) = Reads(a, n) + 1
  <2>1. CASE a = 1
    BY <1>1, <2>1 DEF Reads
  <2>2. CASE a = 3
    BY <1>1, <2>2 DEF Reads
  <2>3. CASE a = 4
    BY <1>1, <2>3 DEF Reads
  <2>4. CASE a = n
    BY <1>1, <2>4 DEF Reads
  <2> QED BY <2>1, <2>2, <2>3, <2>4
<1>5. a \notin {1, 3, 4, n} => Reads(a + 1, n) = Reads(a, n)
  <2>1. CASE a = 2
    BY <1>1, <2>1 DEF Reads
  <2>2. CASE a > 4 /\ a < n
    BY <1>1, <1>3, <2>2 DEF Reads
  <2>3. a = 1 \/ a = 2 \/ a = 3 \/ a = 4 \/ a = n \/ (a > 4 /\ a < n)
    BY <1>1, <1>3
  <2> QED BY <2>1, <2>2, <2>3
<1> QED BY <1>1, <1>2, <1>4, <1>5

\* The child's session stays one, and completes nothing but its output.
LEMMA FollowsKeeps ==
  ASSUME IInv, NEW d, NEW f, Speaks(program, f)
  PROVE  /\ IsSession(Follows(peer, d, f))
         /\ Follows(peer, d, f).completed \in Seq(Outputs(program))
BY ConsumeKeeps DEF Follows, Speaks, IInv, WiresOK

\* A read of the child keeps the invariant.
LEMMA PeerReadKeeps == IInv /\ PeerRead => IInv'
<1> SUFFICES ASSUME IInv, PeerRead PROVE IInv'
  OBVIOUS
<1> DEFINE f == Head(toPeer)
           n == Len(program)
<1>1. /\ child = "running" /\ at <= n /\ program[at].op = "read"
      /\ toPeer # << >> /\ toPeer' = Tail(toPeer)
      /\ peer' = Follows(peer, Core, f)
      /\ IF peer'.state = "Failed" THEN Exit(FALSE) /\ UNCHANGED at
                                   ELSE at' = at + 1 /\ UNCHANGED <<child, clean>>
      /\ UNCHANGED <<invoker, program, toCore, cancels>>
  BY DEF PeerRead, Running, history
<1>2. UNCHANGED <<pc, session>>
  BY <1>1 DEF invoker
<1>3. /\ n \in Nat /\ at \in Nat \ {0} /\ toPeer \in Seq(CoreFrames)
      /\ program \in Programs
  BY ProgramLength DEF IInv, WiresOK
<1>4. /\ f \in CoreFrames /\ toPeer' \in Seq(CoreFrames)
      /\ Len(toPeer) \in Nat /\ Len(toPeer) >= 1 /\ Len(toPeer') = Len(toPeer) - 1
      /\ \A i \in 1 .. Len(toPeer') : toPeer'[i] = toPeer[i + 1]
      /\ f = toPeer[1]
  BY <1>1, <1>3
<1> HIDE DEF f, n
<1>5. /\ IsSession(peer') /\ peer'.completed \in Seq(Outputs(program))
  <2>1. Speaks(program, f)
    BY <1>4, PlainTypes DEF Speaks
  <2> QED BY <1>1, <2>1, FollowsKeeps
<1>6. WiresOK'
  <2>1. at' \in Nat \ {0}
    <3>1. at + 1 \in Nat \ {0}
      BY <1>3
    <3>2. at' = at + 1 \/ at' = at
      BY <1>1
    <3> QED BY <1>3, <3>1, <3>2
  <2> QED BY <1>1, <1>2, <1>4, <1>5, <2>1 DEF IInv, WiresOK
<1>7. ~clean
  BY <1>1, <1>3 DEF IInv, ChildOK, n
<1>8. ReportOK'
  BY <1>1, <1>7, ChildLeavesReport
<1>9. CASE peer'.state = "Failed"
  <2>1. child' = "closed" /\ clean' = FALSE
    BY <1>1, <1>9 DEF Exit
  <2>2. ChildOK'
    BY <1>1, <1>2, <1>9, <2>1 DEF IInv, ChildOK
  <2> QED BY <1>6, <1>8, <2>2 DEF IInv
<1>10. CASE peer'.state # "Failed"
  <2>1. at' = at + 1 /\ UNCHANGED <<child, clean>>
    BY <1>1, <1>10
  <2>2. peer.state # "Failed"
    BY <1>1 DEF IInv, ChildOK
  <2>3. ASSUME cancels = 0, Renders(program)
        PROVE  /\ at' <= n + 1
               /\ Scripted(pc, at', n, toPeer')
               /\ at' > n => peer'.state = "Closed"
    <3>1. Scripted(pc, at, n, toPeer)
      BY <2>2, <2>3 DEF IInv, ChildOK, n
    <3> DEFINE r == Reads(at, n)
    <3>2. PICK k \in 0 .. 4 : /\ SentBy(pc, k) /\ r + Len(toPeer) = k
                              /\ \A i \in 1 .. Len(toPeer) : toPeer[i] = Script[r + i]
      BY <3>1 DEF Scripted
    <3>3. Reads(at', n) = r + 1
      BY <1>1, <1>3, <2>1, <2>3, ReadsGrow DEF n
    <3>4. r \in Nat
      BY DEF Reads
    <3>5. at = n => r = 3
      BY <1>3, <2>3 DEF Renders, Reads, n
    <3> HIDE DEF r
    <3>6. Scripted(pc, at', n, toPeer')
      <4>1. (r + 1) + Len(toPeer') = k
        BY <1>4, <3>2, <3>4
      <4>2. ASSUME NEW i \in 1 .. Len(toPeer') PROVE toPeer'[i] = Script[(r + 1) + i]
        <5>1. i + 1 \in 1 .. Len(toPeer) /\ r + (i + 1) = (r + 1) + i
          BY <1>4, <3>4
        <5>2. toPeer[i + 1] = Script[r + (i + 1)]
          BY <3>2, <5>1
        <5> QED BY <1>4, <5>1, <5>2
      <4> QED BY <3>2, <3>3, <4>1, <4>2 DEF Scripted
    <3>7. at' > n => peer'.state = "Closed"
      <4> SUFFICES ASSUME at' > n PROVE peer'.state = "Closed"
        OBVIOUS
      <4>1. at = n
        BY <1>1, <1>3, <2>1
      <4>2. f = Script[4]
        <5>1. 1 \in 1 .. Len(toPeer) /\ r + 1 = 4
          BY <1>4, <3>5, <4>1
        <5> QED BY <1>4, <3>2, <5>1
      <4>3. f = Control("Goodbye")
        BY <4>2 DEF Script
      <4>4. peer' = Consume(peer, Core, Control("Goodbye"))
        BY <1>1, <2>3, <4>3, RenderingFollows DEF Follows
      <4> QED BY <1>10, <4>4, GoodbyeCloses DEF IInv, WiresOK
    <3>8. at' <= n + 1
      BY <1>1, <1>3, <2>1
    <3> QED BY <3>6, <3>7, <3>8
  <2>4. ChildOK'
    BY <1>1, <1>2, <1>7, <1>10, <2>1, <2>3 DEF IInv, ChildOK, n
  <2> QED BY <1>6, <1>8, <2>4 DEF IInv
<1> QED BY <1>9, <1>10

\* A write of the child keeps the invariant.
LEMMA PeerWriteKeeps == IInv /\ PeerWrite => IInv'
<1> SUFFICES ASSUME IInv, PeerWrite PROVE IInv'
  OBVIOUS
<1> DEFINE f == program[at].frame
           n == Len(program)
<1>1. /\ child = "running" /\ at <= n /\ program[at].op = "write"
      /\ peer' = Follows(peer, Backend, f)
      /\ IF peer'.state = "Failed"
         THEN Exit(FALSE) /\ UNCHANGED <<at, toCore>>
         ELSE toCore' = Append(toCore, f) /\ at' = at + 1 /\ UNCHANGED <<child, clean>>
      /\ UNCHANGED <<invoker, program, toPeer, cancels>>
  BY DEF PeerWrite, Running, history
<1>2. UNCHANGED <<pc, session>>
  BY <1>1 DEF invoker
<1>3. /\ n \in Nat /\ at \in Nat \ {0} /\ program \in Programs /\ at \in DOMAIN program
      /\ toCore \in Seq(Emitted(program))
  <2>1. n \in Nat /\ DOMAIN program = 1 .. n
    BY ProgramLength DEF IInv, WiresOK
  <2>2. at \in Nat \ {0} /\ program \in Programs /\ toCore \in Seq(Emitted(program))
    BY DEF IInv, WiresOK
  <2> QED BY <1>1, <2>1, <2>2
<1>4. f \in Emitted(program) /\ Speaks(program, f)
  BY <1>1, <1>3, WritesAreSpoken DEF Emitted
<1> HIDE DEF f, n
<1>5. /\ IsSession(peer') /\ peer'.completed \in Seq(Outputs(program))
  BY <1>1, <1>4, FollowsKeeps
<1>6. WiresOK'
  <2>1. at' \in Nat \ {0} /\ toCore' \in Seq(Emitted(program))
    <3>1. Append(toCore, f) \in Seq(Emitted(program)) /\ at + 1 \in Nat \ {0}
      BY <1>3, <1>4
    <3> QED BY <1>1, <1>3, <3>1
  <2> QED BY <1>1, <1>2, <1>5, <2>1 DEF IInv, WiresOK
<1>7. ~clean
  BY <1>1, <1>3 DEF IInv, ChildOK, n
<1>8. ReportOK'
  BY <1>1, <1>7, ChildLeavesReport
<1>9. CASE peer'.state = "Failed"
  <2>1. child' = "closed" /\ clean' = FALSE
    BY <1>1, <1>9 DEF Exit
  <2>2. ChildOK'
    BY <1>1, <1>2, <1>9, <2>1 DEF IInv, ChildOK
  <2> QED BY <1>6, <1>8, <2>2 DEF IInv
<1>10. CASE peer'.state # "Failed"
  <2>1. at' = at + 1 /\ UNCHANGED <<child, clean>>
    BY <1>1, <1>10
  <2>2. peer.state # "Failed"
    BY <1>1 DEF IInv, ChildOK
  <2>3. ASSUME cancels = 0, Renders(program)
        PROVE  at' <= n /\ Scripted(pc, at', n, toPeer')
    <3>1. Scripted(pc, at, n, toPeer)
      BY <2>2, <2>3 DEF IInv, ChildOK, n
    <3>2. program[at].op # "read"
      BY <1>1
    <3>3. Reads(at', n) = Reads(at, n)
      BY <1>1, <1>3, <2>1, <2>3, <3>2, ReadsGrow DEF n
    <3>4. at # n
      BY <1>3, <2>3, <3>2 DEF Renders, n
    <3> QED BY <1>1, <1>3, <2>1, <3>1, <3>3, <3>4 DEF Scripted
  <2>4. cancels' = 0 /\ Renders(program') => at' <= n + 1 /\ ~(at' > n)
    BY <1>1, <1>3, <2>1, <2>3
  <2>5. ChildOK'
    BY <1>1, <1>2, <1>7, <1>10, <2>1, <2>3, <2>4 DEF IInv, ChildOK, n
  <2> QED BY <1>6, <1>8, <2>5 DEF IInv
<1> QED BY <1>9, <1>10

\* Exiting, crashing and becoming reapable keep the invariant.
LEMMA PeerEndsKeep == IInv /\ (PeerExit \/ PeerCrash \/ PeerReapable) => IInv'
<1> SUFFICES ASSUME IInv, PeerExit \/ PeerCrash \/ PeerReapable PROVE IInv'
  OBVIOUS
<1>1. /\ UNCHANGED <<invoker, program, at, peer, toPeer, cancels>>
      /\ child \in {"running", "closed"} /\ child' \in {"closed", "zombie"}
      /\ toCore' = toCore \/ toCore' = Append(toCore, CutFrame)
      /\ \/ PeerExit /\ child = "running" /\ at > Len(program) /\ clean' = TRUE
         \/ PeerCrash /\ child = "running" /\ clean' = FALSE
         \/ clean' = clean
  BY DEF PeerExit, PeerCrash, PeerReapable, Exit, history
<1>2. UNCHANGED <<pc, session>>
  BY <1>1 DEF invoker
<1>3. WiresOK'
  <2>1. toCore \in Seq(Emitted(program)) /\ CutFrame \in Emitted(program)
    BY DEF IInv, WiresOK, Emitted
  <2>2. Append(toCore, CutFrame) \in Seq(Emitted(program))
    BY <2>1
  <2> QED BY <1>1, <1>2, <2>1, <2>2 DEF IInv, WiresOK
<1>4. ReportOK'
  <2>1. UNCHANGED <<pc, emission, report, outcome>> /\ pc # "done" /\ outcome # "success"
    BY <1>1 DEF invoker, IInv, ReportOK
  <2> QED BY <1>1, <2>1 DEF IInv, ReportOK
<1>5. ChildOK'
  BY <1>1, <1>2 DEF IInv, ChildOK
<1> QED BY <1>3, <1>4, <1>5 DEF IInv

-----------------------------------------------------------------------------
(* The theorem                                                             *)

\* The five sends are those of the script.
LEMMA SendsKeep ==
  IInv /\ (SendHello \/ SendEmit \/ SendProjection \/ SendCancel \/ SendGoodbye) => IInv'
<1>1. /\ Control("Hello").type # "Cancel" /\ EmitFrame(Request).type # "Cancel"
      /\ ProjectionFrame(TRUE).type # "Cancel" /\ Control("Goodbye").type # "Cancel"
      /\ CancelFrame(Request).type = "Cancel"
  BY DEF Control, EmitFrame, ProjectionFrame, CancelFrame, About
<1>2. /\ Script[1] = Control("Hello") /\ Script[2] = EmitFrame(Request)
      /\ Script[3] = ProjectionFrame(TRUE) /\ Script[4] = Control("Goodbye")
  BY DEF Script
<1>3. ASSUME pc = "hello" PROVE Sends(Control("Hello"), "handshake")
  BY <1>1, <1>2, <1>3 DEF Sends, SentBy, CoreFrames
<1>4. ASSUME pc = "emit" PROVE Sends(EmitFrame(Request), "projection")
  BY <1>1, <1>2, <1>4 DEF Sends, SentBy, CoreFrames
<1>5. ASSUME pc = "projection" PROVE Sends(ProjectionFrame(TRUE), "collect")
  <2>1. ProjectionFrame(TRUE) \in CoreFrames
    BY DEF CoreFrames
  <2>2. ASSUME NEW k \in 0 .. 4, SentBy("projection", k)
        PROVE  k \in 0 .. 3 /\ Script[k + 1] = ProjectionFrame(TRUE) /\ SentBy("collect", k + 1)
    <3>1. k = 2 /\ k + 1 = 3
      BY <2>2 DEF SentBy
    <3> QED BY <1>2, <3>1 DEF SentBy, ProjectionFrame
  <2> QED BY <1>1, <1>5, <2>1, <2>2 DEF Sends
<1>6. ASSUME pc = "cancel" PROVE Sends(CancelFrame(Request), "cancelling")
  BY <1>1, <1>6 DEF Sends, CoreFrames
<1>7. ASSUME pc = "goodbye" PROVE Sends(Control("Goodbye"), "exit")
  BY <1>1, <1>2, <1>7 DEF Sends, SentBy, CoreFrames
<1> QED BY <1>3, <1>4, <1>5, <1>6, <1>7, SendKeeps, Zenon
           DEF SendHello, SendEmit, SendProjection, SendCancel, SendGoodbye

\* The invariant says that a success was delivered.
LEMMA InvariantDelivers == IInv => SuccessMeansDelivered
<1> SUFFICES ASSUME IInv, outcome = "success"
             PROVE  /\ cancels = 0
                    /\ clean /\ peer.state = "Closed"
                    /\ \E s \in SourceSets : /\ program = Rendering(s)
                                             /\ emission[1].requestId = Request
                                             /\ emission[1].artifacts = ArtifactsOf(s)
  BY DEF SuccessMeansDelivered
<1>1. /\ report = "success" /\ clean /\ cancels = 0
      /\ emission \in Seq(Outputs(program)) /\ emission # << >>
  BY DEF IInv, ReportOK
<1>2. emission[1] \in Outputs(program)
  BY <1>1
<1>3. PICK s \in SourceSets :
        /\ program = Rendering(s)
        /\ emission[1] = [requestId |-> Request, artifacts |-> ArtifactsOf(s)]
  BY <1>2 DEF Outputs
<1>4. Renders(program)
  BY <1>3, RenderingRenders
<1>5. peer.state = "Closed"
  BY <1>1, <1>4 DEF IInv, ChildOK
<1> QED BY <1>1, <1>3, <1>5

\* Every step keeps the invariant.
LEMMA StepKeeps == IInv /\ [Next]_vars => IInv'
<1> SUFFICES ASSUME IInv, [Next]_vars PROVE IInv'
  OBVIOUS
<1>1. CASE Next
  BY <1>1, LaunchKeeps, SendsKeep, ReceiveFrameKeeps, OthersKeep, PeerReadKeeps,
     PeerWriteKeeps, PeerEndsKeep DEF Next, Invoker
<1>2. CASE UNCHANGED vars
  BY <1>2 DEF vars, invoker, process, history, IInv, WiresOK, ReportOK, ChildOK
<1> QED BY <1>1, <1>2

\* Success is reported only for the whole output of a backend that exited
\* cleanly after Goodbye with its own session closed: never for a part of it,
\* and never once Cancel was written (BackendInvoker.cpp 660-731).  The backend
\* may be any of the programs, render any output, stall, crash or be killed
\* anywhere, over sockets of any capacity.
THEOREM SuccessIsDelivered == Spec => []SuccessMeansDelivered
  BY Initially, StepKeeps, InvariantDelivers, PTL DEF Spec

-----------------------------------------------------------------------------
(* The exchange                                                            *)

\* The packages' main()s, and what is common to them.
Packaged(p) ==
  /\ Len(p) \in Nat /\ Len(p) >= 5 /\ DOMAIN p = 1 .. Len(p)
  /\ \A j \in 1 .. Len(p) :
       p[j].op = IF j \in {1, 3, 4, Len(p)} THEN "read" ELSE "write"

\* The two ends take turns: the k-th frame of an exchange with p is sent by
\* the core when p reads it, and by p when p writes it.
SenderOfTurn(p, k) == IF p[k].op = "read" THEN Core ELSE Backend
Turn(p, k) == IF p[k].op = "read" THEN Script[Reads(k, Len(p)) + 1] ELSE p[k].frame

\* What both sessions are after k turns, but for the results their users take.
Joint(p) ==
  LET after[k \in 0 .. Len(p)] ==
        IF k = 0 THEN NewSession ELSE Consume(after[k - 1], SenderOfTurn(p, k), Turn(p, k))
  IN  after
Like(s, t) ==
  /\ s.state = t.state /\ s.pending = t.pending /\ s.pendingDir = t.pendingDir
  /\ s.request = t.request /\ s.chunk = t.chunk /\ s.path = t.path /\ s.seq = t.seq
  /\ s.bytes = t.bytes /\ s.total = t.total /\ s.artifacts = t.artifacts
Failed(s) == s.state = "Failed"

\* The turns the invoker has had a part in, when it is at c of an exchange of n.
TurnsAt(c, k, n) ==
  /\ c \in {"launch", "hello"} => k = 0
  /\ c = "handshake" => k = 1
  /\ c = "emit" => k = 2
  /\ c = "projection" => k = 3
  /\ c \in {"collect", "cancel"} => k \in 4 .. n - 1
  /\ c = "goodbye" => k = n - 1
  /\ c = "exit" => k = n

\* What is under way: the turns a to k that the child has still to read, or the
\* turns k + 1 to a - 1 that the invoker has still to read.
UnderWay(p, k, a, down, up) ==
  /\ a - 1 <= k => /\ Len(up) = 0 /\ Len(down) = k - (a - 1)
                   /\ \A i \in 1 .. Len(down) : /\ p[(a - 1) + i].op = "read"
                                                /\ down[i] = Turn(p, (a - 1) + i)
  /\ k < a - 1 => /\ Len(down) = 0 /\ Len(up) = (a - 1) - k
                  /\ \A i \in 1 .. Len(up) : /\ p[k + i].op = "write"
                                             /\ up[i] = Turn(p, k + i)

\* Where the child is: at the turn at, or stopped by the turn its session
\* refused, or through with its program.
ChildAt(p) ==
  \/ /\ child \in {"absent", "running"} /\ at \in 1 .. Len(p) + 1
     /\ child = "absent" <=> pc = "launch"
     /\ Like(peer, Joint(p)[at - 1]) /\ ~Failed(peer)
  \/ /\ child \in {"closed", "zombie"} /\ clean
     /\ at = Len(p) + 1 /\ ~Failed(Joint(p)[at - 1])
  \/ /\ child \in {"closed", "zombie"} /\ ~clean
     /\ at \in 1 .. Len(p) /\ ~Failed(Joint(p)[at - 1]) /\ Failed(Joint(p)[at])

\* The invoker after k turns of an exchange with p.
InvokerAt(p, k) ==
  /\ k \in 0 .. Len(p)
  /\ TurnsAt(pc, k, Len(p))
  /\ Like(session, Joint(p)[k]) /\ ~Failed(session)
  /\ session.errors = << >> /\ session.completed = << >>
  /\ p = Mismatched => pc \in {"launch", "hello", "handshake"}

\* An exchange with p that nothing but time has disturbed.
Exchanging(p) ==
  \E k \in 0 .. Len(p) : InvokerAt(p, k) /\ ChildAt(p) /\ UnderWay(p, k, at, toPeer, toCore)

\* The answer the invoker is about to give.
AnswerAt(p) ==
  /\ pc \in {"goodbye", "exit"} =>
       \/ report = "success" /\ Turn(p, Len(p) - 1).type = "Manifest"
       \/ report = "peer_error" /\ Turn(p, Len(p) - 1).type = "Error"
  /\ pc = "eof" => report = "E_PROCESS_EXIT" /\ child \in {"closed", "zombie"} /\ ~clean

TimeOK ==
  /\ late \/ torn \/ cancels # 0 \/ pc \in {"cancel", "cancelling"} => expired
  /\ torn /\ cancels = 0 => pc \in {"cancel", "done"}
  /\ disturbed => pc = "done" \/ child \in {"closed", "zombie"}
  /\ pc # "done" => child # "gone"
  /\ cancels = 0 => pc # "cancelling"

ExchangeOK ==
  program \notin Sessionless /\ cancels = 0 /\ ~disturbed /\ pc # "done" =>
    /\ Exchanging(program)
    /\ ~expired => AnswerAt(program)

ExchangeInv == TimeOK /\ ExchangeOK /\ UndisturbedAnswer

-----------------------------------------------------------------------------
(* Sessions consume frames                                                 *)

\* A sequence of frames consumed one by one, each from its own sender.
IsRun(s, n, D, F, h) ==
  h = [k \in 0 .. n |-> IF k = 0 THEN s ELSE Consume(h[k - 1], D[k], F[k])]

\* Any frames can be consumed one by one.
LEMMA RunExists ==
  ASSUME NEW s, NEW D, NEW F, NEW n \in Nat
  PROVE  \E h : IsRun(s, n, D, F, h)
<1> DEFINE G == {m \in Nat : \E h : IsRun(s, m, D, F, h)}
<1>1. 0 \in G
  <2> DEFINE z == [k \in 0 .. 0 |-> s]
  <2>1. IsRun(s, 0, D, F, z)
    <3>1. \A k \in 0 .. 0 : k = 0
      OBVIOUS
    <3> QED BY <3>1 DEF IsRun
  <2> QED BY <2>1
<1>2. ASSUME NEW m \in G PROVE m + 1 \in G
  <2>1. PICK h : IsRun(s, m, D, F, h)
    OBVIOUS
  <2> DEFINE g == [k \in 0 .. m + 1 |-> IF k = 0 THEN s ELSE Consume(h[k - 1], D[k], F[k])]
  <2>2. \A k \in 0 .. m : g[k] = h[k]
    BY <2>1 DEF IsRun
  <2>3. \A k \in 0 .. m + 1 : k # 0 => k - 1 \in 0 .. m
    OBVIOUS
  <2>4. \A k \in 0 .. m + 1 :
          g[k] = IF k = 0 THEN s ELSE Consume(g[k - 1], D[k], F[k])
    BY <2>2, <2>3
  <2>5. g = [k \in 0 .. m + 1 |-> g[k]]
    OBVIOUS
  <2> HIDE DEF g
  <2>6. IsRun(s, m + 1, D, F, g)
    BY <2>4, <2>5, Zenon DEF IsRun
  <2> QED BY <2>6
<1>3. G \in SUBSET Nat
  OBVIOUS
<1> HIDE DEF G
<1>4. G = Nat
  BY <1>1, <1>2, <1>3, Counting
<1> QED BY <1>4 DEF G

\* Turn by turn, what both sessions are.
IsJoint(p, h) ==
  h = [k \in 0 .. Len(p) |->
         IF k = 0 THEN NewSession ELSE Consume(h[k - 1], SenderOfTurn(p, k), Turn(p, k))]

\* What both sessions are after a turn is what they were before it, with the
\* turn consumed.
LEMMA JointUnfolds ==
  ASSUME NEW p, Len(p) \in Nat
  PROVE  /\ Joint(p)[0] = NewSession
         /\ \A k \in 1 .. Len(p) :
              Joint(p)[k] = Consume(Joint(p)[k - 1], SenderOfTurn(p, k), Turn(p, k))
<1>1. Joint(p) = CHOOSE h : IsJoint(p, h)
  BY Zenon DEF Joint, IsJoint
<1> DEFINE D == [k \in 1 .. Len(p) |-> SenderOfTurn(p, k)]
           F == [k \in 1 .. Len(p) |-> Turn(p, k)]
<1>2. \A k \in 0 .. Len(p) : k # 0 => /\ D[k] = SenderOfTurn(p, k) /\ F[k] = Turn(p, k)
  OBVIOUS
<1> HIDE DEF D, F
<1>3. PICK h : IsRun(NewSession, Len(p), D, F, h)
  BY RunExists
<1>4. \A k \in 0 .. Len(p) :
        (IF k = 0 THEN NewSession ELSE Consume(h[k - 1], D[k], F[k]))
          = IF k = 0 THEN NewSession ELSE Consume(h[k - 1], SenderOfTurn(p, k), Turn(p, k))
  BY <1>2
<1>5. IsJoint(p, h)
  BY <1>3, <1>4, Zenon DEF IsJoint, IsRun
<1>6. IsJoint(p, Joint(p))
  BY <1>1, <1>5
<1>7. \A k \in 0 .. Len(p) :
        Joint(p)[k] = IF k = 0 THEN NewSession
                      ELSE Consume(Joint(p)[k - 1], SenderOfTurn(p, k), Turn(p, k))
  BY <1>6, Zenon DEF IsJoint
<1>8. 0 \in 0 .. Len(p) /\ \A k \in 1 .. Len(p) : k \in 0 .. Len(p) /\ k # 0
  OBVIOUS
<1> QED BY <1>7, <1>8, Zenon

\* The frames in flight, caught up with one by one.
IsCatchUp(s, d, q, h) ==
  h = [k \in 0 .. Len(q) |-> IF k = 0 THEN s ELSE Consume(h[k - 1], d, q[k])]

\* Catching up, when h is what it goes through.
Catching(s, d, q, h) ==
  /\ CaughtUp(s, d, q) = h[Len(q)] /\ h[0] = s
  /\ \A k \in 1 .. Len(q) : h[k] = Consume(h[k - 1], d, q[k])

\* Catching up consumes the frames one by one.
LEMMA CatchesUp ==
  ASSUME NEW s, NEW d, NEW q, Len(q) \in Nat
  PROVE  \E h : Catching(s, d, q, h)
<1> DEFINE g == CHOOSE h : IsCatchUp(s, d, q, h)
<1>1. CaughtUp(s, d, q) = g[Len(q)]
  BY Zenon DEF CaughtUp, IsCatchUp
<1> DEFINE D == [k \in 1 .. Len(q) |-> d]
<1>2. \A k \in 0 .. Len(q) : k # 0 => D[k] = d
  OBVIOUS
<1> HIDE DEF D
<1>3. PICK h : IsRun(s, Len(q), D, q, h)
  BY RunExists
<1>4. \A k \in 0 .. Len(q) :
        (IF k = 0 THEN s ELSE Consume(h[k - 1], D[k], q[k]))
          = IF k = 0 THEN s ELSE Consume(h[k - 1], d, q[k])
  BY <1>2
<1>5. IsCatchUp(s, d, q, h)
  BY <1>3, <1>4, Zenon DEF IsCatchUp, IsRun
<1>6. IsCatchUp(s, d, q, g)
  BY <1>5
<1> HIDE DEF g
<1>7. \A k \in 0 .. Len(q) :
        g[k] = IF k = 0 THEN s ELSE Consume(g[k - 1], d, q[k])
  BY <1>6, Zenon DEF IsCatchUp
<1>8. 0 \in 0 .. Len(q) /\ \A k \in 1 .. Len(q) : k \in 0 .. Len(q) /\ k # 0
  OBVIOUS
<1>9. g[0] = s /\ \A k \in 1 .. Len(q) : g[k] = Consume(g[k - 1], d, q[k])
  BY <1>7, <1>8, Zenon
<1> QED BY <1>1, <1>9 DEF Catching

\* What a session makes of a frame depends on nothing its user takes from it.
LEMMA ConsumeLike ==
  ASSUME NEW s, NEW t, IsSession(s), IsSession(t), Like(s, t), NEW d,
         NEW f, f.type \in FrameTypes
  PROVE  /\ Like(Consume(s, d, f), Consume(t, d, f))
         /\ IsSession(Consume(s, d, f)) /\ IsSession(Consume(t, d, f))
<1> DEFINE WholeInv(x, y) == Like(x, y) /\ IsSession(x) /\ IsSession(y)
<1>0. WholeInv(s, t)
  OBVIOUS
<1>1. WholeInv(Fail(s), Fail(t))
  BY DEF Fail, IsSession, NewSession, Like
<1>2. /\ WholeInv(ResetRequest(s), ResetRequest(t)) /\ ResetRequest(s).pending = "none"
      /\ ResetRequest(s).state = s.state /\ ResetRequest(t).state = t.state
  BY DEF ResetRequest, IsSession, NewSession, Pendings, Like
<1>3. CASE s.state \in {"Failed", "Closed"} \/ f.type = "Invalid"
  BY <1>0, <1>1, <1>3 DEF Consume, Like
<1>4. CASE ~(s.state \in {"Failed", "Closed"} \/ f.type = "Invalid") /\ s.pending # "none"
  <2>1. Consume(s, d, f) = ConsumePendingRaw(s, d, f) /\ Consume(t, d, f) = ConsumePendingRaw(t, d, f)
    BY <1>4 DEF Consume, Like
  <2>2. RawAdmissible(s, f) <=> RawAdmissible(t, f)
    BY DEF RawAdmissible, Like, IsSession, Pendings
  <2>3. CASE d # s.pendingDir \/ f.trailingRaw \/ ~RawAdmissible(s, f)
    BY <1>1, <2>1, <2>2, <2>3 DEF ConsumePendingRaw, Like
  <2>4. CASE ~(d # s.pendingDir \/ f.trailingRaw \/ ~RawAdmissible(s, f))
    <3>1. CASE s.pending = "skipped"
      <4>1. \A x \in {s, t} : Consume(x, d, f) = [x EXCEPT !.pending = "none"]
        BY <2>1, <2>2, <2>4, <3>1 DEF ConsumePendingRaw, Like
      <4> QED BY <4>1 DEF IsSession, NewSession, Pendings, Like
    <3>2. CASE s.pending = "projection"
      <4> DEFINE E(x) == [x EXCEPT !.pending = "none", !.state = "Emitting",
                                   !.accepted = Append(@, x.request)]
      <4>1. Consume(s, d, f) = E(s) /\ Consume(t, d, f) = E(t)
        BY <2>1, <2>2, <2>4, <3>2 DEF ConsumePendingRaw, Like
      <4> QED BY <4>1 DEF IsSession, NewSession, Pendings, Like
    <3>3. CASE s.pending = "artifact"
      <4>1. Consume(s, d, f) = ApplyArtifactBytes(s, f) /\ Consume(t, d, f) = ApplyArtifactBytes(t, f)
        BY <2>1, <2>2, <2>4, <3>3 DEF ConsumePendingRaw, Like
      <4> QED BY <4>1 DEF ApplyArtifactBytes, IsSession, NewSession, Pendings, Like
    <3> QED BY <1>4, <3>1, <3>2, <3>3 DEF IsSession, Pendings
  <2> QED BY <2>3, <2>4
<1>5. CASE ~(s.state \in {"Failed", "Closed"} \/ f.type = "Invalid") /\ s.pending = "none"
  <2>1. CASE f.type = "Unknown"
    BY <1>0, <1>1, <1>5, <2>1 DEF Consume, ConsumeUnknown, IsSession, NewSession, Pendings, Like
  <2>2. CASE f.type \in RawTypes
    BY <1>1, <1>5, <2>2 DEF Consume, RawTypes, Like
  <2>3. CASE f.type \notin RawTypes \cup {"Unknown"}
    <3>1. Consume(s, d, f) = ConsumeKnown(s, d, f) /\ Consume(t, d, f) = ConsumeKnown(t, d, f)
      BY <1>5, <2>3 DEF Consume, Like
    <3>0. ControlAdmissible(s, d, f) <=> ControlAdmissible(t, d, f)
      BY DEF ControlAdmissible, ChunkAdmissible, ManifestAdmissible, Like
    <3>2. CASE ~ControlAdmissible(s, d, f)
      BY <1>1, <3>0, <3>1, <3>2 DEF ConsumeKnown
    <3>3. CASE ControlAdmissible(s, d, f)
      <4>1. Consume(s, d, f) = ApplyControl(s, d, f) /\ Consume(t, d, f) = ApplyControl(t, d, f)
        BY <3>0, <3>1, <3>3 DEF ConsumeKnown
      <4>2. CASE f.type = "Manifest"
        <5> DEFINE E(x) == [ResetRequest(x) EXCEPT !.state = "Ready",
                             !.completed = Append(@, [requestId |-> x.request,
                                                      artifacts |-> x.artifacts])]
        <5>1. Consume(s, d, f) = E(s) /\ Consume(t, d, f) = E(t)
          BY <4>1, <4>2 DEF ApplyControl
        <5> QED BY <1>2, <5>1, ZenonT(40) DEF IsSession, NewSession, Pendings, Like
      <4>3. CASE f.type \in {"Hello", "Capabilities", "Goodbye", "Cancel"}
        <5>1. PICK q : Consume(s, d, f) = [s EXCEPT !.state = q] /\ Consume(t, d, f) = [t EXCEPT !.state = q]
          BY <4>1, <4>3 DEF ApplyControl
        <5> QED BY <5>1 DEF IsSession, NewSession, Pendings, Like
      <4>4. CASE f.type = "Emit"
        <5> DEFINE E(x) == [x EXCEPT !.request = f.requestId, !.pending = "projection",
                                     !.pendingDir = d]
        <5>1. Consume(s, d, f) = E(s) /\ Consume(t, d, f) = E(t)
          BY <4>1, <4>4 DEF ApplyControl
        <5> QED BY <5>1 DEF IsSession, NewSession, Pendings, Like
      <4>7. CASE f.type = "ArtifactChunk"
        <5> DEFINE E(x) == [x EXCEPT !.path = f.path, !.pending = "artifact", !.pendingDir = d,
                   !.chunk = [seq |-> f.seq, byteLen |-> f.byteLen, final |-> f.final]]
        <5>1. Consume(s, d, f) = E(s) /\ Consume(t, d, f) = E(t)
          BY <4>1, <4>7 DEF ApplyControl
        <5> QED BY <5>1 DEF IsSession, NewSession, Pendings, Like
      <4>5. CASE f.type = "Cancelled"
        <5> DEFINE E(x) == [ResetRequest(x) EXCEPT !.state = "Ready"]
        <5>1. Consume(s, d, f) = E(s) /\ Consume(t, d, f) = E(t)
          BY <4>1, <4>5 DEF ApplyControl
        <5> QED BY <1>2, <5>1, ZenonT(40) DEF IsSession, NewSession, Pendings, Like
      <4>6. CASE f.type = "Error"
        <5>1. s.state \in {"AwaitingCapabilities", "Emitting"}
          BY <3>3, <4>6 DEF ControlAdmissible, StatesOf
        <5>2. CASE s.state = "AwaitingCapabilities"
          <6> DEFINE E(x) == [x EXCEPT !.state = "Failed", !.errors = Append(@, f.requestId)]
          <6>1. Consume(s, d, f) = E(s) /\ Consume(t, d, f) = E(t)
            BY <4>1, <4>6, <5>2 DEF ApplyControl, Like
          <6> QED BY <6>1 DEF IsSession, NewSession, Pendings, Like
        <5>3. CASE s.state = "Emitting"
          <6> DEFINE E(x) == [ResetRequest(x) EXCEPT !.state = "Ready",
                                                     !.errors = Append(@, f.requestId)]
          <6>1. Consume(s, d, f) = E(s) /\ Consume(t, d, f) = E(t)
            BY <4>1, <4>6, <5>3 DEF ApplyControl, Like
          <6> QED BY <1>2, <6>1, ZenonT(40) DEF IsSession, NewSession, Pendings, Like
        <5> QED BY <5>1, <5>2, <5>3
      <4> QED BY <1>5, <2>3, <4>2, <4>3, <4>4, <4>5, <4>6, <4>7 DEF FrameTypes, RawTypes
    <3> QED BY <3>2, <3>3
  <2> QED BY <2>1, <2>2, <2>3
<1> QED BY <1>3, <1>4, <1>5 DEF IsSession

-----------------------------------------------------------------------------
(* A program, place by place                                               *)

\* Pairs one after the other: the i-th pair is at 2i - 1 and 2i.
LEMMA FlattenPairs ==
  ASSUME NEW B, NEW s \in Seq(Seq(B)), \A i \in 1 .. Len(s) : Len(s[i]) = 2
  PROVE  /\ Len(FlattenSeq(s)) = 2 * Len(s)
         /\ \A i \in 1 .. Len(s) : /\ FlattenSeq(s)[2 * i - 1] = s[i][1]
                                   /\ FlattenSeq(s)[2 * i] = s[i][2]
<1> DEFINE n == Len(s)
           h == CHOOSE y : IsFlat(s, n, y)
           Good(k) == /\ h[k] \in Seq(B) /\ Len(h[k]) = 2 * k
                      /\ \A i \in 1 .. k : h[k][2 * i - 1] = s[i][1] /\ h[k][2 * i] = s[i][2]
           G == {k \in Nat : k \in 1 .. n => Good(k)}
<1>1. n \in Nat /\ \A i \in 1 .. n : s[i] \in Seq(B) /\ Len(s[i]) = 2
  OBVIOUS
<1> HIDE DEF n
<1>2. IsFlat(s, n, h)
  BY <1>1, FlatExists
<1> HIDE DEF h
<1>3. ASSUME NEW k \in G PROVE k + 1 \in G
  <2>1. k \in Nat /\ k + 1 \in Nat
    OBVIOUS
  <2> SUFFICES ASSUME k + 1 \in 1 .. n PROVE Good(k + 1)
    BY <2>1
  <2>2. h[k + 1] = FlatBody(s, h, k + 1)
    BY <1>2 DEF IsFlat
  <2>3. s[k + 1] \in Seq(B) /\ Len(s[k + 1]) = 2
    BY <1>1
  <2>4. CASE k = 0
    <3>1. h[k + 1] = s[k + 1]
      BY <2>2, <2>4 DEF FlatBody
    <3>2. \A i \in 1 .. k + 1 : i = 1 /\ 2 * i - 1 = 1 /\ 2 * i = 2 /\ k + 1 = 1
      BY <2>4
    <3>3. Len(h[k + 1]) = 2 * (k + 1)
      BY <2>3, <2>4, <3>1
    <3> QED BY <2>3, <3>1, <3>2, <3>3
  <2>5. CASE k # 0
    <3>1. k \in 1 .. n /\ (k + 1) - 1 = k /\ k + 1 # 1
      BY <1>1, <2>1, <2>5
    <3>2. Good(k)
      BY <3>1
    <3>3. h[k + 1] = h[k] \o s[k + 1]
      BY <2>2, <3>1 DEF FlatBody
    <3>4. PICK a, b : a = h[k] /\ b = s[k + 1]
      OBVIOUS
    <3>5. /\ a \in Seq(B) /\ b \in Seq(B) /\ Len(a) = 2 * k /\ Len(b) = 2
          /\ \A i \in 1 .. k : a[2 * i - 1] = s[i][1] /\ a[2 * i] = s[i][2]
      BY <2>3, <3>2, <3>4
    <3>6. /\ a \o b \in Seq(B) /\ Len(a \o b) = 2 * (k + 1)
          /\ \A j \in 1 .. 2 * k : (a \o b)[j] = a[j]
          /\ (a \o b)[2 * k + 1] = b[1] /\ (a \o b)[2 * k + 2] = b[2]
      <4>1. PICK c : c = a \o b
        OBVIOUS
      <4>2. Joins(B, c, a, 2 * k, b, 2)
        BY <3>5, <4>1, Joined
      <4>3. 2 * k + 2 = 2 * (k + 1) /\ 1 \in 1 .. 2 /\ 2 \in 1 .. 2
        BY <2>1
      <4> QED BY <4>1, <4>2, <4>3 DEF Joins
    <3>7. ASSUME NEW i \in 1 .. k + 1
          PROVE  (a \o b)[2 * i - 1] = s[i][1] /\ (a \o b)[2 * i] = s[i][2]
      <4>1. CASE i = k + 1
        <5>1. 2 * i - 1 = 2 * k + 1 /\ 2 * i = 2 * k + 2
          BY <2>1, <4>1
        <5> QED BY <3>4, <3>6, <4>1, <5>1
      <4>2. CASE i \in 1 .. k
        <5>1. 2 * i - 1 \in 1 .. 2 * k /\ 2 * i \in 1 .. 2 * k
          BY <2>1, <4>2
        <5> QED BY <3>5, <3>6, <4>2, <5>1
      <4>3. i = k + 1 \/ i \in 1 .. k
        BY <2>1
      <4> QED BY <4>1, <4>2, <4>3
    <3>8. h[k + 1] = a \o b
      BY <3>3, <3>4
    <3> QED BY <3>6, <3>7, <3>8
  <2> QED BY <2>4, <2>5
<1>4. 0 \in G
  OBVIOUS
<1>5. G \in SUBSET Nat
  OBVIOUS
<1> HIDE DEF G
<1>6. G = Nat
  BY <1>3, <1>4, <1>5, Counting
<1>7. n # 0 => Good(n)
  <2>1. n \in G /\ (n # 0 => n \in 1 .. n)
    BY <1>1, <1>6
  <2> QED BY <2>1 DEF G
<1>8. FlattenSeq(s) = IF n = 0 THEN s ELSE h[n]
  BY FlattenUnfolds DEF n, h
<1>9. n = 0 => Len(s) = 2 * n /\ \A i \in 1 .. n : FALSE
  BY DEF n
<1>10. n = Len(s)
  BY DEF n
<1>11. CASE n = 0
  BY <1>8, <1>9, <1>10, <1>11
<1>12. CASE n # 0
  BY <1>7, <1>8, <1>10, <1>12
<1> QED BY <1>11, <1>12

\* What a child that renders writes, place by place.
Places(p, s) ==
  /\ Len(p) = 2 * Len(s) + 6 /\ Len(s) \in Nat
  /\ p[2].frame = Capabilities(TRUE)
  /\ \A i \in 1 .. Len(s) :
       /\ p[3 + 2 * i].frame = ChunkFrame(Request, s[i].path, 0, TRUE, Len(s[i].content))
       /\ p[4 + 2 * i].frame = BytesFrame(s[i].content)
  /\ p[2 * Len(s) + 5].frame = ManifestFrame(Request, ArtifactsOf(s))

\* A child that renders writes its files in order, and then the manifest.
LEMMA RenderingPlaces ==
  ASSUME NEW s \in SourceSets, NEW p, p = Rendering(s)
  PROVE  Packaged(p) /\ Places(p, s)
<1> DEFINE W == Writes(PlainFrames)
           B == PlainOps \cup {Manifest(s)}
           parts == [i \in DOMAIN s |-> FileOps(s[i])]
           Files == [path : Paths, content : Payloads]
           o == Opening(TRUE)
<1>1. \A x \in Files : FileOps(x) \in Seq(W) /\ Len(FileOps(x)) = 2
  <2> SUFFICES ASSUME NEW x \in Files PROVE FileOps(x) \in Seq(W) /\ Len(FileOps(x)) = 2
    OBVIOUS
  <2>1. PICK q \in Paths, c \in Payloads : q = x.path /\ c = x.content
    OBVIOUS
  <2>2. ChunkFrame(Request, q, 0, TRUE, Len(c)) \in PlainFrames /\ BytesFrame(c) \in PlainFrames
    <3>1. ChunkFrame(Request, q, 0, TRUE, Len(c)) \in Headers(c)
      BY DEF Headers
    <3> QED BY <3>1 DEF PlainFrames
  <2>3. /\ Write(ChunkFrame(Request, x.path, 0, TRUE, Len(x.content))) \in W
        /\ Write(BytesFrame(x.content)) \in W
    BY <2>1, <2>2 DEF Writes
  <2> HIDE DEF W
  <2>4. FileOps(x) \in Seq(W)
    BY <2>3, Sequences DEF FileOps
  <2>5. Len(FileOps(x)) = 2
    BY DEF FileOps
  <2> QED BY <2>4, <2>5
<1>2. s \in Seq(Files)
  BY InvocationAssumption DEF InvocationAssumption
<1>3. /\ parts \in Seq(Seq(W)) /\ Len(parts) = Len(s) /\ Len(s) \in Nat
      /\ \A i \in 1 .. Len(s) : parts[i] = FileOps(s[i]) /\ Len(parts[i]) = 2
  <2> HIDE DEF W, Files
  <2>1. DOMAIN s = 1 .. Len(s) /\ Len(s) \in Nat /\ \A i \in 1 .. Len(s) : s[i] \in Files
    BY <1>2
  <2>2. parts \in [1 .. Len(s) -> Seq(W)] /\ \A i \in 1 .. Len(s) : parts[i] = FileOps(s[i])
    BY <1>1, <2>1
  <2>3. \A i \in 1 .. Len(s) : Len(FileOps(s[i])) = 2
    BY <1>1, <2>1
  <2> HIDE DEF parts
  <2> QED BY <2>1, <2>2, <2>3
<1> DEFINE e == FlattenSeq(parts)
           m == Len(s)
<1>4. /\ e \in Seq(W) /\ Len(e) = 2 * m
      /\ \A i \in 1 .. m : e[2 * i - 1] = parts[i][1] /\ e[2 * i] = parts[i][2]
  <2> HIDE DEF W, parts
  <2> QED BY <1>3, FlattenType, FlattenPairs
<1>5. p = o \o (e \o <<Manifest(s)>>) \o <<Read>>
  BY DEF Rendering, Emission, Manifest, FileOps
<1>6. /\ o \in Seq(B) /\ Len(o) = 4 /\ e \in Seq(B)
      /\ Manifest(s) \in B /\ Read \in B
  <2>1. o \in Seq(PlainOps) /\ Len(o) = 4
    <3>1. TRUE \in BOOLEAN
      OBVIOUS
    <3> QED BY <3>1, OpeningIsPlain
  <2>2. W \in SUBSET B /\ PlainOps \in SUBSET B /\ Read \in B /\ Manifest(s) \in B
    BY DEF PlainOps
  <2> HIDE DEF W, B, o, e
  <2> QED BY <1>4, <2>1, <2>2
<1> HIDE DEF W, B, o, e, parts
<1>7. Spans(B, p, o, e, 2 * m, Manifest(s), Read)
  <2>1. Spans(B, o \o (e \o <<Manifest(s)>>) \o <<Read>>, o, e, Len(e), Manifest(s), Read)
    BY <1>6, Positions
  <2> QED BY <1>4, <1>5, <2>1
<1>8. /\ p \in Seq(B) /\ Len(p) = 2 * m + 6 /\ m \in Nat
      /\ \A j \in 1 .. 4 : p[j] = o[j]
      /\ \A j \in 1 .. 2 * m : p[4 + j] = e[j]
      /\ p[2 * m + 5] = Manifest(s)
  BY <1>3, <1>7 DEF Spans
<1>9. ASSUME NEW i \in 1 .. m
      PROVE  /\ p[3 + 2 * i].frame = ChunkFrame(Request, s[i].path, 0, TRUE, Len(s[i].content))
             /\ p[4 + 2 * i].frame = BytesFrame(s[i].content)
  <2>1. /\ 2 * i - 1 \in 1 .. 2 * m /\ 2 * i \in 1 .. 2 * m
        /\ 4 + (2 * i - 1) = 3 + 2 * i
    BY <1>8
  <2>2. p[3 + 2 * i] = FileOps(s[i])[1] /\ p[4 + 2 * i] = FileOps(s[i])[2]
    <3>1. p[4 + (2 * i - 1)] = e[2 * i - 1] /\ p[4 + 2 * i] = e[2 * i]
      BY <1>8, <2>1
    <3> QED BY <1>3, <1>4, <2>1, <3>1
  <2>3. \A f : Write(f).frame = f
    BY DEF Write
  <2>4. /\ FileOps(s[i])[1] = Write(ChunkFrame(Request, s[i].path, 0, TRUE, Len(s[i].content)))
        /\ FileOps(s[i])[2] = Write(BytesFrame(s[i].content))
    BY DEF FileOps
  <2> QED BY <2>2, <2>3, <2>4
<1>10. p[2].frame = Capabilities(TRUE)
  <2>1. p[2] = o[2]
    BY <1>8
  <2>2. o[2] = Write(Capabilities(TRUE))
    BY DEF o, Opening
  <2> QED BY <2>1, <2>2 DEF Write
<1>11. Manifest(s).frame = ManifestFrame(Request, ArtifactsOf(s))
  BY DEF Manifest, Write
<1>12. Renders(p)
  BY RenderingRenders
<1>13. Packaged(p)
  <2>1. Len(p) >= 5 /\ DOMAIN p = 1 .. Len(p) /\ Len(p) \in Nat
    BY <1>8
  <2>2. \A b \in B : b.op = "read" \/ b.op = "write"
    BY DEF B, PlainOps, Writes, Write, Read, Manifest
  <2>3. \A j \in 1 .. Len(p) : p[j] \in B
    BY <1>8
  <2>4. \A j \in 1 .. Len(p) : (p[j].op = "read") <=> (j \in {1, 3, 4, Len(p)})
    BY <1>12 DEF Renders
  <2> QED BY <2>1, <2>2, <2>3, <2>4 DEF Packaged
<1> QED BY <1>8, <1>9, <1>10, <1>11, <1>13 DEF Places

\* A backend that refuses or does not match, place by place.
LEMMA OtherPlaces ==
  /\ Packaged(Refusing) /\ Len(Refusing) = 6
  /\ Refusing[2].frame = Capabilities(TRUE) /\ Refusing[5].frame = ErrorFrame(Request)
  /\ Packaged(Mismatched) /\ Len(Mismatched) = 5
  /\ Mismatched[2].frame = Capabilities(FALSE)
<1>1. /\ Read.op = "read" /\ \A f : Write(f).op = "write" /\ Write(f).frame = f
  BY DEF Read, Write
<1>2. /\ Len(Refusing) = 6 /\ DOMAIN Refusing = 1 .. 6
      /\ Refusing[1] = Read /\ Refusing[2] = Write(Capabilities(TRUE))
      /\ Refusing[3] = Read /\ Refusing[4] = Read
      /\ Refusing[5] = Write(ErrorFrame(Request)) /\ Refusing[6] = Read
  BY DEF Refusing, Opening
<1>3. /\ Len(Mismatched) = 5 /\ DOMAIN Mismatched = 1 .. 5
      /\ Mismatched[1] = Read /\ Mismatched[2] = Write(Capabilities(FALSE))
      /\ Mismatched[3] = Read /\ Mismatched[4] = Read /\ Mismatched[5] = Read
  BY DEF Mismatched, Opening
<1>4. Packaged(Refusing)
  <2>1. ASSUME NEW j \in 1 .. 6
        PROVE  Refusing[j].op = IF j \in {1, 3, 4, 6} THEN "read" ELSE "write"
    <3>1. j = 1 \/ j = 2 \/ j = 3 \/ j = 4 \/ j = 5 \/ j = 6
      OBVIOUS
    <3> QED BY <1>1, <1>2, <3>1
  <2> QED BY <1>2, <2>1 DEF Packaged
<1>5. Packaged(Mismatched)
  <2>1. ASSUME NEW j \in 1 .. 5
        PROVE  Mismatched[j].op = IF j \in {1, 3, 4, 5} THEN "read" ELSE "write"
    <3>1. j = 1 \/ j = 2 \/ j = 3 \/ j = 4 \/ j = 5
      OBVIOUS
    <3> QED BY <1>1, <1>3, <3>1
  <2> QED BY <1>3, <2>1 DEF Packaged
<1> QED BY <1>1, <1>2, <1>3, <1>4, <1>5

\* A package is one that renders, refuses or does not match.
Kind(p) ==
  \/ p = Mismatched
  \/ p = Refusing
  \/ \E s \in SourceSets : p = Rendering(s)

\* The packages are packages.
LEMMA PackagesAre ==
  ASSUME NEW p \in Programs, p \notin Sessionless
  PROVE  Kind(p) /\ Packaged(p) /\ p[2].frame = Capabilities(p # Mismatched)
<1>1. Kind(p)
  BY DEF Programs, Kind
<1>2. CASE p = Mismatched
  <2>1. (p # Mismatched) = FALSE
    BY <1>2
  <2> QED BY <1>1, <1>2, <2>1, OtherPlaces
<1>3. CASE p = Refusing
  <2>1. (p # Mismatched) = TRUE
    BY <1>3, OtherPlaces
  <2> QED BY <1>1, <1>3, <2>1, OtherPlaces
<1>4. CASE \E s \in SourceSets : p = Rendering(s)
  <2>1. PICK s \in SourceSets : p = Rendering(s)
    BY <1>4
  <2>2. Packaged(p) /\ Places(p, s)
    BY <2>1, RenderingPlaces
  <2>3. Len(p) >= 6 /\ Len(p) # 5
    BY <2>2 DEF Places
  <2>4. (p # Mismatched) = TRUE
    BY <2>3, OtherPlaces
  <2> QED BY <1>1, <2>2, <2>4 DEF Places
<1> QED BY <1>1, <1>2, <1>3, <1>4 DEF Kind

\* The turns every exchange has.
LEMMA TurnsAre ==
  ASSUME NEW p, Packaged(p), NEW n, n = Len(p)
  PROVE  /\ Turn(p, 1) = Control("Hello") /\ SenderOfTurn(p, 1) = Core
         /\ Turn(p, 2) = p[2].frame /\ SenderOfTurn(p, 2) = Backend
         /\ Turn(p, 3) = EmitFrame(Request) /\ SenderOfTurn(p, 3) = Core
         /\ Turn(p, 4) = ProjectionFrame(TRUE) /\ SenderOfTurn(p, 4) = Core
         /\ Turn(p, n) = Control("Goodbye") /\ SenderOfTurn(p, n) = Core
         /\ \A k \in 5 .. n - 1 : Turn(p, k) = p[k].frame /\ SenderOfTurn(p, k) = Backend
<1>1. n \in Nat /\ n >= 5
  BY DEF Packaged
<1>2. \A j \in 1 .. n : p[j].op = IF j \in {1, 3, 4, n} THEN "read" ELSE "write"
  BY DEF Packaged
<1>3. /\ Script[1] = Control("Hello") /\ Script[2] = EmitFrame(Request)
      /\ Script[3] = ProjectionFrame(TRUE) /\ Script[4] = Control("Goodbye")
  BY DEF Script
<1>4. /\ Reads(1, n) + 1 = 1 /\ Reads(3, n) + 1 = 2 /\ Reads(4, n) + 1 = 3 /\ Reads(n, n) + 1 = 4
  BY <1>1 DEF Reads
<1>5. /\ p[1].op = "read" /\ p[3].op = "read" /\ p[4].op = "read" /\ p[n].op = "read"
      /\ p[2].op # "read"
  <2>1. 1 \in 1 .. n /\ 2 \in 1 .. n /\ 3 \in 1 .. n /\ 4 \in 1 .. n /\ n \in 1 .. n
        /\ 2 \notin {1, 3, 4, n}
    BY <1>1
  <2> QED BY <1>2, <2>1
<1>6. ASSUME NEW k \in 5 .. n - 1 PROVE p[k].op # "read"
  <2>1. k \in 1 .. n /\ k \notin {1, 3, 4, n}
    BY <1>1
  <2> QED BY <1>2, <2>1
<1> QED BY <1>3, <1>4, <1>5, <1>6 DEF Turn, SenderOfTurn

\* Every turn is a frame the other end can read.
LEMMA TurnTypes ==
  ASSUME NEW p \in Programs, Packaged(p), NEW k \in 1 .. Len(p)
  PROVE  Turn(p, k).type \in FrameTypes
<1>1. CASE p[k].op = "read"
  <2>1. /\ Script[1] \in CoreFrames /\ Script[2] \in CoreFrames
        /\ Script[3] \in CoreFrames /\ Script[4] \in CoreFrames
    BY DEF Script, CoreFrames
  <2>2. Reads(k, Len(p)) + 1 \in 1 .. 4
    <3>1. Len(p) \in Nat /\ k <= Len(p)
      BY DEF Packaged
    <3>2. Reads(k, Len(p)) \in {0, 1, 2, 3}
      BY <3>1 DEF Reads
    <3> QED BY <3>2
  <2>3. Turn(p, k) \in CoreFrames
    <3>1. Turn(p, k) = Script[Reads(k, Len(p)) + 1]
      BY <1>1 DEF Turn
    <3>2. \A i \in 1 .. 4 : i = 1 \/ i = 2 \/ i = 3 \/ i = 4
      OBVIOUS
    <3> QED BY <2>1, <2>2, <3>1, <3>2
  <2> QED BY <2>3, PlainTypes
<1>2. CASE p[k].op # "read"
  <2>1. p[k].op = "write" /\ k \in DOMAIN p
    BY <1>2 DEF Packaged
  <2> QED BY <1>2, <2>1, WritesAreSpoken DEF Turn, Speaks
<1> QED BY <1>1, <1>2

-----------------------------------------------------------------------------
(* What the joint session is after each turn                               *)

\* The states of the handshake.
Fresh(x) ==
  /\ IsSession(x) /\ x.pending = "none" /\ x.request = NoRequest /\ x.path = NoPath
  /\ x.seq = 0 /\ x.bytes = << >> /\ x.total = 0 /\ x.artifacts = NoArtifacts

\* The request is accepted by the fourth turn.
LEMMA Opened ==
  ASSUME NEW p \in Programs, Packaged(p), NEW b \in BOOLEAN, p[2].frame = Capabilities(b),
         NEW j, j = Joint(p)
  PROVE  /\ j[0].state = "Init" /\ j[1].state = "AwaitingCapabilities"
         /\ j[2].state = "Ready" /\ j[3].state = "Ready" /\ j[4].state = "Emitting"
         /\ Fresh([j[4] EXCEPT !.request = NoRequest]) /\ IsSession(j[4])
         /\ j[4].request = Request
<1>1. Len(p) \in Nat /\ Len(p) >= 5
  BY DEF Packaged
<1>2. /\ j[0] = NewSession
      /\ j[1] = Consume(j[0], Core, Control("Hello"))
      /\ j[2] = Consume(j[1], Backend, Capabilities(b))
      /\ j[3] = Consume(j[2], Core, EmitFrame(Request))
      /\ j[4] = Consume(j[3], Core, ProjectionFrame(TRUE))
  <2>1. 1 \in 1 .. Len(p) /\ 2 \in 1 .. Len(p) /\ 3 \in 1 .. Len(p) /\ 4 \in 1 .. Len(p)
    BY <1>1
  <2>2. 1 - 1 = 0 /\ 2 - 1 = 1 /\ 3 - 1 = 2 /\ 4 - 1 = 3
    OBVIOUS
  <2>3. /\ j[0] = NewSession
        /\ j[1] = Consume(j[1 - 1], SenderOfTurn(p, 1), Turn(p, 1))
        /\ j[2] = Consume(j[2 - 1], SenderOfTurn(p, 2), Turn(p, 2))
        /\ j[3] = Consume(j[3 - 1], SenderOfTurn(p, 3), Turn(p, 3))
        /\ j[4] = Consume(j[4 - 1], SenderOfTurn(p, 4), Turn(p, 4))
    BY <1>1, <2>1, JointUnfolds
  <2> QED BY <2>2, <2>3, TurnsAre
<1>3. Fresh(j[0]) /\ j[0].state = "Init"
  BY <1>2 DEF Fresh, IsSession, NewSession, Pendings
<1>4. Fresh(j[1]) /\ j[1].state = "AwaitingCapabilities"
  <2> DEFINE f == Control("Hello")
  <2>1. f.type = "Hello" /\ f.ok
    BY DEF Control
  <2> HIDE DEF f
  <2>2. ControlAdmissible(j[0], Core, f)
    BY <1>3, <2>1 DEF ControlAdmissible, SenderOf, StatesOf
  <2>3. Consume(j[0], Core, f) = ApplyControl(j[0], Core, f)
    BY <1>3, <2>1, <2>2 DEF Consume, ConsumeKnown, RawTypes, Fresh
  <2>4. Consume(j[0], Core, f) = [j[0] EXCEPT !.state = "AwaitingCapabilities"]
    BY <2>1, <2>3 DEF ApplyControl
  <2> QED BY <1>2, <1>3, <2>4 DEF Fresh, IsSession, NewSession, f
<1>5. Fresh(j[2]) /\ j[2].state = "Ready"
  <2> DEFINE f == Capabilities(b)
  <2>1. f.type = "Capabilities" /\ f.ok
    BY DEF Capabilities
  <2> HIDE DEF f
  <2>2. ControlAdmissible(j[1], Backend, f)
    BY <1>4, <2>1 DEF ControlAdmissible, SenderOf, StatesOf
  <2>3. Consume(j[1], Backend, f) = ApplyControl(j[1], Backend, f)
    BY <1>4, <2>1, <2>2 DEF Consume, ConsumeKnown, RawTypes, Fresh
  <2>4. Consume(j[1], Backend, f) = [j[1] EXCEPT !.state = "Ready"]
    BY <2>1, <2>3 DEF ApplyControl
  <2> QED BY <1>2, <1>4, <2>4 DEF Fresh, IsSession, NewSession, f
<1>6. /\ j[3] = [j[2] EXCEPT !.request = Request, !.pending = "projection", !.pendingDir = Core]
  <2> DEFINE f == EmitFrame(Request)
  <2>1. f.type = "Emit" /\ f.ok /\ f.requestId = Request
    BY DEF EmitFrame, About
  <2>0. Request # NoRequest
    BY InvocationAssumption, ProtocolAssumption DEF InvocationAssumption, ProtocolAssumption
  <2> HIDE DEF f
  <2>2. ControlAdmissible(j[2], Core, f)
    BY <1>5, <2>0, <2>1 DEF ControlAdmissible, SenderOf, StatesOf
  <2>3. Consume(j[2], Core, f) = ApplyControl(j[2], Core, f)
    BY <1>5, <2>1, <2>2 DEF Consume, ConsumeKnown, RawTypes, Fresh
  <2> QED BY <1>2, <2>1, <2>3 DEF ApplyControl, f
<1>7. /\ IsSession(j[3]) /\ j[3].state = "Ready" /\ j[3].pending = "projection"
      /\ j[3].pendingDir = Core
  BY <1>5, <1>6 DEF Fresh, IsSession, NewSession, Pendings
<1>8. j[4] = [j[3] EXCEPT !.pending = "none", !.state = "Emitting",
                          !.accepted = Append(@, j[3].request)]
  <2> DEFINE f == ProjectionFrame(TRUE)
  <2>1. f.type = "ProjectionBytes" /\ f.ok /\ ~f.trailingRaw
    BY DEF ProjectionFrame
  <2> HIDE DEF f
  <2>2. RawAdmissible(j[3], f)
    BY <1>7, <2>1 DEF RawAdmissible
  <2>3. Consume(j[3], Core, f) = ConsumePendingRaw(j[3], Core, f)
    BY <1>7, <2>1 DEF Consume
  <2> QED BY <1>2, <1>7, <2>1, <2>2, <2>3 DEF ConsumePendingRaw, f
<1>9. /\ j[4].state = "Emitting" /\ IsSession(j[4]) /\ j[4].request = Request
  BY <1>5, <1>6, <1>7, <1>8 DEF Fresh, IsSession, NewSession, Pendings
<1>10. Fresh([j[4] EXCEPT !.request = NoRequest])
  BY <1>5, <1>6, <1>7, <1>8 DEF Fresh, IsSession, NewSession, Pendings
<1> QED BY <1>3, <1>4, <1>5, <1>7, <1>9, <1>10

\* The first i files of an output: their paths, the size of their contents, and
\* whether they are within the limits.
FirstPaths(s, i) == {s[j].path : j \in 1 .. i}
Sizes(s) == [j \in DOMAIN s |-> Len(s[j].content)]
Size(s, i) == SumFunctionOnSet(Sizes(s), 1 .. i)
Distinct(s, i) == \A j, k \in 1 .. i : s[j].path = s[k].path => j = k
Fit(s, i) == Distinct(s, i) /\ i <= MaxArtifacts /\ Size(s, i) <= MaxTotalBytes

\* A session that has assembled the first i files of s.
Rendered(x, s, i) ==
  /\ IsSession(x) /\ x.state = "Emitting" /\ x.pending = "none" /\ x.request = Request
  /\ x.path = NoPath /\ x.seq = 0 /\ x.bytes = << >> /\ x.total = Size(s, i)
  /\ DOMAIN x.artifacts = FirstPaths(s, i)
  /\ x.artifacts = [q \in DOMAIN x.artifacts |-> x.artifacts[q]]
  /\ \A j \in 1 .. i : x.artifacts[s[j].path] = s[j].content

\* The paths of the first files are as many as the files, and one more is new.
LEMMA PathsCount ==
  ASSUME NEW s, NEW i \in Nat
  PROVE  /\ IsFiniteSet(FirstPaths(s, i)) /\ Cardinality(FirstPaths(s, i)) \in Nat
         /\ (Cardinality(FirstPaths(s, i)) = i) <=> Distinct(s, i)
<1> DEFINE S == 1 .. i
           T == FirstPaths(s, i)
           f == [j \in S |-> s[j].path]
<1>1. IsFiniteSet(S) /\ Cardinality(S) = i
  <2>1. 1 \in Int /\ i \in Int
    OBVIOUS
  <2>2. IsFiniteSet(1 .. i) /\ Cardinality(1 .. i) = IF 1 > i THEN 0 ELSE i - 1 + 1
    BY <2>1, FS_Interval
  <2> QED BY <2>2
<1>2. f \in Surjection(S, T)
  <2>1. f \in [S -> T]
    BY DEF FirstPaths
  <2>2. \A t \in T : \E j \in S : f[j] = t
    BY DEF FirstPaths
  <2> HIDE DEF f
  <2> QED BY <2>1, <2>2, Zenon DEF Surjection
<1>3. /\ IsFiniteSet(T)
      /\ Cardinality(T) = Cardinality(S) <=> f \in Injection(S, T)
  <2> HIDE DEF f, S, T
  <2> QED BY <1>1, <1>2, FS_Surjection
<1>4. f \in Injection(S, T) <=> Distinct(s, i)
  <2>1. f \in [S -> T]
    BY DEF FirstPaths
  <2>2. f \in Injection(S, T) <=> \A a, b \in S : f[a] = f[b] => a = b
    <3>1. DOMAIN f = S
      OBVIOUS
    <3> QED BY <2>1, <3>1, Zenon DEF Injection, IsInjective
  <2> QED BY <2>2 DEF Distinct
<1>5. Cardinality(T) \in Nat
  BY <1>3, FS_CardinalityType
<1> QED BY <1>1, <1>3, <1>4, <1>5

\* The size of the first files grows by the next one's.
LEMMA SizesAdd ==
  ASSUME NEW s \in SourceSets, NEW i \in 0 .. Len(s)
  PROVE  /\ Size(s, i) \in Nat /\ Size(s, 0) = 0
         /\ i < Len(s) => /\ Size(s, i + 1) = Size(s, i) + Len(s[i + 1].content)
                          /\ Len(s[i + 1].content) \in Nat
         /\ Size(s, i) <= Size(s, Len(s))
<1>0. /\ s \in Seq([path : Paths, content : Payloads])
      /\ Payloads \in SUBSET Seq(UNION {ToSet(p) : p \in Payloads})
  BY InvocationAssumption DEF InvocationAssumption
<1>1. /\ s \in Seq([path : Paths, content : Payloads]) /\ Len(s) \in Nat /\ DOMAIN s = 1 .. Len(s)
      /\ Payloads \in SUBSET Seq(UNION {ToSet(p) : p \in Payloads})
  BY <1>0
<1>2. \A j \in 1 .. Len(s) : Sizes(s)[j] = Len(s[j].content) /\ Len(s[j].content) \in Nat
  <2> SUFFICES ASSUME NEW j \in 1 .. Len(s)
               PROVE  Sizes(s)[j] = Len(s[j].content) /\ Len(s[j].content) \in Nat
    OBVIOUS
  <2> DEFINE Files == [path : Paths, content : Payloads]
  <2>0. s \in Seq(Files)
    BY <1>1
  <2> HIDE DEF Files
  <2>4. s[j] \in Files
    BY <2>0
  <2> USE DEF Files
  <2>1. s[j].content \in Payloads
    BY <2>4
  <2>2. s[j].content \in Seq(UNION {ToSet(p) : p \in Payloads})
    BY <1>1, <2>1
  <2>3. Len(s[j].content) \in Nat
    BY <2>2
  <2> QED BY <1>1, <2>3 DEF Sizes
<1> DEFINE f == Sizes(s)
           Sum(T) == SumFunctionOnSet(f, T)
<1>3. \A j \in 1 .. Len(s) : f[j] \in Nat
  BY <1>2
<1> HIDE DEF f
<1>4. \A T \in SUBSET (1 .. Len(s)) : IsFiniteSet(T) /\ Sum(T) \in Nat
  <2> SUFFICES ASSUME NEW T \in SUBSET (1 .. Len(s)) PROVE IsFiniteSet(T) /\ Sum(T) \in Nat
    OBVIOUS
  <2>1. IsFiniteSet(1 .. Len(s))
    BY <1>1, FS_Interval
  <2>2. IsFiniteSet(T) /\ \A j \in T : f[j] \in Nat
    BY <1>3, <2>1, FS_Subset
  <2> QED BY <2>2, SumNat
<1>5. 1 .. i \in SUBSET (1 .. Len(s)) /\ (i + 1) .. Len(s) \in SUBSET (1 .. Len(s))
      /\ (1 .. i) \cup ((i + 1) .. Len(s)) = 1 .. Len(s)
      /\ (1 .. i) \cap ((i + 1) .. Len(s)) = {}
  BY <1>1
<1>6. Size(s, i) = Sum(1 .. i) /\ Size(s, Len(s)) = Sum(1 .. Len(s)) /\ Size(s, i) \in Nat
  BY <1>4, <1>5 DEF Size, f
<1>7. Sum(1 .. Len(s)) = Sum(1 .. i) + Sum((i + 1) .. Len(s))
  <2>1. \A j \in (1 .. i) \cup ((i + 1) .. Len(s)) : f[j] \in Int
    BY <1>3, <1>5
  <2>2. IsFiniteSet(1 .. i) /\ IsFiniteSet((i + 1) .. Len(s))
    BY <1>4, <1>5
  <2>3. Sum((1 .. i) \cup ((i + 1) .. Len(s))) = Sum(1 .. i) + Sum((i + 1) .. Len(s))
    BY <1>5, <2>1, <2>2, SumSplits
  <2> QED BY <1>5, <2>3
<1>8. Size(s, i) <= Size(s, Len(s))
  <2>1. Sum(1 .. i) \in Nat /\ Sum((i + 1) .. Len(s)) \in Nat
    BY <1>4, <1>5
  <2> HIDE DEF Sum
  <2> QED BY <1>6, <1>7, <2>1
<1>9. ASSUME i < Len(s)
      PROVE  Size(s, i + 1) = Size(s, i) + Len(s[i + 1].content) /\ Len(s[i + 1].content) \in Nat
  <2>1. i + 1 \in 1 .. Len(s) /\ 1 .. i + 1 \in SUBSET (1 .. Len(s)) /\ i + 1 \in 1 .. i + 1
        /\ (1 .. i + 1) \ {i + 1} = 1 .. i
    BY <1>1, <1>9
  <2>2. \A j \in 1 .. i + 1 : f[j] \in Int
    BY <1>3, <2>1
  <2>3. IsFiniteSet(1 .. i + 1)
    BY <1>4, <2>1
  <2>4. Sum(1 .. i + 1) = f[i + 1] + Sum((1 .. i + 1) \ {i + 1})
    BY <2>1, <2>2, <2>3, SumTakesOut
  <2>5. f[i + 1] = Len(s[i + 1].content) /\ Len(s[i + 1].content) \in Nat
    BY <1>2, <2>1 DEF f
  <2>6. Size(s, i + 1) = Sum(1 .. i + 1)
    BY DEF Size, f
  <2>7. Sum(1 .. i) = Size(s, i) /\ Sum((1 .. i + 1) \ {i + 1}) = Sum(1 .. i)
    BY <1>6, <2>1
  <2> HIDE DEF Sum
  <2> QED BY <1>6, <2>4, <2>5, <2>6, <2>7
<1>10. Size(s, 0) = 0
  <2>1. 1 .. 0 = {}
    OBVIOUS
  <2> QED BY <2>1, SumEmpty DEF Size
<1> QED BY <1>6, <1>8, <1>9, <1>10

\* Consuming one file more, when the first i are assembled.
LEMMA RendersFile ==
  ASSUME NEW s \in SourceSets, NEW i \in Nat, i < Len(s), NEW x, Rendered(x, s, i), Fit(s, i),
         NEW c, c = s[i + 1].content, NEW q, q = s[i + 1].path,
         NEW y, y = Consume(x, Backend, ChunkFrame(Request, q, 0, TRUE, Len(c))),
         NEW z, z = Consume(y, Backend, BytesFrame(c))
  PROVE  IF Fit(s, i + 1) THEN Rendered(z, s, i + 1) ELSE Failed(z)
<1> DEFINE f == ChunkFrame(Request, q, 0, TRUE, Len(c))
           g == BytesFrame(c)
<1>1. /\ f.type = "ArtifactChunk" /\ f.ok /\ f.requestId = Request /\ f.path = q /\ f.seq = 0
      /\ f.byteLen = Len(c) /\ f.final = TRUE
  BY DEF ChunkFrame
<1>2. g.type = "ArtifactBytes" /\ g.trailingRaw = FALSE /\ g.payload = c
  BY DEF BytesFrame
<1> HIDE DEF f, g
<1>3. y = Consume(x, Backend, f) /\ z = Consume(y, Backend, g)
  BY DEF f, g
<1>4. /\ s \in Seq([path : Paths, content : Payloads])
      /\ Payloads \in SUBSET Seq(UNION {ToSet(p) : p \in Payloads})
  BY InvocationAssumption DEF InvocationAssumption
<1>13. Len(s) \in Nat /\ i \in 0 .. Len(s) /\ i + 1 \in 1 .. Len(s)
  BY <1>4
<1>5. /\ c \in Seq(UNION {ToSet(p) : p \in Payloads})
  <2> DEFINE Files == [path : Paths, content : Payloads]
  <2>0. s \in Seq(Files)
    BY <1>4
  <2> HIDE DEF Files
  <2>1. s[i + 1] \in Files
    BY <1>13, <2>0
  <2> USE DEF Files
  <2>2. c \in Payloads
    BY <2>1
  <2> QED BY <1>4, <2>2
<1>6. /\ Size(s, i) \in Nat /\ Len(c) \in Nat /\ Size(s, i + 1) = Size(s, i) + Len(c)
  BY <1>13, SizesAdd
<1>7. FirstPaths(s, i + 1) = FirstPaths(s, i) \cup {q}
  <2>1. 1 .. i + 1 = (1 .. i) \cup {i + 1}
    OBVIOUS
  <2> QED BY <2>1 DEF FirstPaths
<1>8. MaxArtifacts \in Nat /\ MaxTotalBytes \in Nat
  BY ProtocolAssumption DEF ProtocolAssumption
<1>9. y = ConsumeKnown(x, Backend, f)
  BY <1>1, <1>3 DEF Consume, RawTypes, Rendered
<1>10. ControlAdmissible(x, Backend, f) <=> q \notin FirstPaths(s, i)
  BY <1>1 DEF ControlAdmissible, SenderOf, StatesOf, ChunkAdmissible, Rendered
<1>11. CASE q \in FirstPaths(s, i)
  <2>1. y.state = "Failed"
    BY <1>9, <1>10, <1>11 DEF ConsumeKnown, Fail, Rendered, IsSession, NewSession
  <2>2. z.state = "Failed"
    BY <1>3, <2>1 DEF Consume
  <2>3. PICK j \in 1 .. i : s[j].path = s[i + 1].path
    BY <1>11 DEF FirstPaths
  <2>4. j \in 1 .. i + 1 /\ i + 1 \in 1 .. i + 1 /\ j # i + 1
    OBVIOUS
  <2>5. ~Fit(s, i + 1)
    BY <2>3, <2>4 DEF Fit, Distinct
  <2> QED BY <2>2, <2>5 DEF Failed
<1>12. CASE q \notin FirstPaths(s, i)
  <2>1. y = [x EXCEPT !.path = q, !.pending = "artifact", !.pendingDir = Backend,
                      !.chunk = [seq |-> 0, byteLen |-> Len(c), final |-> TRUE]]
    <3>1. y = ApplyControl(x, Backend, f)
      BY <1>9, <1>10, <1>12 DEF ConsumeKnown
    <3> QED BY <1>1, <3>1 DEF ApplyControl
  <2>2. /\ IsSession(y) /\ y.state = "Emitting" /\ y.pending = "artifact" /\ y.pendingDir = Backend
        /\ y.path = q /\ y.chunk.byteLen = Len(c) /\ y.chunk.final = TRUE
        /\ y.total = Size(s, i) /\ y.artifacts = x.artifacts /\ y.seq = 0 /\ y.bytes = << >>
        /\ y.request = Request
    <3>1. /\ IsSession(x) /\ x.state = "Emitting" /\ x.request = Request
          /\ x.total = Size(s, i) /\ x.seq = 0 /\ x.bytes = << >>
      BY DEF Rendered
    <3>2. /\ IsSession(y) /\ y.pending = "artifact" /\ y.pendingDir = Backend /\ y.path = q
          /\ y.state = x.state /\ y.request = x.request /\ y.total = x.total
      BY <2>1, <3>1 DEF IsSession, NewSession, Pendings
    <3>3. y.artifacts = x.artifacts /\ y.seq = x.seq /\ y.bytes = x.bytes
      BY <2>1, <3>1 DEF IsSession, NewSession
    <3>4. y.chunk = [seq |-> 0, byteLen |-> Len(c), final |-> TRUE]
      BY <2>1, <3>1 DEF IsSession, NewSession
    <3>5. y.chunk.byteLen = Len(c) /\ y.chunk.final = TRUE
      <4>1. \A r, l : r = [seq |-> 0, byteLen |-> l, final |-> TRUE] =>
                        r.byteLen = l /\ r.final = TRUE
        OBVIOUS
      <4> QED BY <3>4, <4>1, Zenon
    <3> QED BY <3>1, <3>2, <3>3, <3>5
  <2>3. Distinct(s, i + 1) /\ Cardinality(DOMAIN x.artifacts) = i
    <3>1. Distinct(s, i)
      BY DEF Fit
    <3>2. \A j \in 1 .. i : s[j].path # s[i + 1].path
      BY <1>12 DEF FirstPaths
    <3>3. \A j \in 1 .. i + 1 : j \in 1 .. i \/ j = i + 1
      OBVIOUS
    <3>4. Distinct(s, i + 1)
      BY <3>1, <3>2, <3>3, Zenon DEF Distinct
    <3>5. Cardinality(DOMAIN x.artifacts) = i
      BY <3>1, PathsCount DEF Rendered
    <3> QED BY <3>4, <3>5
  <2>4. RawAdmissible(y, g) <=> Fit(s, i + 1)
    <3>1. RawAdmissible(y, g) <=> Size(s, i) + Len(c) <= MaxTotalBytes /\ i < MaxArtifacts
      BY <1>2, <2>2, <2>3 DEF RawAdmissible
    <3>2. i < MaxArtifacts <=> i + 1 <= MaxArtifacts
      BY <1>8
    <3> QED BY <1>6, <2>3, <3>1, <3>2 DEF Fit
  <2>5. z = ConsumePendingRaw(y, Backend, g)
    BY <1>2, <1>3, <2>2 DEF Consume
  <2>6. CASE ~Fit(s, i + 1)
    <3>1. z = Fail(y)
      BY <1>2, <2>2, <2>4, <2>5, <2>6 DEF ConsumePendingRaw
    <3> QED BY <2>2, <2>6, <3>1 DEF Fail, Failed, IsSession, NewSession
  <2>7. CASE Fit(s, i + 1)
    <3>1. z = ApplyArtifactBytes(y, g)
      BY <1>2, <2>2, <2>4, <2>5, <2>7 DEF ConsumePendingRaw
    <3> DEFINE A == With(x.artifacts, q, c)
    <3>2. << >> \o c = c
      BY <1>5
    <3> DEFINE E(a) == [a EXCEPT !.artifacts = With(@, y.path, y.bytes \o g.payload),
                                 !.path = NoPath, !.bytes = << >>, !.seq = 0]
    <3>3. z = E([y EXCEPT !.pending = "none", !.total = @ + Len(g.payload)])
      <4>1. y.chunk.final
        BY <2>2
      <4> QED BY <3>1, <4>1, Zenon DEF ApplyArtifactBytes
    <3>7. PICK a : a = [y EXCEPT !.pending = "none", !.total = @ + Len(g.payload)]
      OBVIOUS
    <3>8. /\ IsSession(a) /\ a.state = "Emitting" /\ a.pending = "none" /\ a.request = Request
          /\ a.total = Size(s, i) + Len(c) /\ a.artifacts = x.artifacts
      BY <1>2, <2>2, <3>7 DEF IsSession, NewSession, Pendings
    <3>9. z = [a EXCEPT !.artifacts = A, !.path = NoPath, !.bytes = << >>, !.seq = 0]
      <4>1. z = E(a)
        BY <3>3, <3>7
      <4>2. y.bytes \o g.payload = c /\ y.path = q
        BY <1>2, <2>2, <3>2
      <4>3. With(a.artifacts, q, c) = A
        BY <3>8 DEF A
      <4> HIDE DEF A
      <4>4. z = [a EXCEPT !.artifacts = With(a.artifacts, q, c), !.path = NoPath,
                          !.bytes = << >>, !.seq = 0]
        BY <4>1, <4>2
      <4> QED BY <4>3, <4>4
    <3> HIDE DEF A
    <3>4. /\ IsSession(z) /\ z.state = "Emitting" /\ z.pending = "none" /\ z.request = Request
          /\ z.path = NoPath /\ z.seq = 0 /\ z.bytes = << >> /\ z.total = Size(s, i) + Len(c)
          /\ z.artifacts = A
      BY <3>8, <3>9 DEF IsSession, NewSession, Pendings
    <3>5. /\ DOMAIN A = FirstPaths(s, i + 1)
          /\ A = [r \in DOMAIN A |-> A[r]]
      <4>1. DOMAIN x.artifacts = FirstPaths(s, i)
        BY DEF Rendered
      <4> QED BY <1>7, <4>1 DEF A, With
    <3>6. ASSUME NEW j \in 1 .. i + 1 PROVE A[s[j].path] = s[j].content
      <4>1. CASE j = i + 1
        BY <4>1 DEF A, With
      <4>2. CASE j \in 1 .. i
        <5>1. s[j].path \in FirstPaths(s, i) /\ s[j].path # q
          BY <1>12, <4>2 DEF FirstPaths
        <5>2. DOMAIN x.artifacts = FirstPaths(s, i) /\ x.artifacts[s[j].path] = s[j].content
          BY <4>2 DEF Rendered
        <5> QED BY <5>1, <5>2 DEF A, With
      <4>3. j = i + 1 \/ j \in 1 .. i
        OBVIOUS
      <4> QED BY <4>1, <4>2, <4>3
    <3>10. Rendered(z, s, i + 1)
      <4>1. z.total = Size(s, i + 1)
        BY <1>6, <3>4
      <4>2. /\ DOMAIN z.artifacts = FirstPaths(s, i + 1)
            /\ z.artifacts = [r \in DOMAIN z.artifacts |-> z.artifacts[r]]
        BY <3>4, <3>5
      <4>3. \A j \in 1 .. i + 1 : z.artifacts[s[j].path] = s[j].content
        BY <3>4, <3>6
      <4> QED BY <3>4, <4>1, <4>2, <4>3, Zenon DEF Rendered
    <3> QED BY <2>7, <3>10
  <2> QED BY <2>6, <2>7
<1> QED BY <1>11, <1>12

\* A session that has failed stays failed.
LEMMA FailureStays ==
  ASSUME NEW p, Packaged(p), NEW a \in 0 .. Len(p), NEW b \in a .. Len(p), Failed(Joint(p)[a])
  PROVE  Failed(Joint(p)[b])
<1> DEFINE G == {k \in Nat : k \in a .. Len(p) => Failed(Joint(p)[k])}
<1>1. Len(p) \in Nat
  BY DEF Packaged
<1>2. 0 \in G
  <2>1. 0 \in a .. Len(p) => a = 0
    BY <1>1
  <2> QED BY <2>1
<1>3. ASSUME NEW k \in G PROVE k + 1 \in G
  <2> SUFFICES ASSUME k + 1 \in a .. Len(p) PROVE Failed(Joint(p)[k + 1])
    OBVIOUS
  <2>1. CASE k + 1 = a
    BY <2>1
  <2>2. CASE k + 1 # a
    <3>1. k \in a .. Len(p) /\ k + 1 \in 1 .. Len(p) /\ (k + 1) - 1 = k
      BY <1>1, <2>2
    <3>2. Failed(Joint(p)[k])
      BY <3>1
    <3> HIDE DEF G
    <3>3. Joint(p)[k + 1] = Consume(Joint(p)[k], SenderOfTurn(p, k + 1), Turn(p, k + 1))
      BY <1>1, <3>1, JointUnfolds
    <3> QED BY <3>2, <3>3 DEF Consume, Failed
  <2> QED BY <2>1, <2>2
<1>4. G \in SUBSET Nat
  OBVIOUS
<1> HIDE DEF G
<1>5. G = Nat
  BY <1>2, <1>3, <1>4, Counting
<1>6. b \in Nat /\ b \in a .. Len(p)
  BY <1>1
<1>7. b \in G
  BY <1>5, <1>6
<1> QED BY <1>6, <1>7 DEF G

\* An output fits when all its files do.
LEMMA FitsIsFit ==
  ASSUME NEW s \in SourceSets
  PROVE  Fits(s) <=> Fit(s, Len(s))
<1>1. Len(s) \in Nat /\ DOMAIN s = 1 .. Len(s)
  BY InvocationAssumption DEF InvocationAssumption
<1>2. DOMAIN ArtifactsOf(s) = FirstPaths(s, Len(s))
  BY <1>1 DEF ArtifactsOf, FirstPaths
<1>3. (Cardinality(DOMAIN ArtifactsOf(s)) = Len(s)) <=> Distinct(s, Len(s))
  BY <1>1, <1>2, PathsCount
<1>4. SumFunctionOnSet([i \in DOMAIN s |-> Len(s[i].content)], DOMAIN s) = Size(s, Len(s))
  BY <1>1 DEF Size, Sizes
<1> QED BY <1>3, <1>4 DEF Fits, Fit

\* File by file, a session assembles the output until a file does not fit.
LEMMA RenderingJoint ==
  ASSUME NEW s \in SourceSets, NEW p, p = Rendering(s), NEW i \in 0 .. Len(s)
  PROVE  IF Fit(s, i) THEN Rendered(Joint(p)[4 + 2 * i], s, i)
                      ELSE Failed(Joint(p)[4 + 2 * i])
<1> DEFINE j == Joint(p)
           m == Len(s)
           Good(k) == IF Fit(s, k) THEN Rendered(j[4 + 2 * k], s, k) ELSE Failed(j[4 + 2 * k])
           G == {k \in Nat : k \in 0 .. m => Good(k)}
<1>1. Packaged(p) /\ Places(p, s) /\ p \in Programs
  BY RenderingPlaces DEF Programs
<1>2. m \in Nat /\ Len(p) = 2 * m + 6
  BY <1>1 DEF Places
<1> HIDE DEF j, m
<1>3. 0 \in G
  <2>1. /\ IsSession(j[4]) /\ Fresh([j[4] EXCEPT !.request = NoRequest])
        /\ j[4].state = "Emitting" /\ j[4].request = Request
    <3>1. TRUE \in BOOLEAN /\ p[2].frame = Capabilities(TRUE)
      BY <1>1 DEF Places
    <3> QED BY <1>1, <3>1, Opened DEF j
  <2>2. /\ j[4].pending = "none" /\ j[4].path = NoPath /\ j[4].seq = 0 /\ j[4].bytes = << >>
        /\ j[4].total = 0 /\ j[4].artifacts = << >>
    BY <2>1 DEF Fresh, IsSession, NewSession, NoArtifacts
  <2>3. Size(s, 0) = 0
    <3>1. 0 \in 0 .. Len(s)
      BY <1>2 DEF m
    <3> QED BY <3>1, SizesAdd
  <2>4. FirstPaths(s, 0) = {} /\ Distinct(s, 0)
    BY DEF FirstPaths, Distinct
  <2>5. DOMAIN << >> = {} /\ << >> = [q \in DOMAIN << >> |-> << >>[q]]
    OBVIOUS
  <2>6. Rendered(j[4], s, 0)
    <3>1. \A k \in 1 .. 0 : FALSE
      OBVIOUS
    <3> QED BY <2>1, <2>2, <2>3, <2>4, <2>5, <3>1 DEF Rendered
  <2>7. Fit(s, 0)
    BY <2>3, <2>4, ProtocolAssumption DEF Fit, ProtocolAssumption
  <2>8. 4 + 2 * 0 = 4
    OBVIOUS
  <2> QED BY <2>6, <2>7, <2>8
<1>4. ASSUME NEW k \in G PROVE k + 1 \in G
  <2> SUFFICES ASSUME k + 1 \in 0 .. m PROVE Good(k + 1)
    OBVIOUS
  <2>1. k \in Nat /\ k \in 0 .. m /\ k < m /\ k + 1 \in 1 .. m
    BY <1>2
  <2>2. Good(k)
    BY <2>1
  <2> HIDE DEF G
  <2>3. /\ j[5 + 2 * k] = Consume(j[4 + 2 * k], Backend,
                            ChunkFrame(Request, s[k + 1].path, 0, TRUE, Len(s[k + 1].content)))
        /\ j[4 + 2 * (k + 1)] = Consume(j[5 + 2 * k], Backend, BytesFrame(s[k + 1].content))
    <3>1. /\ 3 + 2 * (k + 1) = 5 + 2 * k /\ 4 + 2 * (k + 1) = 6 + 2 * k
          /\ 5 + 2 * k \in 5 .. Len(p) - 1 /\ 6 + 2 * k \in 5 .. Len(p) - 1
          /\ (5 + 2 * k) - 1 = 4 + 2 * k /\ (6 + 2 * k) - 1 = 5 + 2 * k
          /\ 5 + 2 * k \in 1 .. Len(p) /\ 6 + 2 * k \in 1 .. Len(p) /\ Len(p) \in Nat
      BY <1>2, <2>1
    <3>2. /\ j[5 + 2 * k] = Consume(j[(5 + 2 * k) - 1], SenderOfTurn(p, 5 + 2 * k), Turn(p, 5 + 2 * k))
          /\ j[6 + 2 * k] = Consume(j[(6 + 2 * k) - 1], SenderOfTurn(p, 6 + 2 * k), Turn(p, 6 + 2 * k))
      BY <3>1, JointUnfolds DEF j
    <3>3. /\ SenderOfTurn(p, 5 + 2 * k) = Backend /\ Turn(p, 5 + 2 * k) = p[5 + 2 * k].frame
          /\ SenderOfTurn(p, 6 + 2 * k) = Backend /\ Turn(p, 6 + 2 * k) = p[6 + 2 * k].frame
      BY <1>1, <3>1, TurnsAre
    <3>4. /\ p[3 + 2 * (k + 1)].frame
               = ChunkFrame(Request, s[k + 1].path, 0, TRUE, Len(s[k + 1].content))
          /\ p[4 + 2 * (k + 1)].frame = BytesFrame(s[k + 1].content)
      BY <1>1, <2>1 DEF Places, m
    <3> QED BY <3>1, <3>2, <3>3, <3>4
  <2>4. CASE Fit(s, k)
    BY <2>1, <2>2, <2>3, <2>4, RendersFile DEF m
  <2>5. CASE ~Fit(s, k)
    <3>1. Failed(j[4 + 2 * (k + 1)])
      BY <2>2, <2>3, <2>5 DEF Consume, Failed
    <3>2. ~Fit(s, k + 1)
      <4> SUFFICES ASSUME Fit(s, k + 1) PROVE Fit(s, k)
        BY <2>5
      <4>1. /\ Size(s, k) \in Nat /\ Size(s, k + 1) = Size(s, k) + Len(s[k + 1].content)
            /\ Len(s[k + 1].content) \in Nat
        BY <2>1, SizesAdd DEF m
      <4>2. MaxTotalBytes \in Nat /\ MaxArtifacts \in Nat
        BY ProtocolAssumption DEF ProtocolAssumption
      <4>3. \A a \in 1 .. k : a \in 1 .. k + 1
        BY <2>1
      <4>4. Distinct(s, k)
        BY <4>3 DEF Fit, Distinct
      <4> QED BY <2>1, <4>1, <4>2, <4>4 DEF Fit
    <3> QED BY <3>1, <3>2
  <2> QED BY <2>4, <2>5
<1>5. G \in SUBSET Nat
  OBVIOUS
<1> HIDE DEF G
<1>6. G = Nat
  BY <1>3, <1>4, <1>5, Counting
<1>7. i \in Nat /\ i \in 0 .. m
  BY <1>2 DEF m
<1>8. i \in G
  BY <1>6, <1>7
<1> QED BY <1>7, <1>8 DEF G, j

\* What a frame leaves to be taken: an Error an error, a Manifest an emission,
\* and any other frame nothing.
LEMMA ConsumeResults ==
  ASSUME NEW s, IsSession(s), s.errors = << >>, s.completed = << >>, NEW d,
         NEW f, f.type \in FrameTypes, NEW t, t = Consume(s, d, f)
  PROVE  /\ t.errors # << >> => f.type = "Error"
         /\ t.completed # << >> => f.type = "Manifest"
         /\ ~Failed(t) /\ f.type = "Error" => t.errors # << >>
         /\ ~Failed(t) /\ f.type = "Manifest" => t.completed # << >>
<1> DEFINE Same(x) == x.errors = << >> /\ x.completed = << >>
           Goal == /\ t.errors # << >> => f.type = "Error"
                   /\ t.completed # << >> => f.type = "Manifest"
                   /\ ~Failed(t) /\ f.type = "Error" => t.errors # << >>
                   /\ ~Failed(t) /\ f.type = "Manifest" => t.completed # << >>
<1>0. Same(s)
  OBVIOUS
<1>1. Same(Fail(s)) /\ Failed(Fail(s)) /\ Same(ResetRequest(s)) /\ IsSession(ResetRequest(s))
  BY DEF Fail, Failed, ResetRequest, IsSession, NewSession, Pendings
<1>2. t = Fail(s) => Goal
  BY <1>1
<1>3. CASE s.state \in {"Failed", "Closed"} \/ f.type = "Invalid"
  BY <1>0, <1>2, <1>3 DEF Consume, Failed
<1>4. CASE ~(s.state \in {"Failed", "Closed"} \/ f.type = "Invalid") /\ s.pending # "none"
  <2>1. t = ConsumePendingRaw(s, d, f)
    BY <1>4 DEF Consume
  <2>2. CASE d # s.pendingDir \/ f.trailingRaw \/ ~RawAdmissible(s, f)
    BY <1>2, <2>1, <2>2 DEF ConsumePendingRaw
  <2>3. CASE ~(d # s.pendingDir \/ f.trailingRaw \/ ~RawAdmissible(s, f))
    <3>0. f.type \in RawTypes \cup {"Unknown"}
      BY <1>4, <2>3 DEF RawAdmissible, RawTypes, IsSession, Pendings
    <3>1. CASE s.pending = "skipped"
      <4>1. t = [s EXCEPT !.pending = "none"]
        BY <2>1, <2>3, <3>1 DEF ConsumePendingRaw
      <4> QED BY <3>0, <4>1 DEF IsSession, NewSession, RawTypes
    <3>2. CASE s.pending = "projection"
      <4>1. t = [s EXCEPT !.pending = "none", !.state = "Emitting", !.accepted = Append(@, s.request)]
        BY <2>1, <2>3, <3>2 DEF ConsumePendingRaw
      <4> QED BY <3>0, <4>1 DEF IsSession, NewSession, RawTypes
    <3>3. CASE s.pending = "artifact"
      <4>1. t = ApplyArtifactBytes(s, f)
        BY <2>1, <2>3, <3>3 DEF ConsumePendingRaw
      <4>2. Same(t)
        BY <4>1 DEF ApplyArtifactBytes, IsSession, NewSession
      <4> QED BY <3>0, <4>2 DEF RawTypes
    <3> QED BY <1>4, <3>1, <3>2, <3>3 DEF IsSession, Pendings
  <2> QED BY <2>2, <2>3
<1>5. CASE ~(s.state \in {"Failed", "Closed"} \/ f.type = "Invalid") /\ s.pending = "none"
  <2>1. CASE f.type = "Unknown"
    <3>1. CASE f.mustUnderstand
      BY <1>2, <1>5, <2>1, <3>1 DEF Consume, ConsumeUnknown
    <3>2. CASE ~f.mustUnderstand
      <4>1. t = s \/ t = [s EXCEPT !.pending = "skipped", !.pendingDir = d]
        BY <1>5, <2>1, <3>2 DEF Consume, ConsumeUnknown
      <4>2. Same(t)
        BY <4>1 DEF IsSession, NewSession
      <4> QED BY <2>1, <4>2
    <3> QED BY <3>1, <3>2
  <2>2. CASE f.type \in RawTypes
    BY <1>2, <1>5, <2>2 DEF Consume, RawTypes
  <2>3. CASE f.type \notin RawTypes \cup {"Unknown"}
    <3>1. t = ConsumeKnown(s, d, f)
      BY <1>5, <2>3 DEF Consume
    <3>2. CASE ~ControlAdmissible(s, d, f)
      BY <1>2, <3>1, <3>2 DEF ConsumeKnown
    <3>3. CASE ControlAdmissible(s, d, f)
      <4>1. t = ApplyControl(s, d, f)
        BY <3>1, <3>3 DEF ConsumeKnown
      <4>2. CASE f.type = "Manifest"
        <5>1. t = [ResetRequest(s) EXCEPT !.state = "Ready",
                     !.completed = Append(@, [requestId |-> s.request, artifacts |-> s.artifacts])]
          BY <4>1, <4>2 DEF ApplyControl
        <5>2. PICK e : t = [ResetRequest(s) EXCEPT !.state = "Ready", !.completed = Append(@, e)]
          BY <5>1
        <5>3. t.completed = Append(<< >>, e) /\ t.errors = << >>
          BY <1>1, <5>2 DEF IsSession, NewSession
        <5>4. Append(<< >>, e) # << >>
          OBVIOUS
        <5> QED BY <4>2, <5>3, <5>4
      <4>3. CASE f.type \in {"Hello", "Capabilities", "Goodbye", "Cancel"}
        <5>1. PICK q : t = [s EXCEPT !.state = q]
          BY <4>1, <4>3 DEF ApplyControl
        <5>2. Same(t)
          BY <5>1 DEF IsSession, NewSession
        <5> QED BY <4>3, <5>2
      <4>4. CASE f.type \in {"Emit", "ArtifactChunk"}
        <5>1. Same(t)
          BY <4>1, <4>4 DEF ApplyControl, IsSession, NewSession
        <5> QED BY <4>4, <5>1
      <4>5. CASE f.type = "Cancelled"
        <5>1. t = [ResetRequest(s) EXCEPT !.state = "Ready"]
          BY <4>1, <4>5 DEF ApplyControl
        <5>2. Same(t)
          BY <1>1, <5>1 DEF IsSession, NewSession
        <5> QED BY <4>5, <5>2
      <4>6. CASE f.type = "Error"
        <5>1. s.state \in {"AwaitingCapabilities", "Emitting"}
          BY <3>3, <4>6 DEF ControlAdmissible, StatesOf
        <5>2. \/ t = [s EXCEPT !.state = "Failed", !.errors = Append(@, f.requestId)]
              \/ t = [ResetRequest(s) EXCEPT !.state = "Ready", !.errors = Append(@, f.requestId)]
          BY <4>1, <4>6, <5>1 DEF ApplyControl
        <5>3. t.completed = << >> /\ t.errors = Append(<< >>, f.requestId)
          BY <1>1, <5>2 DEF IsSession, NewSession
        <5>4. Append(<< >>, f.requestId) # << >>
          OBVIOUS
        <5> QED BY <4>6, <5>3, <5>4
      <4> QED BY <1>5, <2>3, <4>2, <4>3, <4>4, <4>5, <4>6 DEF FrameTypes, RawTypes
    <3> QED BY <3>2, <3>3
  <2> QED BY <2>1, <2>2, <2>3
<1> QED BY <1>3, <1>4, <1>5 DEF IsSession

\* When its files fit, the manifest of an output lists what was assembled.
LEMMA ManifestMatches ==
  ASSUME NEW s \in SourceSets, NEW x, Rendered(x, s, Len(s)), Distinct(s, Len(s))
  PROVE  ArtifactsOf(s) = x.artifacts
<1> DEFINE m == Len(s)
<1>1. m \in Nat /\ DOMAIN s = 1 .. m
  BY InvocationAssumption DEF InvocationAssumption
<1>2. /\ DOMAIN x.artifacts = FirstPaths(s, m)
      /\ x.artifacts = [q \in FirstPaths(s, m) |-> x.artifacts[q]]
      /\ \A i \in 1 .. m : x.artifacts[s[i].path] = s[i].content
  BY DEF Rendered
<1>3. ASSUME NEW q \in FirstPaths(s, m)
      PROVE  (CHOOSE y \in Range(s) : y.path = q).content = x.artifacts[q]
  <2>1. PICK i \in 1 .. m : q = s[i].path
    BY DEF FirstPaths
  <2>2. s[i] \in Range(s)
    BY <1>1 DEF Range
  <2>3. ASSUME NEW y \in Range(s), y.path = q PROVE y = s[i]
    <3>1. PICK k \in 1 .. m : y = s[k]
      BY <1>1 DEF Range
    <3> QED BY <2>1, <2>3, <3>1 DEF Distinct
  <2>4. (CHOOSE y \in Range(s) : y.path = q) = s[i]
    BY <2>1, <2>2, <2>3
  <2> QED BY <1>2, <2>1, <2>4
<1>4. FirstPaths(s, m) = {s[i].path : i \in DOMAIN s}
  BY <1>1 DEF FirstPaths
<1>5. ArtifactsOf(s) = [q \in FirstPaths(s, m) |-> (CHOOSE y \in Range(s) : y.path = q).content]
  BY <1>4, Zenon DEF ArtifactsOf
<1> HIDE DEF m
<1> QED BY <1>2, <1>3, <1>5, Zenon

-----------------------------------------------------------------------------
(* The course of an exchange                                               *)

\* Between the projection and the manifest there are chunks and their bytes.
LEMMA ChunksOnly ==
  ASSUME NEW p, NEW s, Places(p, s), NEW k \in 5 .. Len(p) - 2
  PROVE  p[k].frame.type \in {"ArtifactChunk", "ArtifactBytes"}
<1> DEFINE G == {x \in Nat : \E y \in Nat : x = 2 * y \/ x = 2 * y + 1}
<1>1. G = Nat
  <2>1. 0 \in G
    <3>1. 0 = 2 * 0 /\ 0 \in Nat
      OBVIOUS
    <3> QED BY <3>1
  <2>2. ASSUME NEW x \in G PROVE x + 1 \in G
    <3>1. PICK y \in Nat : x = 2 * y \/ x = 2 * y + 1
      OBVIOUS
    <3>2. CASE x = 2 * y
      BY <3>2
    <3>3. CASE x = 2 * y + 1
      <4>1. x + 1 = 2 * (y + 1) /\ y + 1 \in Nat /\ x + 1 \in Nat
        BY <3>3
      <4> QED BY <4>1
    <3> QED BY <3>1, <3>2, <3>3
  <2>3. G \in SUBSET Nat
    OBVIOUS
  <2> HIDE DEF G
  <2> QED BY <2>1, <2>2, <2>3, Counting
<1>2. Len(s) \in Nat /\ Len(p) = 2 * Len(s) + 6
  BY DEF Places
<1>3. k - 3 \in Nat /\ k - 3 >= 2 /\ k - 3 <= 2 * Len(s) + 1
  BY <1>2
<1>4. PICK i \in Nat : k - 3 = 2 * i \/ k - 3 = 2 * i + 1
  BY <1>1, <1>3
<1>5. i \in 1 .. Len(s)
  BY <1>2, <1>3, <1>4
<1>6. k = 3 + 2 * i \/ k = 4 + 2 * i
  BY <1>3, <1>4
<1>7. /\ p[3 + 2 * i].frame.type = "ArtifactChunk"
      /\ p[4 + 2 * i].frame.type = "ArtifactBytes"
  <2>1. /\ p[3 + 2 * i].frame = ChunkFrame(Request, s[i].path, 0, TRUE, Len(s[i].content))
        /\ p[4 + 2 * i].frame = BytesFrame(s[i].content)
    BY <1>5 DEF Places
  <2>2. \A q, c : ChunkFrame(Request, q, 0, TRUE, c).type = "ArtifactChunk"
    BY DEF ChunkFrame
  <2>3. \A c : BytesFrame(c).type = "ArtifactBytes"
    BY DEF BytesFrame
  <2> QED BY <2>1, <2>2, <2>3, Zenon
<1>8. CASE k = 3 + 2 * i
  BY <1>7, <1>8
<1>9. CASE k = 4 + 2 * i
  BY <1>7, <1>9
<1> QED BY <1>6, <1>8, <1>9

\* A Goodbye closes a session that is ready.
LEMMA ReadyCloses ==
  ASSUME NEW x, IsSession(x), x.state = "Ready", x.pending = "none"
  PROVE  Consume(x, Core, Control("Goodbye")).state = "Closed"
<1> DEFINE f == Control("Goodbye")
<1>1. f.type = "Goodbye" /\ f.ok = TRUE
  BY DEF Control
<1> HIDE DEF f
<1>2. ControlAdmissible(x, Core, f)
  BY <1>1 DEF ControlAdmissible, SenderOf, StatesOf
<1>3. Consume(x, Core, f) = [x EXCEPT !.state = "Closed"]
  BY <1>1, <1>2 DEF Consume, ConsumeKnown, ApplyControl, RawTypes
<1>4. Consume(x, Core, f).state = "Closed"
  BY <1>3 DEF IsSession, NewSession
<1> QED BY <1>4 DEF f

\* An exchange with a backend that renders: it comes to the end exactly when the
\* output fits.
LEMMA RenderingEnds ==
  ASSUME NEW s \in SourceSets, NEW p, p = Rendering(s), NEW n, n = Len(p), NEW j, j = Joint(p)
  PROVE  IF Fits(s) THEN j[n - 1].state = "Ready" /\ j[n].state = "Closed"
                    ELSE Failed(j[n - 1]) /\ Failed(j[n])
<1> DEFINE m == Len(s)
           f == ManifestFrame(Request, ArtifactsOf(s))
<1>1. Packaged(p) /\ Places(p, s) /\ p \in Programs
  BY RenderingPlaces DEF Programs
<1>2. /\ m \in Nat /\ n = 2 * m + 6 /\ n - 1 \in 1 .. n /\ n \in 1 .. n /\ n \in Nat
      /\ (n - 1) - 1 = 4 + 2 * m /\ n - 1 \in 5 .. n - 1 /\ n - 1 = 2 * m + 5
      /\ m \in 0 .. Len(s)
  BY <1>1 DEF Places
<1>3. j[n - 1] = Consume(j[4 + 2 * m], Backend, f) /\ j[n] = Consume(j[n - 1], Core, Control("Goodbye"))
  <2>1. /\ j[n - 1] = Consume(j[(n - 1) - 1], SenderOfTurn(p, n - 1), Turn(p, n - 1))
        /\ j[n] = Consume(j[n - 1], SenderOfTurn(p, n), Turn(p, n))
    BY <1>2, JointUnfolds
  <2>2. /\ Turn(p, n - 1) = p[n - 1].frame /\ SenderOfTurn(p, n - 1) = Backend
        /\ Turn(p, n) = Control("Goodbye") /\ SenderOfTurn(p, n) = Core
    BY <1>1, <1>2, TurnsAre
  <2>3. p[n - 1].frame = f
    BY <1>1, <1>2 DEF Places
  <2> QED BY <1>2, <2>1, <2>2, <2>3
<1>4. Fits(s) <=> Fit(s, m)
  BY FitsIsFit
<1>5. f.type = "Manifest" /\ f.ok = TRUE /\ f.requestId = Request /\ f.artifacts = ArtifactsOf(s)
  BY DEF ManifestFrame
<1> HIDE DEF f
<1>6. IF Fit(s, m) THEN Rendered(j[4 + 2 * m], s, m) ELSE Failed(j[4 + 2 * m])
  BY <1>2, RenderingJoint
<1>7. CASE ~Fit(s, m)
  <2>1. Failed(j[n - 1]) /\ Failed(j[n])
    BY <1>3, <1>6, <1>7 DEF Consume, Failed
  <2> QED BY <1>4, <1>7, <2>1
<1>8. CASE Fit(s, m)
  <2> DEFINE x == j[4 + 2 * m]
  <2>1. Rendered(x, s, m)
    BY <1>6, <1>8
  <2>2. ArtifactsOf(s) = x.artifacts
    BY <1>8, <2>1, ManifestMatches DEF Fit
  <2>3. /\ IsSession(x) /\ x.state = "Emitting" /\ x.pending = "none" /\ x.request = Request
        /\ x.path = NoPath
    BY <2>1 DEF Rendered
  <2>4. j[n - 1] = Consume(x, Backend, f)
    BY <1>3
  <2> HIDE DEF x, m
  <2>5. ControlAdmissible(x, Backend, f)
    BY <1>5, <2>2, <2>3 DEF ControlAdmissible, SenderOf, StatesOf, ManifestAdmissible
  <2>6. j[n - 1] = ApplyControl(x, Backend, f)
    BY <1>5, <2>3, <2>4, <2>5 DEF Consume, ConsumeKnown, RawTypes
  <2>7. PICK e : j[n - 1] = [ResetRequest(x) EXCEPT !.state = "Ready", !.completed = Append(@, e)]
    BY <1>5, <2>6 DEF ApplyControl
  <2>8. IsSession(ResetRequest(x)) /\ ResetRequest(x).pending = "none"
    BY <2>3 DEF ResetRequest, IsSession, NewSession, Pendings
  <2>9. IsSession(j[n - 1]) /\ j[n - 1].state = "Ready" /\ j[n - 1].pending = "none"
    BY <2>7, <2>8 DEF IsSession, NewSession
  <2> QED BY <1>3, <1>4, <1>8, <2>9, ReadyCloses DEF m
<1> QED BY <1>7, <1>8

\* An exchange with a backend that refuses comes to the end.
LEMMA RefusingEnds ==
  ASSUME NEW j, j = Joint(Refusing)
  PROVE  j[5].state = "Ready" /\ j[6].state = "Closed"
<1> DEFINE p == Refusing
           f == ErrorFrame(Request)
<1>1. Packaged(p) /\ Len(p) = 6 /\ p[2].frame = Capabilities(TRUE) /\ p[5].frame = f
  BY OtherPlaces
<1>2. p \in Programs
  BY DEF Programs
<1> HIDE DEF p, f
<1>3. j[4].state = "Emitting" /\ IsSession(j[4]) /\ j[4].request = Request /\ j[4].pending = "none"
  <2>1. TRUE \in BOOLEAN /\ j = Joint(p)
    BY DEF p
  <2>2. /\ j[4].state = "Emitting" /\ IsSession(j[4]) /\ j[4].request = Request
        /\ Fresh([j[4] EXCEPT !.request = NoRequest])
    BY <1>1, <1>2, <2>1, Opened
  <2> QED BY <2>2 DEF Fresh, IsSession, NewSession
<1>4. j[5] = Consume(j[4], Backend, f) /\ j[6] = Consume(j[5], Core, Control("Goodbye"))
  <2>1. 5 \in 1 .. 6 /\ 6 \in 1 .. 6 /\ 5 - 1 = 4 /\ 6 - 1 = 5 /\ 5 \in 5 .. 6 - 1 /\ 6 \in Nat
    OBVIOUS
  <2>2. /\ j[5] = Consume(j[5 - 1], SenderOfTurn(p, 5), Turn(p, 5))
        /\ j[6] = Consume(j[6 - 1], SenderOfTurn(p, 6), Turn(p, 6))
    BY <1>1, <2>1, JointUnfolds DEF p
  <2>3. /\ Turn(p, 5) = p[5].frame /\ SenderOfTurn(p, 5) = Backend
        /\ Turn(p, 6) = Control("Goodbye") /\ SenderOfTurn(p, 6) = Core
    BY <1>1, <2>1, TurnsAre
  <2> QED BY <1>1, <2>1, <2>2, <2>3
<1>5. f.type = "Error" /\ f.ok = TRUE /\ f.requestId = Request
  BY DEF f, ErrorFrame, About
<1>6. ControlAdmissible(j[4], Backend, f)
  BY <1>3, <1>5 DEF ControlAdmissible, SenderOf, StatesOf
<1>7. j[5] = ApplyControl(j[4], Backend, f)
  BY <1>3, <1>4, <1>5, <1>6 DEF Consume, ConsumeKnown, RawTypes
<1>8. j[5] = [ResetRequest(j[4]) EXCEPT !.state = "Ready", !.errors = Append(@, f.requestId)]
  BY <1>3, <1>5, <1>7 DEF ApplyControl
<1>9. IsSession(ResetRequest(j[4])) /\ ResetRequest(j[4]).pending = "none"
  BY <1>3 DEF ResetRequest, IsSession, NewSession, Pendings
<1>10. IsSession(j[5]) /\ j[5].state = "Ready" /\ j[5].pending = "none"
  BY <1>8, <1>9 DEF IsSession, NewSession
<1> QED BY <1>4, <1>10, ReadyCloses

\* How an exchange with p goes: nothing fails before the projection is
\* accepted; the last turn but one, and no other, answers the request; what
\* fails, fails before the Goodbye, unless the package does not match; a refusal
\* does not fail, and an output fails when it does not fit.
Course(p) ==
  LET n == Len(p)
      j == Joint(p)
  IN  /\ Packaged(p) /\ p[2].frame = Capabilities(p # Mismatched)
      /\ \A k \in 0 .. n : IsSession(j[k])
      /\ \A k \in 1 .. n : Turn(p, k).type \in FrameTypes
      /\ \A k \in 0 .. 4 : ~Failed(j[k])
      /\ j[1].state = "AwaitingCapabilities" /\ j[2].state = "Ready"
      /\ \A k \in 1 .. n : Turn(p, k).type \in {"Error", "Manifest"} => k = n - 1 /\ k >= 5
      /\ p # Mismatched => /\ Turn(p, n - 1).type \in {"Error", "Manifest"} /\ n >= 6
                           /\ ~Failed(j[n - 1]) => ~Failed(j[n])
      /\ p = Refusing => /\ Turn(p, n - 1).type = "Error" /\ p # Mismatched
                         /\ ~Failed(j[n - 1])
      /\ \A s \in SourceSets :
           p = Rendering(s) => /\ Turn(p, n - 1).type = "Manifest" /\ p # Mismatched
                               /\ Failed(j[n - 1]) <=> ~Fits(s)

\* Exchanges with the packages go that way.
LEMMA Courses ==
  ASSUME NEW p \in Programs, p \notin Sessionless
  PROVE  Course(p)
<1> DEFINE n == Len(p)
           j == Joint(p)
<1>1. Kind(p) /\ Packaged(p) /\ p[2].frame = Capabilities(p # Mismatched)
  BY PackagesAre
<1>2. n \in Nat /\ n >= 5
  BY <1>1 DEF Packaged
<1>3. \A k \in 1 .. n : Turn(p, k).type \in FrameTypes
  BY <1>1, TurnTypes
<1>4. \A k \in 0 .. n : IsSession(j[k])
  <2> DEFINE G == {k \in Nat : k \in 0 .. n => IsSession(j[k])}
  <2>1. 0 \in G
    <3>1. j[0] = NewSession
      BY <1>2, JointUnfolds
    <3> QED BY <3>1 DEF IsSession, NewSession, Pendings
  <2>2. ASSUME NEW k \in G PROVE k + 1 \in G
    <3> SUFFICES ASSUME k + 1 \in 0 .. n PROVE IsSession(j[k + 1])
      OBVIOUS
    <3>1. k \in 0 .. n /\ k + 1 \in 1 .. n /\ (k + 1) - 1 = k
      BY <1>2
    <3>2. IsSession(j[k])
      BY <3>1
    <3>3. j[k + 1] = Consume(j[k], SenderOfTurn(p, k + 1), Turn(p, k + 1))
      BY <1>2, <3>1, JointUnfolds
    <3> HIDE DEF G, j, n
    <3>4. Like(j[k], j[k])
      BY DEF Like
    <3>5. Turn(p, k + 1).type \in FrameTypes
      BY <1>3, <3>1
    <3> QED BY <3>2, <3>3, <3>4, <3>5, ConsumeLike
  <2>3. G \in SUBSET Nat
    OBVIOUS
  <2> HIDE DEF G
  <2>4. G = Nat
    BY <2>1, <2>2, <2>3, Counting
  <2>5. \A k \in 0 .. n : k \in Nat
    OBVIOUS
  <2> QED BY <2>4, <2>5 DEF G
<1>5. /\ j[0].state = "Init" /\ j[1].state = "AwaitingCapabilities"
      /\ j[2].state = "Ready" /\ j[3].state = "Ready" /\ j[4].state = "Emitting"
  <2>1. (p # Mismatched) \in BOOLEAN
    OBVIOUS
  <2> QED BY <1>1, <2>1, Opened
<1>6. \A k \in 0 .. 4 : ~Failed(j[k])
  <2>1. \A k \in 0 .. 4 : k = 0 \/ k = 1 \/ k = 2 \/ k = 3 \/ k = 4
    OBVIOUS
  <2> QED BY <1>5, <2>1 DEF Failed
<1>7. \A k \in {1, 2, 3, 4, n} : Turn(p, k).type \notin {"Error", "Manifest"}
  <2>1. /\ Turn(p, 1) = Control("Hello") /\ Turn(p, 2) = Capabilities(p # Mismatched)
        /\ Turn(p, 3) = EmitFrame(Request) /\ Turn(p, 4) = ProjectionFrame(TRUE)
        /\ Turn(p, n) = Control("Goodbye")
    BY <1>1, TurnsAre
  <2> QED BY <2>1 DEF Control, Capabilities, EmitFrame, ProjectionFrame, About
<1>8. \A k \in 5 .. n - 1 : Turn(p, k) = p[k].frame
  BY <1>1, TurnsAre
<1>9. (\A k \in 5 .. n - 2 : p[k].frame.type \notin {"Error", "Manifest"})
        => \A k \in 1 .. n : Turn(p, k).type \in {"Error", "Manifest"} => k = n - 1 /\ k >= 5
  <2>1. \A k \in 1 .. n : \/ k \in {1, 2, 3, 4, n}
                          \/ k \in 5 .. n - 2 /\ k \in 5 .. n - 1
                          \/ k = n - 1 /\ k >= 5
    BY <1>2
  <2> HIDE DEF n
  <2> QED BY <1>7, <1>8, <2>1
<1> DEFINE Rest ==
     /\ \A k \in 5 .. n - 2 : p[k].frame.type \notin {"Error", "Manifest"}
     /\ p # Mismatched => /\ Turn(p, n - 1).type \in {"Error", "Manifest"} /\ n >= 6
                          /\ ~Failed(j[n - 1]) => ~Failed(j[n])
     /\ p = Refusing => /\ Turn(p, n - 1).type = "Error" /\ p # Mismatched
                        /\ ~Failed(j[n - 1])
     /\ \A s \in SourceSets :
          p = Rendering(s) => /\ Turn(p, n - 1).type = "Manifest" /\ p # Mismatched
                              /\ Failed(j[n - 1]) <=> ~Fits(s)
<1>10. \A s \in SourceSets : Len(Rendering(s)) \in Nat /\ Len(Rendering(s)) >= 6
  <2> SUFFICES ASSUME NEW s \in SourceSets
               PROVE  Len(Rendering(s)) \in Nat /\ Len(Rendering(s)) >= 6
    OBVIOUS
  <2>1. Places(Rendering(s), s)
    BY RenderingPlaces
  <2> QED BY <2>1 DEF Places
<1>11. CASE p = Mismatched
  <2>1. n = 5 /\ \A k \in 5 .. n - 2 : FALSE
    BY <1>11, OtherPlaces
  <2>2. p # Refusing
    BY <2>1, OtherPlaces
  <2>3. \A s \in SourceSets : p # Rendering(s)
    <3> SUFFICES ASSUME NEW s \in SourceSets, p = Rendering(s) PROVE FALSE
      OBVIOUS
    <3>1. Len(Rendering(s)) = 5
      BY <2>1
    <3> HIDE DEF n, j
    <3>2. PICK r : r = Len(Rendering(s))
      OBVIOUS
    <3>3. r \in Nat /\ r >= 6
      BY <1>10, <3>2
    <3>4. r = 5
      BY <3>1, <3>2
    <3> QED BY <3>3, <3>4
  <2>4. Rest
    BY <1>11, <2>1, <2>2, <2>3
  <2> QED BY <1>1, <1>3, <1>4, <1>5, <1>6, <1>9, <2>4 DEF Course
<1>12. ASSUME NEW s \in SourceSets, p = Rendering(s) PROVE Course(p)
  <2>1. Places(p, s) /\ n >= 6
    BY <1>10, <1>12, RenderingPlaces
  <2>2. \A k \in 5 .. n - 2 : p[k].frame.type \notin {"Error", "Manifest"}
    BY <2>1, ChunksOnly
  <2>3. Turn(p, n - 1).type = "Manifest"
    <3>1. n - 1 \in 5 .. n - 1 /\ n - 1 = 2 * Len(s) + 5
      BY <1>2, <2>1 DEF Places
    <3> QED BY <1>8, <2>1, <3>1 DEF Places, ManifestFrame
  <2>4. p # Mismatched
    <3>1. n # 5
      BY <1>2, <2>1
    <3>2. p = Mismatched => n = 5
      BY OtherPlaces
    <3> QED BY <3>1, <3>2
  <2>5. p # Refusing
    <3>1. Turn(Refusing, 5) = ErrorFrame(Request)
      <4>1. 5 \in 5 .. Len(Refusing) - 1
        BY OtherPlaces
      <4> QED BY <4>1, OtherPlaces, TurnsAre
    <3>2. Turn(Refusing, 5).type = "Error"
      BY <3>1 DEF ErrorFrame, About
    <3>3. p = Refusing => n - 1 = 5
      BY OtherPlaces
    <3> QED BY <2>3, <3>2, <3>3
  <2>6. \A q \in SourceSets : p = Rendering(q) =>
          IF Fits(q) THEN j[n - 1].state = "Ready" /\ j[n].state = "Closed"
                     ELSE Failed(j[n - 1]) /\ Failed(j[n])
    BY RenderingEnds
  <2> HIDE DEF n, j
  <2>7. Rest
    BY <1>12, <2>1, <2>2, <2>3, <2>4, <2>5, <2>6 DEF Failed
  <2> QED BY <1>1, <1>3, <1>4, <1>5, <1>6, <1>9, <2>7 DEF Course, n, j
<1>13. CASE p = Refusing
  <2>1. n = 6 /\ p[5].frame = ErrorFrame(Request)
    BY <1>13, OtherPlaces
  <2>2. \A k \in 5 .. n - 2 : FALSE
    BY <2>1
  <2>3. Turn(p, n - 1).type = "Error"
    <3>1. n - 1 \in 5 .. n - 1 /\ n - 1 = 5
      BY <2>1
    <3> QED BY <1>8, <2>1, <3>1 DEF ErrorFrame, About
  <2>4. p # Mismatched
    BY <2>1, OtherPlaces
  <2>5. ~(\E s \in SourceSets : p = Rendering(s)) \/ Course(p)
    BY <1>12
  <2>6. j[n - 1].state = "Ready" /\ j[n].state = "Closed"
    <3>1. n - 1 = 5
      BY <2>1
    <3> QED BY <1>13, <2>1, <3>1, RefusingEnds
  <2>7. CASE ~(\E s \in SourceSets : p = Rendering(s))
    <3> HIDE DEF n, j
    <3>1. Rest
      BY <2>1, <2>2, <2>3, <2>4, <2>6, <2>7 DEF Failed
    <3> QED BY <1>1, <1>3, <1>4, <1>5, <1>6, <1>9, <3>1 DEF Course, n, j
  <2> QED BY <2>5, <2>7
<1> QED BY <1>1, <1>11, <1>12, <1>13 DEF Kind

-----------------------------------------------------------------------------
(* Catching up                                                             *)

\* A turn taken by a session that is where both are, after the turns before.
LEMMA TakesTurn ==
  ASSUME NEW p, Course(p), NEW k \in 0 .. Len(p) - 1,
         NEW x, IsSession(x), Like(x, Joint(p)[k]),
         NEW y, y = Consume(x, SenderOfTurn(p, k + 1), Turn(p, k + 1))
  PROVE  /\ Like(y, Joint(p)[k + 1]) /\ IsSession(y)
         /\ Failed(y) <=> Failed(Joint(p)[k + 1])
<1>1. Len(p) \in Nat
  BY DEF Course, Packaged
<1>2. k \in 0 .. Len(p) /\ k + 1 \in 1 .. Len(p) /\ (k + 1) - 1 = k
  BY <1>1
<1>3. IsSession(Joint(p)[k]) /\ Turn(p, k + 1).type \in FrameTypes
  BY <1>2 DEF Course
<1>4. Joint(p)[k + 1] = Consume(Joint(p)[k], SenderOfTurn(p, k + 1), Turn(p, k + 1))
  BY <1>1, <1>2, JointUnfolds
<1>5. Like(y, Joint(p)[k + 1]) /\ IsSession(y)
  BY <1>3, <1>4, ConsumeLike
<1> QED BY <1>5 DEF Like, Failed

\* Who takes a turn.
LEMMA SendersAre ==
  ASSUME NEW p, NEW k
  PROVE  /\ p[k].op = "read" => SenderOfTurn(p, k) = Core
         /\ p[k].op = "write" => SenderOfTurn(p, k) = Backend /\ Turn(p, k) = p[k].frame
<1>1. "read" # "write"
  OBVIOUS
<1> QED BY <1>1 DEF SenderOfTurn, Turn

\* Catching up with what is under way takes a session on by as many turns.
LEMMA CatchUpLike ==
  ASSUME NEW p, Course(p), NEW a \in 0 .. Len(p), NEW d, NEW q, Len(q) \in Nat,
         a + Len(q) <= Len(p),
         \A i \in 1 .. Len(q) : SenderOfTurn(p, a + i) = d /\ q[i] = Turn(p, a + i),
         NEW x, IsSession(x), Like(x, Joint(p)[a])
  PROVE  Like(CaughtUp(x, d, q), Joint(p)[a + Len(q)])
<1>0. PICK h : Catching(x, d, q, h)
  BY CatchesUp
<1>1. /\ CaughtUp(x, d, q) = h[Len(q)] /\ h[0] = x
      /\ \A k \in 1 .. Len(q) : h[k] = Consume(h[k - 1], d, q[k])
  BY <1>0 DEF Catching
<1>2. Len(p) \in Nat /\ a \in Nat
  <2>1. Packaged(p)
    BY Zenon DEF Course
  <2>2. Len(p) \in Nat
    BY <2>1, Zenon DEF Packaged
  <2> QED BY <2>2
<1> DEFINE Good(k) == IsSession(h[k]) /\ Like(h[k], Joint(p)[a + k])
           G == {k \in Nat : k \in 0 .. Len(q) => Good(k)}
<1>3. 0 \in G
  <2>1. a + 0 = a
    BY <1>2
  <2>2. Good(0)
    BY <1>1, <2>1
  <2> QED BY <2>2
<1>4. ASSUME NEW k \in G PROVE k + 1 \in G
  <2> SUFFICES ASSUME k + 1 \in 0 .. Len(q) PROVE Good(k + 1)
    OBVIOUS
  <2>1. /\ k \in 0 .. Len(q) /\ k + 1 \in 1 .. Len(q) /\ (k + 1) - 1 = k
        /\ a + k \in 0 .. Len(p) - 1 /\ a + (k + 1) = (a + k) + 1
    BY <1>2
  <2>2. Good(k)
    BY <2>1
  <2> HIDE DEF G
  <2>3. h[k + 1] = Consume(h[k], SenderOfTurn(p, (a + k) + 1), Turn(p, (a + k) + 1))
    <3>1. h[k + 1] = Consume(h[(k + 1) - 1], d, q[k + 1])
      BY <1>1, <2>1
    <3>2. SenderOfTurn(p, a + (k + 1)) = d /\ q[k + 1] = Turn(p, a + (k + 1))
      BY <2>1
    <3> QED BY <2>1, <3>1, <3>2
  <2>4. Like(h[k + 1], Joint(p)[(a + k) + 1]) /\ IsSession(h[k + 1])
    <3>1. PICK b \in 0 .. Len(p) - 1 : b = a + k
      BY <2>1
    <3>2. Like(h[k], Joint(p)[b]) /\ IsSession(h[k])
      BY <2>2, <3>1
    <3>3. h[k + 1] = Consume(h[k], SenderOfTurn(p, b + 1), Turn(p, b + 1))
      BY <2>3, <3>1
    <3>4. Like(h[k + 1], Joint(p)[b + 1]) /\ IsSession(h[k + 1])
      BY <3>2, <3>3, TakesTurn
    <3> QED BY <3>1, <3>4
  <2> QED BY <2>1, <2>4
<1>5. G \in SUBSET Nat
  OBVIOUS
<1> HIDE DEF G
<1>6. G = Nat
  BY <1>3, <1>4, <1>5, Counting
<1>7. Len(q) \in 0 .. Len(q)
  OBVIOUS
<1>8. Good(Len(q))
  BY <1>6, <1>7 DEF G
<1> QED BY <1>1, <1>8

\* The invariant, with the one it is added to.
WholeInv == IInv /\ ExchangeInv

\* Before anything is cancelled, cut short or refused, an exchange is under way.
LEMMA Exchanges ==
  ASSUME WholeInv, program \notin Sessionless, cancels = 0, ~disturbed, pc # "done"
  PROVE  /\ Course(program) /\ Exchanging(program)
         /\ ~expired => AnswerAt(program)
<1>1. program \in Programs
  BY DEF WholeInv, IInv, WiresOK
<1> QED BY <1>1, Courses DEF WholeInv, ExchangeInv, ExchangeOK

\* The invariant says that the two ends agree.
LEMMA InvariantAgrees == WholeInv => EndsAgree
<1> SUFFICES ASSUME WholeInv, child = "running", cancels = 0, pc # "done", program \notin Sessionless
             PROVE  View(CaughtUp(session, Backend, toCore)) = View(CaughtUp(peer, Core, toPeer))
  BY DEF EndsAgree
<1> DEFINE p == program
           n == Len(p)
<1>1. ~disturbed
  BY DEF WholeInv, ExchangeInv, TimeOK
<1>2. Course(p) /\ Exchanging(p)
  BY <1>1, Exchanges
<1> HIDE DEF p
<1>3. PICK k \in 0 .. n : InvokerAt(p, k) /\ ChildAt(p) /\ UnderWay(p, k, at, toPeer, toCore)
  BY <1>2 DEF Exchanging
<1>4. n \in Nat
  BY <1>2 DEF Course, Packaged
<1>5. /\ IsSession(session) /\ IsSession(peer) /\ Len(toCore) \in Nat /\ Len(toPeer) \in Nat
  <2>1. toCore \in Seq(Emitted(program)) /\ toPeer \in Seq(CoreFrames)
    BY DEF WholeInv, IInv, WiresOK
  <2>2. Len(toCore) \in Nat /\ Len(toPeer) \in Nat
    BY <2>1
  <2> QED BY <2>2 DEF WholeInv, IInv, WiresOK
<1>6. Like(session, Joint(p)[k]) /\ Like(peer, Joint(p)[at - 1]) /\ at \in 1 .. n + 1
  BY <1>3 DEF InvokerAt, ChildAt
<1> DEFINE a == at - 1
<1>7. a \in 0 .. n
  BY <1>4, <1>6
<1>8. \E r : Like(CaughtUp(session, Backend, toCore), r) /\ Like(CaughtUp(peer, Core, toPeer), r)
  <2>1. CASE a <= k
    <3>1. /\ Len(toCore) = 0 /\ Len(toPeer) = k - a
          /\ \A i \in 1 .. Len(toPeer) : p[a + i].op = "read" /\ toPeer[i] = Turn(p, a + i)
      BY <1>3, <2>1 DEF UnderWay
    <3>2. k + Len(toCore) = k /\ a + Len(toPeer) = k /\ k <= n /\ \A i \in 1 .. 0 : FALSE
      BY <1>4, <1>7, <3>1
    <3>3. Like(CaughtUp(session, Backend, toCore), Joint(p)[k + Len(toCore)])
      BY <1>2, <1>5, <1>6, <3>1, <3>2, CatchUpLike
    <3>4. \A i \in 1 .. Len(toPeer) : SenderOfTurn(p, a + i) = Core /\ toPeer[i] = Turn(p, a + i)
      BY <3>1, SendersAre
    <3> HIDE DEF a
    <3>5. Like(CaughtUp(peer, Core, toPeer), Joint(p)[a + Len(toPeer)])
      BY <1>2, <1>5, <1>6, <1>7, <3>2, <3>4, CatchUpLike DEF a
    <3> QED BY <3>2, <3>3, <3>5
  <2>2. CASE k < a
    <3>1. /\ Len(toPeer) = 0 /\ Len(toCore) = a - k
          /\ \A i \in 1 .. Len(toCore) : p[k + i].op = "write" /\ toCore[i] = Turn(p, k + i)
      BY <1>3, <2>2 DEF UnderWay
    <3>2. k + Len(toCore) = a /\ a + Len(toPeer) = a /\ a <= n /\ \A i \in 1 .. 0 : FALSE
      BY <1>4, <1>7, <3>1
    <3> HIDE DEF a
    <3>3. Like(CaughtUp(peer, Core, toPeer), Joint(p)[a + Len(toPeer)])
      BY <1>2, <1>5, <1>6, <1>7, <3>1, <3>2, CatchUpLike DEF a
    <3>4. \A i \in 1 .. Len(toCore) : SenderOfTurn(p, k + i) = Backend /\ toCore[i] = Turn(p, k + i)
      BY <3>1, SendersAre
    <3>5. Like(CaughtUp(session, Backend, toCore), Joint(p)[k + Len(toCore)])
      BY <1>2, <1>5, <1>6, <3>2, <3>4, CatchUpLike
    <3> QED BY <3>2, <3>3, <3>5
  <2>3. a <= k \/ k < a
    BY <1>4, <1>7
  <2> QED BY <2>1, <2>2, <2>3
<1> QED BY <1>8 DEF View, Like

-----------------------------------------------------------------------------
(* The steps, and what is under way                                        *)

\* A package's length.
LEMMA CourseLength ==
  ASSUME NEW p, Course(p)
  PROVE  Packaged(p) /\ Len(p) \in Nat /\ Len(p) >= 5
<1>1. Packaged(p)
  BY DEF Course
<1> QED BY <1>1 DEF Packaged

\* The packages keep sessions.
LEMMA PackagesFollow ==
  /\ Refusing \notin Sessionless /\ Mismatched \notin Sessionless
  /\ \A s \in SourceSets : Rendering(s) \notin Sessionless
<1>1. \A s \in SourceSets : Rendering(s) \notin Sessionless
  BY RenderingRenders, RenderingFollows
<1>2. /\ Len(Declining) = 2 /\ Len(Chatty) = 5 /\ Len(Cancellable) = 7
      /\ Chatty[3].op = "write"
  BY DEF Declining, Chatty, Cancellable, Opening, Write
<1>3. Len(Refusing) = 6 /\ Len(Mismatched) = 5 /\ Mismatched[3].op = "read"
  <2>1. Mismatched[3].op = "read"
    BY DEF Mismatched, Opening, Read
  <2> QED BY <2>1, OtherPlaces
<1>4. Refusing # Declining /\ Refusing # Chatty /\ Refusing # Cancellable
  BY <1>2, <1>3
<1>5. Mismatched # Declining /\ Mismatched # Chatty /\ Mismatched # Cancellable
  BY <1>2, <1>3
<1> QED BY <1>1, <1>4, <1>5 DEF Sessionless

\* The answer an undisturbed exchange should come to.
Answer(o) ==
  /\ program = Refusing => o = "peer_error"
  /\ program = Mismatched => o = "E_PACKAGE_BINDING"
  /\ \A s \in SourceSets :
       program = Rendering(s) => o = IF Fits(s) THEN "success" ELSE "E_PROCESS_EXIT"

\* A return keeps the invariant, if what an undisturbed exchange with a package
\* returns is its answer.
LEMMA ReturnKeepsExchange ==
  ASSUME WholeInv, NEW o, Return(o), UNCHANGED <<expired, cancels>>, disturbed => disturbed',
         program \notin Sessionless /\ cancels = 0 /\ ~expired /\ ~disturbed => Answer(o)
  PROVE  ExchangeInv'
<1>1. /\ pc' = "done" /\ outcome' = o /\ child' = "gone"
      /\ UNCHANGED <<late, torn, program>>
  BY DEF Return
<1>2. TimeOK'
  BY <1>1 DEF WholeInv, ExchangeInv, TimeOK
<1>3. ExchangeOK'
  BY <1>1 DEF ExchangeOK
<1>4. UndisturbedAnswer'
  <2> SUFFICES ASSUME ~expired, ~disturbed' PROVE Answer(o)
    BY <1>1 DEF UndisturbedAnswer, Answer
  <2>1. cancels = 0
    BY DEF WholeInv, ExchangeInv, TimeOK
  <2>2. CASE program \in Sessionless
    BY <2>2, PackagesFollow DEF Answer
  <2>3. CASE program \notin Sessionless
    BY <2>1, <2>3
  <2> QED BY <2>2, <2>3
<1> QED BY <1>2, <1>3, <1>4 DEF ExchangeInv

\* The initial states satisfy the invariant.
LEMMA InitiallyWhole == Init => WholeInv
<1> SUFFICES ASSUME Init PROVE WholeInv
  OBVIOUS
<1>1. IInv
  BY Initially
<1>2. TimeOK
  BY DEF Init, TimeOK
<1>3. UndisturbedAnswer
  BY DEF Init, UndisturbedAnswer
<1>4. ASSUME program \notin Sessionless PROVE Exchanging(program) /\ AnswerAt(program)
  <2>1. Course(program)
    BY <1>4, Courses DEF Init
  <2>2. Len(program) \in Nat
    BY <2>1 DEF Course, Packaged
  <2>3. Joint(program)[0] = NewSession /\ ~Failed(NewSession)
    BY <2>2, JointUnfolds DEF Failed, NewSession
  <2>4. InvokerAt(program, 0)
    <3>1. 0 \in 0 .. Len(program) /\ TurnsAt("launch", 0, Len(program))
      BY <2>2 DEF TurnsAt
    <3>2. NewSession.errors = << >> /\ NewSession.completed = << >>
      BY DEF NewSession
    <3> QED BY <2>3, <3>1, <3>2 DEF Init, InvokerAt, Like
  <2>5. ChildAt(program)
    <3>1. 1 \in 1 .. Len(program) + 1 /\ 1 - 1 = 0
      BY <2>2
    <3> QED BY <2>3, <3>1 DEF Init, ChildAt, Like
  <2>6. UnderWay(program, 0, 1, << >>, << >>)
    BY DEF UnderWay
  <2> QED BY <2>2, <2>4, <2>5, <2>6 DEF Init, Exchanging, AnswerAt
<1> QED BY <1>1, <1>2, <1>3, <1>4 DEF WholeInv, ExchangeInv, ExchangeOK

\* Whose turn it is when something is under way.
LEMMA WaysAre ==
  ASSUME NEW p, Len(p) \in Nat, NEW k \in 0 .. Len(p), NEW a \in 1 .. Len(p) + 1,
         NEW down, NEW up, UnderWay(p, k, a, down, up)
  PROVE  /\ k + 1 <= Len(p) /\ p[k + 1].op = "read" => a - 1 <= k
         /\ a <= Len(p) /\ p[a].op = "write" => k <= a - 1
<1>1. ASSUME k < a - 1 PROVE p[k + 1].op = "write"
  <2>1. Len(up) = (a - 1) - k /\ \A i \in 1 .. Len(up) : p[k + i].op = "write"
    BY <1>1 DEF UnderWay
  <2>2. 1 \in 1 .. Len(up)
    BY <1>1, <2>1
  <2> QED BY <2>1, <2>2
<1>2. ASSUME a - 1 < k PROVE p[a].op = "read"
  <2>1. Len(down) = k - (a - 1) /\ \A i \in 1 .. Len(down) : p[(a - 1) + i].op = "read"
    BY <1>2 DEF UnderWay
  <2>2. 1 \in 1 .. Len(down) /\ (a - 1) + 1 = a
    BY <1>2, <2>1
  <2> QED BY <2>1, <2>2
<1>3. k \in Int /\ a - 1 \in Int
  OBVIOUS
<1> QED BY <1>1, <1>2, <1>3

\* The frames the invoker sends, when it does not cancel.
Sending(f, next) ==
  \/ pc = "hello" /\ f = Control("Hello") /\ next = "handshake"
  \/ pc = "emit" /\ f = EmitFrame(Request) /\ next = "projection"
  \/ pc = "projection" /\ f = ProjectionFrame(TRUE) /\ next = "collect"
  \/ pc = "goodbye" /\ f = Control("Goodbye") /\ next = "exit"

\* What the invoker sends is the next turn, and it does not fail.
LEMMA SendsTurn ==
  ASSUME NEW p, Course(p), NEW k \in 0 .. Len(p), InvokerAt(p, k),
         NEW f, NEW next, Sending(f, next)
  PROVE  /\ k \in 0 .. Len(p) - 1 /\ p[k + 1].op = "read" /\ Turn(p, k + 1) = f
         /\ TurnsAt(next, k + 1, Len(p)) /\ ~Failed(Joint(p)[k + 1])
<1> DEFINE n == Len(p)
           j == Joint(p)
<1>1. /\ n \in Nat /\ n >= 5
      /\ \A i \in 1 .. n : p[i].op = IF i \in {1, 3, 4, n} THEN "read" ELSE "write"
  BY DEF Course, Packaged
<1>2. /\ Turn(p, 1) = Control("Hello") /\ Turn(p, 3) = EmitFrame(Request)
      /\ Turn(p, 4) = ProjectionFrame(TRUE) /\ Turn(p, n) = Control("Goodbye")
  <2>1. Packaged(p)
    BY DEF Course
  <2> QED BY <2>1, TurnsAre
<1>3. \A i \in 0 .. 4 : ~Failed(j[i])
  BY DEF Course
<1>4. ~Failed(j[k])
  BY DEF InvokerAt, Like, Failed
<1>5. p # Mismatched \/ pc = "hello"
  BY DEF InvokerAt, Sending
<1>6. CASE pc = "hello"
  <2>1. k = 0 /\ f = Control("Hello") /\ next = "handshake"
    BY <1>6 DEF InvokerAt, TurnsAt, Sending
  <2>2. k + 1 = 1 /\ k \in 0 .. n - 1 /\ 1 \in 1 .. n /\ 1 \in 0 .. 4
    BY <1>1, <2>1
  <2> QED BY <1>1, <1>2, <1>3, <2>1, <2>2 DEF TurnsAt
<1>7. CASE pc = "emit"
  <2>1. k = 2 /\ f = EmitFrame(Request) /\ next = "projection"
    BY <1>7 DEF InvokerAt, TurnsAt, Sending
  <2>2. k + 1 = 3 /\ k \in 0 .. n - 1 /\ 3 \in 1 .. n /\ 3 \in 0 .. 4
    BY <1>1, <2>1
  <2> QED BY <1>1, <1>2, <1>3, <2>1, <2>2 DEF TurnsAt
<1>8. CASE pc = "projection"
  <2>1. k = 3 /\ f = ProjectionFrame(TRUE) /\ next = "collect"
    BY <1>8 DEF InvokerAt, TurnsAt, Sending
  <2>2. k + 1 = 4 /\ k \in 0 .. n - 1 /\ 4 \in 1 .. n /\ 4 \in 0 .. 4 /\ 4 \in 4 .. n - 1
    BY <1>1, <2>1
  <2> QED BY <1>1, <1>2, <1>3, <2>1, <2>2 DEF TurnsAt
<1>9. CASE pc = "goodbye"
  <2>1. k = n - 1 /\ f = Control("Goodbye") /\ next = "exit"
    BY <1>9 DEF InvokerAt, TurnsAt, Sending
  <2>2. k + 1 = n /\ k \in 0 .. n - 1 /\ n \in 1 .. n
    BY <1>1, <2>1
  <2>3. ~Failed(j[n])
    BY <1>4, <1>5, <1>9, <2>1 DEF Course
  <2>4. /\ n # 1 /\ n # 3 /\ n # 4
    BY <1>1
  <2> QED BY <1>1, <1>2, <2>1, <2>2, <2>3, <2>4 DEF TurnsAt
<1> QED BY <1>6, <1>7, <1>8, <1>9 DEF Sending

\* A child whose next turn is a read that does not fail has not stopped.
LEMMA ChildReads ==
  ASSUME NEW p, Course(p), NEW k \in 0 .. Len(p) - 1, InvokerAt(p, k), ChildAt(p),
         UnderWay(p, k, at, toPeer, toCore), pc # "launch",
         p[k + 1].op = "read", ~Failed(Joint(p)[k + 1])
  PROVE  child = "running"
<1> DEFINE n == Len(p)
           j == Joint(p)
<1>1. n \in Nat /\ Packaged(p) /\ k \in 0 .. n /\ k + 1 <= n
  BY CourseLength
<1>2. ~Failed(j[k])
  BY DEF InvokerAt, Like, Failed
<1>3. at \in 1 .. n + 1
  BY <1>1 DEF ChildAt
<1>4. at - 1 <= k
  BY <1>1, <1>3, WaysAre
<1>5. ASSUME at \in 1 .. n, Failed(j[at]) PROVE FALSE
  <2>1. at \in 0 .. n /\ k + 1 \in at .. n
    BY <1>1, <1>4, <1>5
  <2> QED BY <1>1, <1>5, <2>1, FailureStays
<1>6. ASSUME at = n + 1 PROVE FALSE
  BY <1>1, <1>4, <1>6
<1> QED BY <1>5, <1>6 DEF ChildAt

\* The core sends the next turn.
LEMMA SendsOne ==
  ASSUME NEW p, NEW k \in Nat, NEW a \in Nat \ {0}, a - 1 <= k, NEW D, NEW down \in Seq(D), NEW up,
         UnderWay(p, k, a, down, up), p[k + 1].op = "read", NEW f \in D, f = Turn(p, k + 1)
  PROVE  UnderWay(p, k + 1, a, Append(down, f), up)
<1> DEFINE q == Append(down, f)
<1>1. /\ Len(up) = 0 /\ Len(down) = k - (a - 1)
      /\ \A i \in 1 .. Len(down) : p[(a - 1) + i].op = "read" /\ down[i] = Turn(p, (a - 1) + i)
  BY DEF UnderWay
<1>2. /\ Len(q) = Len(down) + 1 /\ q[Len(down) + 1] = f
      /\ \A i \in 1 .. Len(down) : q[i] = down[i]
  OBVIOUS
<1> HIDE DEF q
<1>3. a - 1 <= k + 1 /\ ~(k + 1 < a - 1) /\ Len(q) = (k + 1) - (a - 1) /\ Len(down) \in Nat
  BY <1>1, <1>2
<1>4. ASSUME NEW i \in 1 .. Len(q)
      PROVE  p[(a - 1) + i].op = "read" /\ q[i] = Turn(p, (a - 1) + i)
  <2>1. CASE i \in 1 .. Len(down)
    BY <1>1, <1>2, <2>1
  <2>2. CASE i = Len(down) + 1
    <3>1. (a - 1) + i = k + 1
      BY <1>1, <2>2
    <3> QED BY <1>2, <2>2, <3>1
  <2>3. i \in 1 .. Len(down) \/ i = Len(down) + 1
    BY <1>2, <1>3
  <2> QED BY <2>1, <2>2, <2>3
<1> QED BY <1>1, <1>3, <1>4 DEF UnderWay, q

\* The child writes the next turn.
LEMMA WritesOne ==
  ASSUME NEW p, NEW k \in Nat, NEW a \in Nat \ {0}, k <= a - 1, NEW down, NEW D, NEW up \in Seq(D),
         Len(down) \in Nat,
         UnderWay(p, k, a, down, up), p[a].op = "write", NEW f \in D, f = Turn(p, a)
  PROVE  UnderWay(p, k, a + 1, down, Append(up, f))
<1> DEFINE q == Append(up, f)
<1>1. /\ Len(down) = 0 /\ Len(up) = (a - 1) - k
      /\ \A i \in 1 .. Len(up) : p[k + i].op = "write" /\ up[i] = Turn(p, k + i)
  <2>1. CASE k < a - 1
    BY <2>1 DEF UnderWay
  <2>2. CASE k = a - 1
    <3>1. a - 1 <= k
      BY <2>2
    <3>2. Len(up) = 0 /\ Len(down) = k - (a - 1)
      BY <3>1 DEF UnderWay
    <3> QED BY <2>2, <3>2
  <2> QED BY <2>1, <2>2
<1>2. /\ Len(q) = Len(up) + 1 /\ q[Len(up) + 1] = f
      /\ \A i \in 1 .. Len(up) : q[i] = up[i]
  OBVIOUS
<1> HIDE DEF q
<1>3. k < (a + 1) - 1 /\ ~((a + 1) - 1 <= k) /\ Len(q) = ((a + 1) - 1) - k /\ Len(up) \in Nat
  BY <1>1, <1>2
<1>4. ASSUME NEW i \in 1 .. Len(q)
      PROVE  p[k + i].op = "write" /\ q[i] = Turn(p, k + i)
  <2>1. CASE i \in 1 .. Len(up)
    BY <1>1, <1>2, <2>1
  <2>2. CASE i = Len(up) + 1
    <3>1. k + i = a
      BY <1>1, <2>2
    <3> QED BY <1>2, <2>2, <3>1
  <2>3. i \in 1 .. Len(up) \/ i = Len(up) + 1
    BY <1>2, <1>3
  <2> QED BY <2>1, <2>2, <2>3
<1> QED BY <1>1, <1>3, <1>4 DEF UnderWay, q

\* The child reads the turn it is at.
LEMMA ReadsOne ==
  ASSUME NEW p, NEW k \in Nat, NEW a \in Nat \ {0}, NEW D, NEW down \in Seq(D), NEW up,
         UnderWay(p, k, a, down, up), down # << >>
  PROVE  /\ a <= k /\ Head(down) = Turn(p, a) /\ p[a].op = "read"
         /\ UnderWay(p, k, a + 1, Tail(down), up)
<1>1. Len(down) \in Nat /\ Len(down) # 0
  OBVIOUS
<1>2. a - 1 <= k
  <2>1. ~(k < a - 1)
    BY <1>1 DEF UnderWay
  <2> QED BY <2>1
<1>3. /\ Len(up) = 0 /\ Len(down) = k - (a - 1)
      /\ \A i \in 1 .. Len(down) : p[(a - 1) + i].op = "read" /\ down[i] = Turn(p, (a - 1) + i)
  BY <1>2 DEF UnderWay
<1>4. a <= k /\ 1 \in 1 .. Len(down) /\ (a - 1) + 1 = a
  BY <1>1, <1>3
<1>5. p[a].op = "read" /\ down[1] = Turn(p, a) /\ Head(down) = down[1]
  <2>1. p[(a - 1) + 1].op = "read" /\ down[1] = Turn(p, (a - 1) + 1)
    BY <1>3, <1>4
  <2> QED BY <1>4, <2>1
<1> DEFINE q == Tail(down)
<1>6. Len(q) = Len(down) - 1 /\ \A i \in 1 .. Len(q) : q[i] = down[i + 1]
  BY <1>1
<1> HIDE DEF q
<1>7. (a + 1) - 1 <= k /\ ~(k < (a + 1) - 1) /\ Len(q) = k - ((a + 1) - 1) /\ Len(q) \in Nat
  BY <1>1, <1>3, <1>4, <1>6
<1>8. ASSUME NEW i \in 1 .. Len(q)
      PROVE  p[((a + 1) - 1) + i].op = "read" /\ q[i] = Turn(p, ((a + 1) - 1) + i)
  <2>1. i + 1 \in 1 .. Len(down) /\ (a - 1) + (i + 1) = ((a + 1) - 1) + i
    BY <1>1, <1>6
  <2>2. p[(a - 1) + (i + 1)].op = "read" /\ down[i + 1] = Turn(p, (a - 1) + (i + 1))
    BY <1>3, <2>1
  <2> QED BY <1>6, <2>1, <2>2
<1>9. UnderWay(p, k, a + 1, q, up)
  BY <1>3, <1>7, <1>8 DEF UnderWay
<1> QED BY <1>4, <1>5, <1>9 DEF q

\* The invoker reads the next turn.
LEMMA ReceivesOne ==
  ASSUME NEW p, NEW k \in Nat, NEW a \in Nat \ {0}, NEW down, NEW D, NEW up \in Seq(D),
         UnderWay(p, k, a, down, up), up # << >>
  PROVE  /\ k + 1 <= a - 1 /\ Head(up) = Turn(p, k + 1) /\ p[k + 1].op = "write"
         /\ UnderWay(p, k + 1, a, down, Tail(up))
<1>1. Len(up) \in Nat /\ Len(up) # 0
  OBVIOUS
<1>2. k < a - 1
  <2>1. ~(a - 1 <= k)
    BY <1>1 DEF UnderWay
  <2> QED BY <2>1
<1>3. /\ Len(down) = 0 /\ Len(up) = (a - 1) - k
      /\ \A i \in 1 .. Len(up) : p[k + i].op = "write" /\ up[i] = Turn(p, k + i)
  BY <1>2 DEF UnderWay
<1>4. k + 1 <= a - 1 /\ 1 \in 1 .. Len(up)
  BY <1>1, <1>3
<1>5. p[k + 1].op = "write" /\ up[1] = Turn(p, k + 1) /\ Head(up) = up[1]
  BY <1>3, <1>4
<1> DEFINE q == Tail(up)
<1>6. Len(q) = Len(up) - 1 /\ \A i \in 1 .. Len(q) : q[i] = up[i + 1]
  BY <1>1
<1> HIDE DEF q
<1>7. Len(q) = (a - 1) - (k + 1) /\ Len(q) \in Nat
  BY <1>1, <1>3, <1>4, <1>6
<1>8. ASSUME NEW i \in 1 .. Len(q)
      PROVE  p[(k + 1) + i].op = "write" /\ q[i] = Turn(p, (k + 1) + i)
  <2>1. i + 1 \in 1 .. Len(up) /\ k + (i + 1) = (k + 1) + i
    BY <1>1, <1>6
  <2>2. p[k + (i + 1)].op = "write" /\ up[i + 1] = Turn(p, k + (i + 1))
    BY <1>3, <2>1
  <2> QED BY <1>6, <2>1, <2>2
<1>9. UnderWay(p, k + 1, a, down, q)
  <2>1. CASE k + 1 < a - 1
    <3>1. ~(a - 1 <= k + 1)
      BY <2>1
    <3> QED BY <1>3, <1>7, <1>8, <2>1, <3>1 DEF UnderWay
  <2>2. CASE k + 1 = a - 1
    <3>1. ~(k + 1 < a - 1) /\ (k + 1) - (a - 1) = 0 /\ (a - 1) - (k + 1) = 0 /\ \A i \in 1 .. 0 : FALSE
      BY <2>2
    <3>2. Len(down) = 0 /\ Len(q) = 0 /\ Len(down) = (k + 1) - (a - 1)
      BY <1>3, <1>7, <3>1
    <3> QED BY <3>1, <3>2 DEF UnderWay
  <2> QED BY <1>4, <2>1, <2>2
<1> QED BY <1>4, <1>5, <1>9 DEF q

-----------------------------------------------------------------------------
(* The invoker sends                                                       *)

\* The types of what is on the wires.
LEMMA WireTypes ==
  ASSUME WholeInv
  PROVE  /\ program \in Programs /\ at \in Nat \ {0} /\ cancels \in Nat
         /\ IsSession(session) /\ IsSession(peer)
         /\ toCore \in Seq(Emitted(program)) /\ toPeer \in Seq(CoreFrames)
         /\ Len(toCore) \in Nat /\ Len(toPeer) \in Nat
<1>1. toCore \in Seq(Emitted(program)) /\ toPeer \in Seq(CoreFrames)
  BY DEF WholeInv, IInv, WiresOK
<1>2. Len(toCore) \in Nat /\ Len(toPeer) \in Nat
  BY <1>1
<1> QED BY <1>1, <1>2 DEF WholeInv, IInv, WiresOK

\* The invoker in an exchange under way, after k turns.
Under(p, k) ==
  /\ Course(p) /\ Packaged(p) /\ Len(p) \in Nat /\ Len(p) >= 5
  /\ k \in 0 .. Len(p) /\ InvokerAt(p, k) /\ ChildAt(p)
  /\ UnderWay(p, k, at, toPeer, toCore)
  /\ k \in Nat /\ at \in 1 .. Len(p) + 1

\* An exchange is under way.
LEMMA IsUnder ==
  ASSUME WholeInv, program \notin Sessionless, cancels = 0, ~disturbed, pc # "done"
  PROVE  \E k : Under(program, k) /\ (~expired => AnswerAt(program))
<1>1. /\ Course(program) /\ Exchanging(program)
      /\ ~expired => AnswerAt(program)
  BY Exchanges
<1>2. Packaged(program) /\ Len(program) \in Nat /\ Len(program) >= 5
  BY <1>1, CourseLength
<1>3. PICK k \in 0 .. Len(program) :
        InvokerAt(program, k) /\ ChildAt(program) /\ UnderWay(program, k, at, toPeer, toCore)
  BY <1>1 DEF Exchanging
<1>4. k \in Nat
  BY <1>2
<1>5. at \in 1 .. Len(program) + 1
  <2>1. at \in 1 .. Len(program) => at \in 1 .. Len(program) + 1
    BY <1>2
  <2>2. at = Len(program) + 1 => at \in 1 .. Len(program) + 1
    BY <1>2
  <2> QED BY <1>3, <2>1, <2>2 DEF ChildAt
<1> QED BY <1>1, <1>2, <1>3, <1>4, <1>5 DEF Under

\* Launch keeps the invariant.
LEMMA LaunchKeepsExchange == WholeInv /\ Launch => ExchangeInv'
<1> SUFFICES ASSUME WholeInv, Launch PROVE ExchangeInv'
  OBVIOUS
<1>1. pc = "launch" /\ UNCHANGED <<session, toPeer, toCore, expired, cancels>>
  BY DEF Launch
<1>2. CASE Return("E_PROCESS") /\ disturbed' = TRUE
  <2>1. UNCHANGED <<late, torn, program>> /\ pc' = "done"
    BY <1>2 DEF Return
  <2>2. TimeOK'
    BY <1>1, <1>2, <2>1 DEF WholeInv, ExchangeInv, TimeOK
  <2> QED BY <1>2, <2>1, <2>2 DEF ExchangeInv, ExchangeOK, UndisturbedAnswer
<1>3. CASE /\ pc' = "hello" /\ child' = "running"
           /\ UNCHANGED <<late, torn, emission, report, outcome, program, at, peer, clean,
                          disturbed>>
  <2>1. TimeOK'
    <3>1. child = "absent"
      BY <1>1 DEF WholeInv, IInv, ChildOK
    <3>2. ~disturbed
      BY <1>1, <3>1 DEF WholeInv, ExchangeInv, TimeOK
    <3> QED BY <1>1, <1>3, <3>2 DEF WholeInv, ExchangeInv, TimeOK
  <2>2. UndisturbedAnswer'
    BY <1>3 DEF UndisturbedAnswer
  <2>3. ASSUME program \notin Sessionless, cancels = 0, ~disturbed
        PROVE  Exchanging(program)' /\ (~expired => AnswerAt(program)')
    <3>1. PICK k : Under(program, k) /\ (~expired => AnswerAt(program))
      BY <1>1, <2>3, IsUnder
    <3>2. InvokerAt(program, k)'
      BY <1>1, <1>3, <3>1 DEF Under, InvokerAt, TurnsAt
    <3>3. ChildAt(program)'
      <4>1. child = "absent"
        BY <1>1 DEF WholeInv, IInv, ChildOK
      <4>2. /\ at \in 1 .. Len(program) + 1
            /\ Like(peer, Joint(program)[at - 1]) /\ ~Failed(peer)
        BY <3>1, <4>1 DEF Under, ChildAt
      <4> QED BY <1>1, <1>3, <4>2 DEF ChildAt
    <3>4. UnderWay(program, k, at, toPeer, toCore)'
      BY <1>1, <1>3, <3>1 DEF Under, UnderWay
    <3>5. AnswerAt(program)'
      BY <1>3 DEF AnswerAt
    <3>6. k \in 0 .. Len(program')
      BY <1>3, <3>1 DEF Under
    <3> QED BY <1>3, <3>2, <3>3, <3>4, <3>5, <3>6 DEF Exchanging
  <2>4. ExchangeOK'
    <3>1. UNCHANGED <<program, cancels, disturbed, expired>>
      BY <1>1, <1>3
    <3> QED BY <2>3, <3>1 DEF ExchangeOK
  <2> QED BY <2>1, <2>2, <2>4 DEF ExchangeInv
<1> QED BY <1>2, <1>3 DEF Launch

\* Sending the next turn keeps the invariant.
LEMMA SendKeepsExchange ==
  ASSUME WholeInv, NEW f, NEW next, Sending(f, next), Send(f, next)
  PROVE  ExchangeInv'
<1> DEFINE s == Consume(session, Core, f)
           p == program
<1>1. session' = s /\ UNCHANGED toCore
  BY DEF Send
<1>2. /\ pc \in {"hello", "emit", "projection", "goodbye"}
      /\ next \in {"handshake", "projection", "collect", "exit"}
      /\ f \in CoreFrames /\ f.type \notin {"Cancel", "Error", "Manifest"}
  BY DEF Sending, CoreFrames, Control, EmitFrame, ProjectionFrame, About
<1> DEFINE Due(k) == /\ Under(p, k) /\ (~expired => AnswerAt(p))
                     /\ k \in 0 .. Len(p) - 1 /\ p[k + 1].op = "read" /\ Turn(p, k + 1) = f
                     /\ TurnsAt(next, k + 1, Len(p)) /\ child = "running"
                     /\ Like(s, Joint(p)[k + 1]) /\ ~Failed(s)
                     /\ s.errors = << >> /\ s.completed = << >>
<1>3. ASSUME program \notin Sessionless, cancels = 0, ~disturbed
      PROVE  \E k : Due(k)
  <2>1. PICK k : Under(p, k) /\ (~expired => AnswerAt(p))
    BY <1>2, <1>3, IsUnder
  <2>2. /\ k \in 0 .. Len(p) - 1 /\ p[k + 1].op = "read" /\ Turn(p, k + 1) = f
        /\ TurnsAt(next, k + 1, Len(p)) /\ ~Failed(Joint(p)[k + 1])
    BY <2>1, SendsTurn DEF Under
  <2>3. child = "running"
    BY <1>2, <2>1, <2>2, ChildReads DEF Under
  <2>4. IsSession(session) /\ Like(session, Joint(p)[k])
    BY <2>1, WireTypes DEF Under, InvokerAt
  <2>5. s = Consume(session, SenderOfTurn(p, k + 1), Turn(p, k + 1))
    BY <2>2, SendersAre
  <2>6. f.type \in FrameTypes
    BY <1>2, PlainTypes
  <2> HIDE DEF s, p
  <2>7. Like(s, Joint(p)[k + 1]) /\ ~Failed(s)
    BY <2>1, <2>2, <2>4, <2>5, TakesTurn DEF Under
  <2>8. s.errors = << >> /\ s.completed = << >>
    <3>1. session.errors = << >> /\ session.completed = << >>
      BY <2>1 DEF Under, InvokerAt
    <3> QED BY <1>2, <2>4, <2>6, <3>1, ConsumeResults DEF s
  <2> QED BY <2>1, <2>2, <2>3, <2>7, <2>8
<1> HIDE DEF s, p
<1>4. ASSUME NEW o, Return(o), UNCHANGED <<toPeer, history>>,
             Failed(s) \/ late \/ child # "running"
      PROVE  ExchangeInv'
  <2>1. UNCHANGED <<expired, cancels, disturbed>>
    BY <1>4 DEF history
  <2>2. late => expired
    BY DEF WholeInv, ExchangeInv, TimeOK
  <2>3. ~(program \notin Sessionless /\ cancels = 0 /\ ~expired /\ ~disturbed)
    BY <1>3, <1>4, <2>2
  <2> QED BY <1>4, <2>1, <2>3, ReturnKeepsExchange
<1>5. ASSUME toPeer' = Append(toPeer, f), pc' = next,
             UNCHANGED <<late, torn, emission, report, outcome, process, expired, disturbed>>,
             cancels' = IF f.type = "Cancel" THEN cancels + 1 ELSE cancels
      PROVE  ExchangeInv'
  <2>1. UNCHANGED <<program, at, peer, child, clean, cancels>>
    BY <1>2, <1>5 DEF process
  <2>2. TimeOK'
    BY <1>2, <1>5, <2>1 DEF WholeInv, ExchangeInv, TimeOK
  <2>3. UndisturbedAnswer'
    BY <1>2, <1>5 DEF UndisturbedAnswer
  <2>4. ASSUME program \notin Sessionless, cancels = 0, ~disturbed
        PROVE  Exchanging(program)' /\ (~expired => AnswerAt(program)')
    <3>1. PICK k : Due(k)
      BY <1>3, <2>4
    <3>2. k + 1 \in 0 .. Len(p)
      BY <3>1 DEF Under
    <3>3. InvokerAt(p, k + 1)'
      <4>1. ~Failed(s) /\ Like(s, Joint(p)[k + 1]) /\ TurnsAt(next, k + 1, Len(p))
        BY <3>1
      <4>2. p = Mismatched => pc = "hello"
        BY <1>2, <3>1 DEF Under, InvokerAt
      <4>3. p = Mismatched => next = "handshake"
        BY <4>2 DEF Sending
      <4>4. p' = p
        BY <2>1 DEF p
      <4> QED BY <1>1, <1>5, <3>1, <3>2, <4>1, <4>3, <4>4 DEF InvokerAt
    <3>4. ChildAt(p)'
      <4>1. pc' # "launch" /\ pc # "launch"
        BY <1>2, <1>5
      <4> QED BY <2>1, <3>1, <4>1 DEF Under, ChildAt, p
    <3>5. UnderWay(p, k + 1, at, toPeer', toCore)
      <4>1. at \in Nat \ {0} /\ toPeer \in Seq(CoreFrames)
        BY WireTypes
      <4>2. at - 1 <= k
        <5>1. k + 1 <= Len(p)
          BY <3>1 DEF Under
        <5> QED BY <3>1, <5>1, WaysAre DEF Under
      <4> QED BY <1>2, <1>5, <3>1, <4>1, <4>2, SendsOne DEF Under
    <3>6. ~expired => AnswerAt(program)'
      BY <1>2, <1>5, <2>1, <3>1 DEF AnswerAt, p, Sending
    <3>7. Exchanging(program)'
      <4>1. program' = program /\ at' = at /\ toCore' = toCore
        BY <1>1, <2>1
      <4> QED BY <3>2, <3>3, <3>4, <3>5, <4>1 DEF Exchanging, p
    <3> QED BY <3>6, <3>7
  <2>5. ExchangeOK'
    BY <1>5, <2>1, <2>4 DEF ExchangeOK
  <2> QED BY <2>2, <2>3, <2>5 DEF ExchangeInv
<1> QED BY <1>4, <1>5 DEF Send, s, Connected, Failed

\* The five sends keep the invariant.
LEMMA SendsKeepExchange ==
  WholeInv /\ (SendHello \/ SendEmit \/ SendProjection \/ SendCancel \/ SendGoodbye) => ExchangeInv'
<1>1. ASSUME WholeInv, SendHello \/ SendEmit \/ SendProjection \/ SendGoodbye PROVE ExchangeInv'
  <2>1. PICK f, next : Sending(f, next) /\ Send(f, next)
    BY <1>1, Zenon DEF SendHello, SendEmit, SendProjection, SendGoodbye, Sending
  <2> QED BY <1>1, <2>1, SendKeepsExchange
<1>2. ASSUME WholeInv, SendCancel PROVE ExchangeInv'
  <2>1. pc = "cancel" /\ expired /\ CancelFrame(Request).type = "Cancel"
    BY <1>2 DEF SendCancel, WholeInv, ExchangeInv, TimeOK, CancelFrame, About
  <2>2. CASE \E o : Return(o) /\ UNCHANGED history
    BY <1>2, <2>1, <2>2, ReturnKeepsExchange DEF history
  <2>3. CASE /\ pc' = "cancelling" /\ cancels' = cancels + 1
             /\ UNCHANGED <<late, torn, process, expired, disturbed>>
    <3>1. cancels' # 0
      BY <1>2, <2>3, WireTypes
    <3>2. TimeOK'
      BY <1>2, <2>1, <2>3, <3>1 DEF WholeInv, ExchangeInv, TimeOK, process
    <3> QED BY <2>1, <2>3, <3>1, <3>2 DEF ExchangeInv, ExchangeOK, UndisturbedAnswer
  <2> QED BY <1>2, <2>1, <2>2, <2>3 DEF SendCancel, Send
<1> QED BY <1>1, <1>2

-----------------------------------------------------------------------------
(* The invoker receives                                                    *)

\* No turn the child has taken failed.
LEMMA ChildHasNotFailed ==
  ASSUME NEW p, NEW k, Under(p, k), NEW i \in 0 .. at - 1
  PROVE  ~Failed(Joint(p)[i])
<1>1. ~Failed(Joint(p)[at - 1])
  BY DEF Under, ChildAt, Like, Failed
<1>2. /\ Packaged(p) /\ Len(p) \in Nat /\ at \in 1 .. Len(p) + 1
  BY DEF Under
<1>3. i \in 0 .. Len(p) /\ at - 1 \in i .. Len(p)
  BY <1>2
<1> QED BY <1>1, <1>2, <1>3, FailureStays

\* What is to be read, in an exchange under way, is the next turn, and it does
\* not fail.
ReadsTurn(p, k, f, s) ==
  /\ Under(p, k) /\ (~expired => AnswerAt(p))
  /\ pc \in {"handshake", "collect"}
  /\ k + 1 \in 1 .. Len(p) /\ f = Turn(p, k + 1) /\ p[k + 1].op = "write"
  /\ UnderWay(p, k + 1, at, toPeer, Tail(toCore))
  /\ IsSession(s) /\ Like(s, Joint(p)[k + 1]) /\ ~Failed(s)
  /\ s.errors # << >> <=> f.type = "Error"
  /\ s.completed # << >> <=> f.type = "Manifest"

\* The invoker reads the next turn.
LEMMA ReceivesTurn ==
  ASSUME WholeInv, Reading, toCore # << >>,
         NEW f \in IF torn THEN Garbage ELSE {Head(toCore)},
         NEW s, s = Consume(session, Backend, f),
         program \notin Sessionless, cancels = 0, ~disturbed
  PROVE  \E k : ReadsTurn(program, k, f, s)
<1> DEFINE p == program
<1>1. pc \in {"handshake", "collect"} /\ ~torn
  BY DEF WholeInv, ExchangeInv, TimeOK, Reading
<1>2. PICK k : Under(p, k) /\ (~expired => AnswerAt(p))
  BY <1>1, IsUnder
<1> HIDE DEF p
<1>3. f = Head(toCore)
  BY <1>1
<1>4. k + 1 <= at - 1 /\ f = Turn(p, k + 1) /\ p[k + 1].op = "write"
      /\ UnderWay(p, k + 1, at, toPeer, Tail(toCore))
  <2>1. toCore \in Seq(Emitted(program)) /\ at \in Nat \ {0}
    BY WireTypes
  <2> QED BY <1>2, <1>3, <2>1, ReceivesOne DEF Under
<1>5. /\ k + 1 \in 1 .. Len(p) /\ k \in 0 .. Len(p) - 1 /\ k + 1 \in 0 .. at - 1
  BY <1>2, <1>4 DEF Under
<1>6. ~Failed(Joint(p)[k + 1])
  BY <1>2, <1>5, ChildHasNotFailed
<1>7. s = Consume(session, SenderOfTurn(p, k + 1), Turn(p, k + 1))
  BY <1>4, SendersAre
<1>8. /\ IsSession(session) /\ Like(session, Joint(p)[k])
      /\ session.errors = << >> /\ session.completed = << >>
  BY <1>2, WireTypes DEF Under, InvokerAt
<1>9. IsSession(s) /\ Like(s, Joint(p)[k + 1]) /\ ~Failed(s)
  BY <1>2, <1>5, <1>6, <1>7, <1>8, TakesTurn DEF Under
<1>10. f.type \in FrameTypes
  BY <1>2, <1>4, <1>5 DEF Under, Course
<1>11. /\ s.errors # << >> <=> f.type = "Error"
       /\ s.completed # << >> <=> f.type = "Manifest"
  BY <1>8, <1>9, <1>10, ConsumeResults
<1> QED BY <1>1, <1>2, <1>4, <1>5, <1>9, <1>11 DEF ReadsTurn, p

\* The turn read is taken: the exchange is under way after it.
LEMMA TurnTaken ==
  ASSUME WholeInv, NEW k, NEW f, NEW s, ReadsTurn(program, k, f, s),
         session' = [s EXCEPT !.errors = << >>]
           \/ session' = [s EXCEPT !.errors = << >>, !.completed = << >>],
         f.type = "Manifest" => session' = [s EXCEPT !.errors = << >>, !.completed = << >>],
         UNCHANGED <<process, toPeer>>, toCore' = Tail(toCore),
         TurnsAt(pc', k + 1, Len(program)), pc' # "launch", program # Mismatched
  PROVE  Exchanging(program)'
<1> DEFINE p == program
<1>1. UNCHANGED <<program, at, peer, child, clean>>
  BY DEF process
<1>2. k + 1 \in 0 .. Len(p)
  BY DEF ReadsTurn, Under
<1>3. /\ IsSession(s) /\ Like(s, Joint(p)[k + 1]) /\ ~Failed(s)
      /\ s.completed # << >> <=> f.type = "Manifest"
  BY DEF ReadsTurn
<1> HIDE DEF p
<1>4. /\ Like(session', Joint(p)[k + 1]) /\ ~Failed(session')
      /\ session'.errors = << >> /\ session'.completed = << >>
  BY <1>3 DEF IsSession, NewSession, Like, Failed
<1>5. InvokerAt(p, k + 1)'
  <2>1. p' = p
    BY <1>1 DEF p
  <2> QED BY <1>2, <1>4, <2>1 DEF InvokerAt, p
<1>6. ChildAt(p)'
  <2>1. ChildAt(p) /\ pc # "launch"
    BY DEF ReadsTurn, Under, p
  <2> QED BY <1>1, <2>1 DEF ChildAt, p
<1>7. UnderWay(p, k + 1, at, toPeer, Tail(toCore))
  BY DEF ReadsTurn, p
<1>8. Exchanging(p)'
  BY <1>1, <1>2, <1>5, <1>6, <1>7 DEF Exchanging, p
<1> QED BY <1>8 DEF p

\* Reading a frame keeps the invariant.
LEMMA ReceiveFrameKeepsExchange == WholeInv /\ ReceiveFrame => ExchangeInv'
<1> SUFFICES ASSUME WholeInv, ReceiveFrame PROVE ExchangeInv'
  OBVIOUS
<1>1. Reading /\ toCore # << >> /\ toCore' = Tail(toCore)
  BY DEF ReceiveFrame
<1>2. PICK f \in IF torn THEN Garbage ELSE {Head(toCore)} :
        LET s == Consume(session, Backend, f)
            refused == s.state = "Failed" /\ s.errors = << >>
        IN  IF refused THEN session' = s /\ Unread("E_PROTOCOL")
            ELSE /\ CASE pc = "handshake"  -> Handshake(s, f)
                      [] pc = "collect"    -> Collect(s)
                      [] pc = "cancelling" -> Acknowledge(s)
                 /\ UNCHANGED <<toPeer, history>>
  BY DEF ReceiveFrame
<1> DEFINE s == Consume(session, Backend, f)
           Calm == program \notin Sessionless /\ cancels = 0 /\ ~disturbed
<1>3. Calm => \E k : ReadsTurn(program, k, f, s)
  BY <1>1, ReceivesTurn
<1>4. IF s.state = "Failed" /\ s.errors = << >> THEN Unread("E_PROTOCOL")
      ELSE /\ CASE pc = "handshake"  -> Handshake(s, f)
                [] pc = "collect"    -> Collect(s)
                [] pc = "cancelling" -> Acknowledge(s)
           /\ UNCHANGED <<toPeer, history>>
  BY <1>2
<1> HIDE DEF s
<1>5. ASSUME NEW o, Return(o), UNCHANGED history, Calm /\ ~expired => Answer(o)
      PROVE  ExchangeInv'
  BY <1>5, ReturnKeepsExchange DEF history
<1>6. pc \in {"handshake", "collect", "cancelling"}
  BY <1>1 DEF Reading
<1>7. CASE s.state = "Failed" /\ s.errors = << >>
  <2>1. ~Calm
    BY <1>3, <1>7 DEF ReadsTurn, Failed
  <2>2. PICK o : Return(o) /\ UNCHANGED history
    BY <1>4, <1>7 DEF Unread
  <2> QED BY <1>5, <2>1, <2>2
<1>8. CASE ~(s.state = "Failed" /\ s.errors = << >>) /\ pc = "handshake"
  <2>1. Handshake(s, f) /\ UNCHANGED <<toPeer, history>>
    BY <1>4, <1>8
  <2>2. UNCHANGED <<expired, cancels, disturbed>>
    BY <2>1 DEF history
  <2>3. ASSUME Calm
        PROVE  \E k : /\ ReadsTurn(program, k, f, s) /\ k = 1 /\ s.errors = << >>
                      /\ s.state = "Ready" /\ f.type # "Manifest"
                      /\ f.matches = (program # Mismatched)
    <3>1. PICK k : ReadsTurn(program, k, f, s)
      BY <1>3, <2>3
    <3>2. k = 1 /\ k + 1 = 2 /\ Course(program)
      BY <1>8, <3>1 DEF ReadsTurn, Under, InvokerAt, TurnsAt
    <3>3. f = Capabilities(program # Mismatched)
      <4>1. Turn(program, 2) = program[2].frame /\ program[2].frame = Capabilities(program # Mismatched)
        BY <3>1, TurnsAre DEF ReadsTurn, Under, Course
      <4> QED BY <3>1, <3>2, <4>1 DEF ReadsTurn
    <3>4. f.type = "Capabilities" /\ f.matches = (program # Mismatched)
      BY <3>3, Zenon DEF Capabilities
    <3>5. s.state = "Ready"
      <4>1. Like(s, Joint(program)[k + 1])
        BY <3>1 DEF ReadsTurn
      <4>2. s.state = Joint(program)[2].state
        BY <3>2, <4>1 DEF Like
      <4> QED BY <3>2, <4>2 DEF Course
    <3>6. s.errors = << >>
      BY <3>1, <3>4 DEF ReadsTurn
    <3> QED BY <3>1, <3>2, <3>4, <3>5, <3>6
  <2>4. CASE s.errors # << >> /\ Return("peer_error")
    <3>1. ~Calm
      BY <2>3, <2>4
    <3> QED BY <1>5, <2>1, <2>4, <3>1
  <2>5. CASE s.state = "AwaitingCapabilities" /\ Return("E_PROTOCOL")
    <3>1. ~Calm
      BY <2>3, <2>5
    <3> QED BY <1>5, <2>1, <2>5, <3>1
  <2>6. CASE ~f.matches /\ Return("E_PACKAGE_BINDING")
    <3>1. ASSUME Calm PROVE Answer("E_PACKAGE_BINDING")
      <4>1. program = Mismatched
        BY <2>3, <2>6, <3>1
      <4>2. Course(program)
        BY <2>3, <3>1 DEF ReadsTurn, Under
      <4> QED BY <4>1, <4>2 DEF Course, Answer
    <3> QED BY <1>5, <2>1, <2>6, <3>1
  <2>7. CASE f.matches /\ pc' = "emit" /\ UNCHANGED <<late, torn, emission, report, outcome, process>>
    <3>1. UNCHANGED <<program, child>>
      BY <2>7 DEF process
    <3>2. TimeOK'
      BY <1>8, <2>2, <2>7, <3>1 DEF WholeInv, ExchangeInv, TimeOK
    <3>3. UndisturbedAnswer'
      BY <2>7 DEF UndisturbedAnswer
    <3>4. ASSUME Calm PROVE Exchanging(program)' /\ AnswerAt(program)'
      <4>1. PICK k : /\ ReadsTurn(program, k, f, s) /\ k = 1 /\ f.type # "Manifest"
                     /\ f.matches = (program # Mismatched)
        BY <2>3, <3>4
      <4>2. program # Mismatched
        BY <2>7, <4>1
      <4>3. TurnsAt("emit", k + 1, Len(program))
        BY <4>1 DEF TurnsAt
      <4>4. session' = [s EXCEPT !.errors = << >>]
        BY <2>1 DEF Handshake
      <4>5. Exchanging(program)'
        BY <1>1, <2>1, <2>7, <4>1, <4>2, <4>3, <4>4, TurnTaken
      <4> QED BY <2>7, <4>5 DEF AnswerAt
    <3>5. ExchangeOK'
      BY <2>2, <3>1, <3>4 DEF ExchangeOK
    <3> QED BY <3>2, <3>3, <3>5 DEF ExchangeInv
  <2> QED BY <2>1, <2>4, <2>5, <2>6, <2>7 DEF Handshake
<1>9. CASE ~(s.state = "Failed" /\ s.errors = << >>) /\ pc = "collect"
  <2>1. Collect(s) /\ UNCHANGED <<toPeer, history>>
    BY <1>4, <1>9
  <2>2. UNCHANGED <<expired, cancels, disturbed, torn, outcome, program, child, process>>
    BY <2>1 DEF history, Collect, process
  <2>3. /\ session' = [s EXCEPT !.errors = << >>, !.completed = << >>]
        /\ \/ /\ s.errors # << >> \/ s.completed # << >>
              /\ pc' = "goodbye" /\ late' = FALSE
              /\ report' = IF s.errors # << >> THEN "peer_error" ELSE "success"
           \/ /\ s.errors = << >> /\ s.completed = << >>
              /\ UNCHANGED <<pc, late, report>>
    BY <2>1 DEF Collect
  <2>4. TimeOK'
    BY <1>9, <2>2, <2>3 DEF WholeInv, ExchangeInv, TimeOK
  <2>5. UndisturbedAnswer'
    BY <1>9, <2>3 DEF UndisturbedAnswer
  <2>6. ASSUME Calm PROVE Exchanging(program)' /\ (~expired => AnswerAt(program)')
    <3> DEFINE p == program
               n == Len(p)
    <3>1. PICK k : ReadsTurn(program, k, f, s)
      BY <1>3, <2>6
    <3>2. /\ k \in 4 .. n - 1 /\ p # Mismatched /\ Course(p) /\ k + 1 \in 1 .. n /\ n \in Nat
          /\ f = Turn(p, k + 1) /\ k \in Nat
      BY <1>9, <3>1 DEF ReadsTurn, Under, InvokerAt, TurnsAt
    <3>3. /\ s.errors # << >> <=> f.type = "Error"
          /\ s.completed # << >> <=> f.type = "Manifest"
      BY <3>1 DEF ReadsTurn
    <3>4. f.type \in {"Error", "Manifest"} <=> k + 1 = n - 1
      <4>1. Turn(p, n - 1).type \in {"Error", "Manifest"}
        BY <3>2 DEF Course
      <4>2. Turn(p, k + 1).type \in {"Error", "Manifest"} => k + 1 = n - 1
        BY <3>2 DEF Course
      <4> QED BY <3>2, <4>1, <4>2
    <3>5. k + 1 # n
      <4>1. p[k + 1].op = "write" /\ Packaged(p)
        BY <3>1 DEF ReadsTurn, Under
      <4>2. \A j \in 1 .. n : p[j].op = IF j \in {1, 3, 4, n} THEN "read" ELSE "write"
        BY <4>1 DEF Packaged
      <4>3. n \in 1 .. n
        BY <3>2
      <4>4. p[n].op = "read"
        BY <4>2, <4>3
      <4> HIDE DEF n, p
      <4> QED BY <4>1, <4>4
    <3>6. k + 1 \in 4 .. n - 1
      BY <3>2, <3>5
    <3> HIDE DEF p
    <3>7. TurnsAt(pc', k + 1, n) /\ pc' \in {"collect", "goodbye"}
      <4>1. CASE f.type \in {"Error", "Manifest"}
        <5>1. pc' = "goodbye"
          BY <2>3, <3>3, <4>1
        <5> QED BY <3>4, <4>1, <5>1 DEF TurnsAt
      <4>2. CASE f.type \notin {"Error", "Manifest"}
        <5>1. pc' = "collect"
          BY <1>9, <2>3, <3>3, <4>2
        <5> QED BY <3>6, <5>1 DEF TurnsAt
      <4> QED BY <4>1, <4>2
    <3>8. Exchanging(program)'
      BY <1>1, <2>1, <2>2, <2>3, <3>1, <3>2, <3>7, TurnTaken DEF p
    <3>9. ASSUME ~expired PROVE AnswerAt(program)'
      <4>1. pc' = "goodbye" =>
              \/ report' = "success" /\ Turn(p, n - 1).type = "Manifest"
              \/ report' = "peer_error" /\ Turn(p, n - 1).type = "Error"
        <5> SUFFICES ASSUME pc' = "goodbye"
                     PROVE  \/ report' = "success" /\ Turn(p, n - 1).type = "Manifest"
                            \/ report' = "peer_error" /\ Turn(p, n - 1).type = "Error"
          OBVIOUS
        <5>1. /\ s.errors # << >> \/ s.completed # << >>
              /\ report' = IF s.errors # << >> THEN "peer_error" ELSE "success"
          BY <1>9, <2>3
        <5>2. f = Turn(p, n - 1)
          <6>1. k + 1 = n - 1
            BY <3>3, <3>4, <5>1
          <6> QED BY <3>2, <6>1
        <5> QED BY <3>3, <5>1, <5>2
      <4> QED BY <2>2, <3>7, <4>1 DEF AnswerAt, p
    <3> QED BY <3>8, <3>9
  <2>7. ExchangeOK'
    BY <2>2, <2>6 DEF ExchangeOK
  <2> QED BY <2>4, <2>5, <2>7 DEF ExchangeInv
<1>10. CASE ~(s.state = "Failed" /\ s.errors = << >>) /\ pc = "cancelling"
  <2>1. Acknowledge(s) /\ UNCHANGED <<toPeer, history>> /\ cancels # 0 /\ expired
    BY <1>4, <1>10 DEF WholeInv, ExchangeInv, TimeOK
  <2>2. CASE Return("E_PROTOCOL")
    BY <1>5, <2>1, <2>2
  <2>3. CASE pc' = "goodbye" /\ UNCHANGED <<late, torn, process>>
    <3>1. TimeOK'
      BY <1>10, <2>1, <2>3 DEF WholeInv, ExchangeInv, TimeOK, process, history
    <3> QED BY <2>1, <2>3, <3>1 DEF ExchangeInv, ExchangeOK, UndisturbedAnswer, history
  <2> QED BY <2>1, <2>2, <2>3 DEF Acknowledge
<1> QED BY <1>6, <1>7, <1>8, <1>9, <1>10

-----------------------------------------------------------------------------
(* Time, the end of the stream and the exit                                *)

\* A failing system call and the clock keep the invariant, and so does running
\* into a deadline.
LEMMA TimeKeepsExchange == WholeInv /\ (ReceiveTimeout \/ SystemFailure \/ Tick) => ExchangeInv'
<1> SUFFICES ASSUME WholeInv, ReceiveTimeout \/ SystemFailure \/ Tick PROVE ExchangeInv'
  OBVIOUS
<1>1. CASE SystemFailure
  <2>1. PICK o : Return(o)
    BY <1>1 DEF SystemFailure
  <2>2. /\ pc' = "done" /\ disturbed' = TRUE
        /\ UNCHANGED <<late, torn, program, expired, cancels>>
    BY <1>1, <2>1 DEF SystemFailure, Return
  <2>3. TimeOK'
    BY <2>2 DEF WholeInv, ExchangeInv, TimeOK
  <2> QED BY <2>2, <2>3 DEF ExchangeInv, ExchangeOK, UndisturbedAnswer
<1> DEFINE Moves(c) == c \in {pc, "cancel"} /\ (c = "cancel" => pc \in {"collect", "cancel"})
<1>2. ASSUME Moves(pc'), expired',
             UNCHANGED <<session, report, process, toPeer, toCore, cancels, disturbed>>, pc # "done"
      PROVE  ExchangeOK' /\ UndisturbedAnswer'
  <2>1. UNCHANGED <<program, at, peer, child, clean>>
    BY <1>2 DEF process
  <2>2. UndisturbedAnswer'
    BY <1>2 DEF UndisturbedAnswer
  <2>3. ASSUME program \notin Sessionless, cancels = 0, ~disturbed PROVE Exchanging(program)'
    <3>1. PICK k : Under(program, k)
      BY <1>2, <2>3, IsUnder
    <3>2. TurnsAt(pc', k, Len(program))
      BY <1>2, <3>1 DEF Under, InvokerAt, TurnsAt
    <3>3. InvokerAt(program, k)'
      BY <1>2, <2>1, <3>1, <3>2 DEF Under, InvokerAt
    <3>4. ChildAt(program)'
      BY <1>2, <2>1, <3>1 DEF Under, ChildAt
    <3>5. UnderWay(program, k, at, toPeer, toCore)'
      BY <1>2, <2>1, <3>1 DEF Under, UnderWay
    <3>6. k \in 0 .. Len(program')
      BY <2>1, <3>1 DEF Under
    <3> QED BY <3>3, <3>4, <3>5, <3>6 DEF Exchanging
  <2>4. ExchangeOK'
    BY <1>2, <2>1, <2>3 DEF ExchangeOK
  <2> QED BY <2>2, <2>4
<1>3. CASE Tick
  <2>1. /\ late' = TRUE /\ expired' = TRUE /\ pc' = pc /\ pc # "done"
        /\ UNCHANGED <<session, torn, report, process, toPeer, toCore, disturbed, cancels>>
    BY <1>3 DEF Tick
  <2>2. TimeOK'
    BY <2>1 DEF WholeInv, ExchangeInv, TimeOK, process
  <2> QED BY <1>2, <2>1, <2>2 DEF ExchangeInv
<1>4. CASE ReceiveTimeout
  <2>1. /\ Reading /\ late /\ expired
        /\ UNCHANGED <<session, toPeer, toCore, expired, disturbed, cancels>>
    BY <1>4 DEF ReceiveTimeout, WholeInv, ExchangeInv, TimeOK, history
  <2>2. CASE Return("E_TIMEOUT")
    BY <2>1, <2>2, ReturnKeepsExchange
  <2>3. CASE pc = "collect" /\ pc' = "cancel" /\ late' = FALSE /\ UNCHANGED <<report, process>>
    <3>1. TimeOK'
      BY <2>1, <2>3 DEF WholeInv, ExchangeInv, TimeOK, process
    <3>2. ExchangeOK' /\ UndisturbedAnswer'
      BY <1>2, <2>1, <2>3
    <3> QED BY <3>1, <3>2 DEF ExchangeInv
  <2> QED BY <1>4, <2>2, <2>3 DEF ReceiveTimeout
<1> QED BY <1>1, <1>3, <1>4

\* A child that has stopped in an exchange under way was stopped by a turn its
\* session refused, when the invoker has still something to read.
LEMMA ChildRefused ==
  ASSUME NEW p, NEW k, Under(p, k), k < Len(p), child \notin {"running", "absent"}
  PROVE  ~clean /\ at \in 1 .. Len(p) /\ Failed(Joint(p)[at]) /\ k <= at - 1
<1>1. /\ Packaged(p) /\ Len(p) \in Nat /\ Len(p) >= 5 /\ k \in Nat /\ k \in 0 .. Len(p)
      /\ UnderWay(p, k, at, toPeer, toCore) /\ at \in 1 .. Len(p) + 1
  BY DEF Under
<1>2. ASSUME ~clean PROVE at \in 1 .. Len(p) /\ Failed(Joint(p)[at]) /\ k <= at - 1
  <2>1. at \in 1 .. Len(p) /\ Failed(Joint(p)[at])
    BY <1>2 DEF Under, ChildAt
  <2>2. ~Failed(Joint(p)[k])
    BY DEF Under, InvokerAt, Like, Failed
  <2>3. ASSUME at <= k PROVE FALSE
    <3>1. at \in 0 .. Len(p) /\ k \in at .. Len(p)
      BY <1>1, <2>1, <2>3
    <3> QED BY <1>1, <2>1, <2>2, <3>1, FailureStays
  <2> QED BY <1>1, <2>1, <2>3
<1>3. ASSUME clean PROVE FALSE
  <2>1. at = Len(p) + 1
    BY <1>3 DEF Under, ChildAt
  <2>2. k < at - 1
    BY <1>1, <2>1
  <2>3. Len(toCore) = (at - 1) - k /\ \A i \in 1 .. Len(toCore) : p[k + i].op = "write"
    BY <1>1, <2>2 DEF UnderWay
  <2>4. Len(p) - k \in 1 .. Len(toCore) /\ k + (Len(p) - k) = Len(p) /\ Len(p) \in 1 .. Len(p)
    BY <1>1, <2>1, <2>3
  <2>5. p[Len(p)].op = "write"
    BY <2>3, <2>4
  <2>6. p[Len(p)].op = IF Len(p) \in {1, 3, 4, Len(p)} THEN "read" ELSE "write"
    BY <1>1, <2>4, Zenon DEF Packaged
  <2> QED BY <2>5, <2>6
<1> QED BY <1>2, <1>3

\* The end of the stream keeps the invariant.
LEMMA ReceiveEndKeepsExchange == WholeInv /\ ReceiveEnd => ExchangeInv'
<1> SUFFICES ASSUME WholeInv, ReceiveEnd PROVE ExchangeInv'
  OBVIOUS
<1> DEFINE Calm == program \notin Sessionless /\ cancels = 0 /\ ~disturbed
           p == program
<1>1. /\ pc \in {"handshake", "collect", "cancelling"} /\ child # "running"
      /\ toCore # << >> => Head(toCore).type = "Cut"
      /\ UNCHANGED <<session, toCore>>
  BY DEF ReceiveEnd, Reading, Connected
<1>2. ASSUME Calm
      PROVE  \E k : /\ Under(p, k) /\ (~expired => AnswerAt(p))
                    /\ pc \in {"handshake", "collect"} /\ toPeer = << >> /\ toCore = << >>
                    /\ ~clean /\ p # Mismatched
  <2>1. pc \in {"handshake", "collect"}
    BY <1>1, <1>2 DEF WholeInv, ExchangeInv, TimeOK
  <2>2. PICK k : Under(p, k) /\ (~expired => AnswerAt(p))
    BY <1>2, <2>1, IsUnder
  <2> HIDE DEF p
  <2>3. /\ k < Len(p) /\ child \notin {"running", "absent"} /\ Course(p) /\ Len(p) \in Nat
        /\ at \in Nat \ {0} /\ k \in Nat /\ UnderWay(p, k, at, toPeer, toCore)
    <3>1. k < Len(p)
      BY <2>1, <2>2 DEF Under, InvokerAt, TurnsAt
    <3>2. child \notin {"running", "absent"}
      BY <1>1, <2>1, <2>2 DEF Under, ChildAt
    <3> QED BY <2>2, <3>1, <3>2, WireTypes DEF Under
  <2>4. ~clean /\ at \in 1 .. Len(p) /\ Failed(Joint(p)[at]) /\ k <= at - 1
    BY <2>2, <2>3, ChildRefused
  <2>5. toCore = << >>
    <3> SUFFICES ASSUME toCore # << >> PROVE FALSE
      OBVIOUS
    <3>1. k + 1 <= at - 1 /\ Head(toCore) = Turn(p, k + 1)
      <4>1. toCore \in Seq(Emitted(program))
        BY WireTypes
      <4> QED BY <2>3, <4>1, ReceivesOne
    <3>2. k + 1 \in 1 .. Len(p)
      BY <2>3, <2>4, <3>1
    <3>3. Turn(p, k + 1).type \in FrameTypes
      BY <2>3, <3>2 DEF Course
    <3> QED BY <1>1, <3>1, <3>3 DEF FrameTypes
  <2>6. k = at - 1
    <3> SUFFICES ASSUME k < at - 1 PROVE FALSE
      BY <2>3, <2>4
    <3>1. Len(toCore) = (at - 1) - k
      BY <2>3 DEF UnderWay
    <3> QED BY <2>3, <2>5, <3>1
  <2>7. toPeer = << >>
    <3>1. Len(toPeer) = 0
      BY <2>3, <2>6 DEF UnderWay
    <3> QED BY <3>1, WireTypes
  <2>8. p # Mismatched
    <3> SUFFICES ASSUME p = Mismatched PROVE FALSE
      OBVIOUS
    <3>1. k = 1
      BY <2>1, <2>2 DEF Under, InvokerAt, TurnsAt
    <3>2. at = 2 /\ 2 \in 0 .. 4
      BY <2>3, <2>6, <3>1
    <3> QED BY <2>3, <2>4, <3>2 DEF Course
  <2> QED BY <2>1, <2>2, <2>4, <2>5, <2>7, <2>8
<1> HIDE DEF p
<1>3. ASSUME NEW o, Return(o), UNCHANGED history, toPeer # << >> \/ toCore # << >>
      PROVE  ExchangeInv'
  <2>1. ~Calm
    BY <1>2, <1>3
  <2> QED BY <1>3, <2>1, ReturnKeepsExchange DEF history
<1>4. CASE /\ toPeer = << >>
           /\ report' = (IF pc = "cancelling" THEN "E_TIMEOUT" ELSE "E_PROCESS_EXIT")
           /\ pc' = "eof" /\ late' = FALSE
           /\ UNCHANGED <<torn, emission, outcome, process, toPeer, history>>
  <2>1. UNCHANGED <<program, at, peer, child, clean, expired, disturbed, cancels>>
    BY <1>4 DEF process, history
  <2>2. TimeOK'
    BY <1>1, <1>4, <2>1 DEF WholeInv, ExchangeInv, TimeOK
  <2>3. UndisturbedAnswer'
    BY <1>4 DEF UndisturbedAnswer
  <2>4. ASSUME Calm PROVE Exchanging(program)' /\ AnswerAt(program)'
    <3>1. PICK k : /\ Under(p, k) /\ pc \in {"handshake", "collect"}
                   /\ ~clean /\ p # Mismatched
      BY <1>2, <2>4
    <3>2. k \in 0 .. Len(p)
      BY <3>1 DEF Under
    <3>3. InvokerAt(p, k)'
      <4>1. p' = p
        BY <2>1 DEF p
      <4>2. TurnsAt("eof", k, Len(p))
        BY DEF TurnsAt
      <4> QED BY <1>1, <1>4, <3>1, <4>1, <4>2 DEF Under, InvokerAt, p
    <3>4. ChildAt(p)' /\ child \in {"closed", "zombie"}
      BY <1>1, <1>4, <2>1, <3>1 DEF Under, ChildAt, p
    <3>5. UnderWay(p, k, at, toPeer, toCore)'
      BY <1>1, <1>4, <2>1, <3>1 DEF Under, UnderWay, p
    <3>6. Exchanging(program)'
      BY <2>1, <3>2, <3>3, <3>4, <3>5 DEF Exchanging, p
    <3>7. AnswerAt(program)'
      BY <1>4, <2>1, <3>1, <3>4 DEF AnswerAt
    <3> QED BY <3>6, <3>7
  <2>5. ExchangeOK'
    BY <2>1, <2>4 DEF ExchangeOK
  <2> QED BY <2>2, <2>3, <2>5 DEF ExchangeInv
<1>5. CASE (toPeer # << >> \/ toCore # << >>) /\ \E c : Unread(c)
  <2>1. PICK o : Return(o) /\ UNCHANGED history
    BY <1>5 DEF Unread
  <2> QED BY <1>3, <1>5, <2>1
<1> QED BY <1>4, <1>5 DEF ReceiveEnd

\* Waiting for the exit status keeps the invariant.
LEMMA AwaitExitKeepsExchange == WholeInv /\ AwaitExit => ExchangeInv'
<1> SUFFICES ASSUME WholeInv, AwaitExit PROVE ExchangeInv'
  OBVIOUS
<1> DEFINE p == program
           n == Len(p)
           o == IF clean \/ pc = "eof" THEN report ELSE "E_PROCESS_EXIT"
<1>1. pc \in {"exit", "eof"} /\ UNCHANGED <<session, toPeer, toCore, expired, disturbed, cancels>>
  BY DEF AwaitExit, history
<1>2. CASE Return("E_TIMEOUT") /\ late
  <2>1. expired
    BY <1>2 DEF WholeInv, ExchangeInv, TimeOK
  <2> QED BY <1>1, <1>2, <2>1, ReturnKeepsExchange
<1>3. ASSUME child = "zombie", program \notin Sessionless, cancels = 0, ~expired, ~disturbed
      PROVE  Answer(o)
  <2>1. PICK k : Under(p, k) /\ AnswerAt(p)
    BY <1>1, <1>3, IsUnder
  <2>2. Course(p) /\ Packaged(p) /\ n \in Nat /\ n >= 5 /\ p # Mismatched
    BY <1>1, <2>1 DEF Under, InvokerAt
  <2>3. CASE pc = "exit"
    <3>1. k = n /\ ~Failed(Joint(p)[k])
      BY <2>1, <2>3 DEF Under, InvokerAt, TurnsAt, Like, Failed
    <3>2. ASSUME NEW i \in 0 .. n PROVE ~Failed(Joint(p)[i])
      <4>1. n \in i .. n
        BY <2>2
      <4> QED BY <2>2, <3>1, <4>1, FailureStays
    <3>3. clean
      <4> SUFFICES ASSUME ~clean PROVE FALSE
        OBVIOUS
      <4>1. at \in 1 .. n /\ Failed(Joint(p)[at])
        BY <1>3, <2>1 DEF Under, ChildAt
      <4>2. at \in 0 .. n
        BY <2>2, <4>1
      <4> QED BY <3>2, <4>1, <4>2
    <3>4. \/ o = "success" /\ Turn(p, n - 1).type = "Manifest"
          \/ o = "peer_error" /\ Turn(p, n - 1).type = "Error"
      BY <2>1, <2>3, <3>3 DEF AnswerAt
    <3>5. ~Failed(Joint(p)[n - 1])
      <4>1. n - 1 \in 0 .. n
        BY <2>2
      <4> QED BY <3>2, <4>1
    <3> HIDE DEF o
    <3>6. p = Refusing => o = "peer_error"
      BY <2>2, <3>4 DEF Course
    <3>7. \A s \in SourceSets : p = Rendering(s) => o = "success" /\ Fits(s)
      BY <2>2, <3>4, <3>5 DEF Course
    <3> QED BY <2>2, <3>6, <3>7 DEF Answer
  <2>4. CASE pc = "eof"
    <3>1. o = "E_PROCESS_EXIT" /\ ~clean
      BY <2>1, <2>4 DEF AnswerAt
    <3>2. at \in 1 .. n /\ Failed(Joint(p)[at])
      BY <1>3, <2>1, <3>1 DEF Under, ChildAt
    <3>3. Failed(Joint(p)[n])
      <4>1. at \in 0 .. n /\ n \in at .. n
        BY <2>2, <3>2
      <4> QED BY <2>2, <3>2, <4>1, FailureStays
    <3>4. Failed(Joint(p)[n - 1])
      BY <2>2, <3>3 DEF Course
    <3> HIDE DEF o
    <3>5. p # Refusing
      BY <2>2, <3>4 DEF Course
    <3>6. \A s \in SourceSets : p = Rendering(s) => ~Fits(s)
      BY <2>2, <3>4 DEF Course
    <3> QED BY <2>2, <3>1, <3>5, <3>6 DEF Answer
  <2> QED BY <1>1, <2>3, <2>4
<1> HIDE DEF o
<1>4. CASE child = "zombie" /\ Return(o)
  BY <1>1, <1>3, <1>4, ReturnKeepsExchange
<1> QED BY <1>2, <1>4 DEF AwaitExit, o

-----------------------------------------------------------------------------
(* The child                                                               *)

\* A running child is part of an exchange that nothing has disturbed.
LEMMA RunningIsCalm ==
  ASSUME WholeInv, child = "running"
  PROVE  pc # "done" /\ ~disturbed
BY DEF WholeInv, IInv, ReportOK, ExchangeInv, TimeOK

\* A step of the child that leaves the invoker and the clock alone keeps the
\* invariant, if what is under way is so after it.
LEMMA ChildKeepsExchange ==
  ASSUME WholeInv, child \in {"running", "closed"}, child' \in {"running", "closed", "zombie"},
         UNCHANGED <<invoker, program, expired, cancels>>,
         disturbed' => disturbed \/ child' = "closed",
         child' \in {"running"} => ~disturbed',
         ~disturbed' => ~disturbed,
         pc = "eof" /\ ~expired /\ ~disturbed' /\ program \notin Sessionless /\ cancels = 0 =>
           child' # "running" /\ ~clean',
         NEW k,
         program \notin Sessionless /\ cancels = 0 /\ ~disturbed' =>
           Under(program, k) /\ ChildAt(program)'
             /\ UnderWay(program, k, at', toPeer', toCore')
  PROVE  ExchangeInv'
<1>1. UNCHANGED <<pc, session, late, torn, report, outcome>> /\ pc # "done"
  BY DEF invoker, WholeInv, IInv, ReportOK
<1>2. TimeOK'
  BY <1>1 DEF WholeInv, ExchangeInv, TimeOK
<1>3. UndisturbedAnswer'
  BY <1>1 DEF UndisturbedAnswer
<1>4. ASSUME program \notin Sessionless, cancels = 0, ~disturbed'
      PROVE  Exchanging(program)' /\ (~expired => AnswerAt(program)')
  <2>1. Under(program, k) /\ ChildAt(program)' /\ UnderWay(program, k, at', toPeer', toCore')
    BY <1>4
  <2>2. InvokerAt(program, k)'
    BY <1>1, <2>1 DEF Under, InvokerAt
  <2>3. k \in 0 .. Len(program')
    BY <2>1 DEF Under
  <2>4. Exchanging(program)'
    BY <2>1, <2>2, <2>3 DEF Exchanging
  <2>5. ASSUME ~expired PROVE AnswerAt(program)'
    <3>1. AnswerAt(program)
      BY <1>1, <1>4, <2>5 DEF WholeInv, ExchangeInv, ExchangeOK
    <3> QED BY <1>1, <1>4, <2>5, <3>1 DEF AnswerAt
  <2> QED BY <2>4, <2>5
<1>5. ExchangeOK'
  BY <1>1, <1>4 DEF ExchangeOK
<1> QED BY <1>2, <1>3, <1>5 DEF ExchangeInv

\* A turn the child takes.
LEMMA ChildTakesTurn ==
  ASSUME WholeInv, child = "running", program \notin Sessionless, cancels = 0,
         at <= Len(program), NEW k, Under(program, k), NEW d, NEW f,
         d = SenderOfTurn(program, at), f = Turn(program, at), peer' = Follows(peer, d, f)
  PROVE  /\ at \in 1 .. Len(program) /\ ~Failed(Joint(program)[at - 1])
         /\ Like(peer', Joint(program)[at])
         /\ Failed(peer') <=> Failed(Joint(program)[at])
<1> DEFINE p == program
           a == at - 1
<1>1. /\ Course(p) /\ Len(p) \in Nat /\ at \in 1 .. Len(p) + 1
      /\ Like(peer, Joint(p)[at - 1]) /\ ~Failed(peer)
  BY DEF Under, ChildAt
<1>2. at \in 1 .. Len(p) /\ a \in 0 .. Len(p) - 1 /\ a + 1 = at
  BY <1>1
<1>3. peer' = Consume(peer, SenderOfTurn(p, a + 1), Turn(p, a + 1))
  BY <1>2 DEF Follows
<1>4. IsSession(peer) /\ Like(peer, Joint(p)[a])
  BY <1>1, WireTypes
<1> HIDE DEF p, a
<1>5. Like(peer', Joint(p)[a + 1]) /\ (Failed(peer') <=> Failed(Joint(p)[a + 1]))
  BY <1>1, <1>2, <1>3, <1>4, TakesTurn
<1>6. ~Failed(Joint(p)[at - 1])
  BY <1>1 DEF Like, Failed
<1> QED BY <1>2, <1>5, <1>6 DEF p

\* A read of the child keeps the invariant.
LEMMA PeerReadKeepsExchange == WholeInv /\ PeerRead => ExchangeInv'
<1> SUFFICES ASSUME WholeInv, PeerRead PROVE ExchangeInv'
  OBVIOUS
<1> DEFINE Calm == program \notin Sessionless /\ cancels = 0
           p == program
<1>1. /\ child = "running" /\ at <= Len(p) /\ toPeer # << >> /\ toPeer' = Tail(toPeer)
      /\ peer' = Follows(peer, Core, Head(toPeer))
      /\ IF peer'.state = "Failed" THEN Exit(FALSE) /\ UNCHANGED at
                                   ELSE at' = at + 1 /\ UNCHANGED <<child, clean>>
      /\ UNCHANGED <<invoker, program, toCore, expired, disturbed, cancels>>
  BY DEF PeerRead, Running, history
<1>2. pc # "done" /\ ~disturbed
  BY <1>1, RunningIsCalm
<1>3. ASSUME Calm
      PROVE  \E k : /\ Under(p, k) /\ ChildAt(p)'
                    /\ UnderWay(p, k, at', toPeer', toCore')
                    /\ ~expired => pc # "eof"
  <2>1. PICK k : Under(p, k) /\ (~expired => AnswerAt(p))
    BY <1>2, <1>3, IsUnder
  <2>2. /\ at <= k /\ Head(toPeer) = Turn(p, at) /\ p[at].op = "read"
        /\ UnderWay(p, k, at + 1, Tail(toPeer), toCore)
    <3>1. toPeer \in Seq(CoreFrames) /\ at \in Nat \ {0}
      BY WireTypes
    <3> QED BY <1>1, <2>1, <3>1, ReadsOne DEF Under
  <2>3. Core = SenderOfTurn(p, at)
    BY <2>2, SendersAre
  <2>4. /\ at \in 1 .. Len(p) /\ ~Failed(Joint(p)[at - 1])
        /\ Like(peer', Joint(p)[at]) /\ (Failed(peer') <=> Failed(Joint(p)[at]))
    BY <1>1, <1>3, <2>1, <2>2, <2>3, ChildTakesTurn
  <2> HIDE DEF p
  <2>5. ~Failed(Joint(p)[at])
    <3> SUFFICES ASSUME Failed(Joint(p)[at]) PROVE FALSE
      OBVIOUS
    <3>1. /\ Packaged(p) /\ Course(p) /\ Len(p) \in Nat /\ k \in 0 .. Len(p)
          /\ ~Failed(Joint(p)[k])
      BY <2>1 DEF Under, InvokerAt, Like, Failed
    <3>2. at \in 0 .. Len(p) /\ k \in at .. Len(p)
      BY <2>2, <2>4, <3>1
    <3> QED BY <3>1, <3>2, FailureStays
  <2>6. at' = at + 1 /\ UNCHANGED <<child, clean>>
    BY <1>1, <2>4, <2>5 DEF Failed
  <2>7. ChildAt(p)'
    <3>1. at' \in 1 .. Len(p) + 1 /\ at' - 1 = at
      BY <2>1, <2>4, <2>6 DEF Under
    <3>2. ~Failed(peer')
      BY <2>4, <2>5
    <3>3. p' = p /\ pc' = pc
      BY <1>1 DEF p, invoker
    <3>4. pc # "launch"
      BY <1>1, <2>1 DEF Under, ChildAt
    <3> QED BY <1>1, <2>4, <2>6, <3>1, <3>2, <3>3, <3>4 DEF ChildAt
  <2>8. UnderWay(p, k, at', toPeer', toCore')
    BY <1>1, <2>2, <2>6
  <2>9. ~expired => pc # "eof"
    BY <1>1, <2>1 DEF AnswerAt
  <2> QED BY <2>1, <2>7, <2>8, <2>9
<1>4. child' \in {"running", "closed"}
  BY <1>1 DEF Exit
<1> HIDE DEF p
<1>5. PICK k : Calm => /\ Under(p, k) /\ ChildAt(p)'
                       /\ UnderWay(p, k, at', toPeer', toCore')
                       /\ ~expired => pc # "eof"
  BY <1>3
<1> QED BY <1>1, <1>2, <1>4, <1>5, ChildKeepsExchange DEF p

\* A write of the child keeps the invariant.
LEMMA PeerWriteKeepsExchange == WholeInv /\ PeerWrite => ExchangeInv'
<1> SUFFICES ASSUME WholeInv, PeerWrite PROVE ExchangeInv'
  OBVIOUS
<1> DEFINE Calm == program \notin Sessionless /\ cancels = 0
           p == program
           f == p[at].frame
<1>1. /\ child = "running" /\ at <= Len(p) /\ p[at].op = "write"
      /\ peer' = Follows(peer, Backend, f)
      /\ IF peer'.state = "Failed"
         THEN Exit(FALSE) /\ UNCHANGED <<at, toCore>>
         ELSE toCore' = Append(toCore, f) /\ at' = at + 1 /\ UNCHANGED <<child, clean>>
      /\ UNCHANGED <<invoker, program, toPeer, expired, disturbed, cancels>>
  BY DEF PeerWrite, Running, history
<1>2. pc # "done" /\ ~disturbed
  BY <1>1, RunningIsCalm
<1>3. ASSUME Calm
      PROVE  \E k : /\ Under(p, k) /\ ChildAt(p)'
                    /\ UnderWay(p, k, at', toPeer', toCore')
                    /\ ~expired => pc # "eof"
  <2>1. PICK k : Under(p, k) /\ (~expired => AnswerAt(p))
    BY <1>2, <1>3, IsUnder
  <2>2. f = Turn(p, at) /\ Backend = SenderOfTurn(p, at)
    BY <1>1, SendersAre
  <2>3. /\ at \in 1 .. Len(p) /\ ~Failed(Joint(p)[at - 1])
        /\ Like(peer', Joint(p)[at]) /\ (Failed(peer') <=> Failed(Joint(p)[at]))
    BY <1>1, <1>3, <2>1, <2>2, ChildTakesTurn
  <2>4. /\ Len(p) \in Nat /\ k \in Nat /\ k \in 0 .. Len(p) /\ at \in 1 .. Len(p) + 1
        /\ UnderWay(p, k, at, toPeer, toCore)
    BY <2>1 DEF Under
  <2>5. f \in Emitted(program)
    <3>1. at \in DOMAIN p
      BY <2>1, <2>3 DEF Under, Packaged
    <3> QED BY <1>1, <3>1 DEF Emitted
  <2>6. pc # "launch"
    BY <1>1, <2>1 DEF Under, ChildAt
  <2>10. p' = p /\ pc' = pc
    BY <1>1 DEF invoker
  <2> HIDE DEF p, f
  <2>7. CASE Failed(peer')
    <3>1. child' = "closed" /\ clean' = FALSE /\ UNCHANGED <<at, toCore, toPeer>>
      BY <1>1, <2>7 DEF Exit, Failed
    <3>2. Failed(Joint(p)[at])
      BY <2>3, <2>7
    <3>3. ChildAt(p)'
      BY <2>3, <2>10, <3>1, <3>2 DEF ChildAt
    <3>4. UnderWay(p, k, at', toPeer', toCore')
      BY <2>4, <3>1
    <3>5. ~expired => pc # "eof"
      BY <1>1, <2>1 DEF AnswerAt
    <3> QED BY <2>1, <3>3, <3>4, <3>5
  <2>8. CASE ~Failed(peer')
    <3>1. /\ toCore' = Append(toCore, f) /\ at' = at + 1 /\ UNCHANGED <<child, clean, toPeer>>
      BY <1>1, <2>8 DEF Failed
    <3>2. ChildAt(p)'
      <4>1. at' \in 1 .. Len(p) + 1 /\ at' - 1 = at
        BY <2>3, <2>4, <3>1
      <4> QED BY <1>1, <2>3, <2>6, <2>8, <2>10, <3>1, <4>1 DEF ChildAt
    <3>3. UnderWay(p, k, at', toPeer', toCore')
      <4>1. toCore \in Seq(Emitted(program)) /\ Len(toPeer) \in Nat /\ at \in Nat \ {0}
        BY WireTypes
      <4>2. k <= at - 1
        BY <1>1, <2>4, WaysAre
      <4>3. UnderWay(p, k, at + 1, toPeer, Append(toCore, f))
        BY <1>1, <2>2, <2>4, <2>5, <4>1, <4>2, WritesOne
      <4> QED BY <3>1, <4>3
    <3>4. ~expired => pc # "eof"
      BY <1>1, <2>1 DEF AnswerAt
    <3> QED BY <2>1, <3>2, <3>3, <3>4
  <2> QED BY <2>7, <2>8
<1>4. child' \in {"running", "closed"}
  BY <1>1 DEF Exit
<1> HIDE DEF p
<1>5. PICK k : Calm => /\ Under(p, k) /\ ChildAt(p)'
                       /\ UnderWay(p, k, at', toPeer', toCore')
                       /\ ~expired => pc # "eof"
  BY <1>3
<1> QED BY <1>1, <1>2, <1>4, <1>5, ChildKeepsExchange DEF p

\* Exiting, crashing and becoming reapable keep the invariant.
LEMMA PeerEndsKeepExchange == WholeInv /\ (PeerExit \/ PeerCrash \/ PeerReapable) => ExchangeInv'
<1> SUFFICES ASSUME WholeInv, PeerExit \/ PeerCrash \/ PeerReapable PROVE ExchangeInv'
  OBVIOUS
<1> DEFINE Calm == program \notin Sessionless /\ cancels = 0
<1>1. UNCHANGED <<invoker, program, at, peer, toPeer, expired, cancels>>
  BY DEF PeerExit, PeerCrash, PeerReapable, history
<1>2. CASE PeerCrash
  <2>1. child = "running" /\ child' = "closed" /\ disturbed' = TRUE
    BY <1>2 DEF PeerCrash, Exit
  <2> QED BY <1>1, <2>1, ChildKeepsExchange
<1>3. CASE PeerExit
  <2>1. /\ child = "running" /\ child' = "closed" /\ clean' = TRUE /\ at > Len(program)
        /\ UNCHANGED <<toCore, disturbed>>
    BY <1>3 DEF PeerExit, Exit, history
  <2>2. pc # "done" /\ ~disturbed
    BY <2>1, RunningIsCalm
  <2>3. ASSUME Calm
        PROVE  \E k : /\ Under(program, k) /\ ChildAt(program)'
                      /\ UnderWay(program, k, at', toPeer', toCore')
                      /\ ~expired => pc # "eof"
    <3>1. PICK k : Under(program, k) /\ (~expired => AnswerAt(program))
      BY <2>2, <2>3, IsUnder
    <3>2. at = Len(program) + 1
      BY <2>1, <3>1 DEF Under
    <3>3. ~Failed(Joint(program)[at - 1])
      BY <2>1, <3>1 DEF Under, ChildAt, Like, Failed
    <3>4. ChildAt(program)'
      BY <1>1, <2>1, <3>2, <3>3 DEF ChildAt
    <3>5. UnderWay(program, k, at', toPeer', toCore')
      BY <1>1, <2>1, <3>1 DEF Under
    <3>6. ~expired => pc # "eof"
      BY <2>1, <3>1 DEF AnswerAt
    <3> QED BY <3>1, <3>4, <3>5, <3>6
  <2>4. PICK k : Calm => /\ Under(program, k) /\ ChildAt(program)'
                         /\ UnderWay(program, k, at', toPeer', toCore')
                         /\ ~expired => pc # "eof"
    BY <2>3
  <2> QED BY <1>1, <2>1, <2>2, <2>4, ChildKeepsExchange
<1>4. CASE PeerReapable
  <2>1. /\ child = "closed" /\ child' = "zombie" /\ UNCHANGED <<clean, toCore, disturbed>>
    BY <1>4 DEF PeerReapable, history
  <2>2. pc # "done"
    BY <2>1 DEF WholeInv, IInv, ReportOK
  <2>3. ASSUME Calm, ~disturbed
        PROVE  \E k : /\ Under(program, k) /\ ChildAt(program)'
                      /\ UnderWay(program, k, at', toPeer', toCore')
                      /\ ~expired /\ pc = "eof" => ~clean
    <3>1. PICK k : Under(program, k) /\ (~expired => AnswerAt(program))
      BY <2>2, <2>3, IsUnder
    <3>2. ChildAt(program)'
      BY <1>1, <2>1, <3>1 DEF Under, ChildAt
    <3>3. UnderWay(program, k, at', toPeer', toCore')
      BY <1>1, <2>1, <3>1 DEF Under
    <3>4. ~expired /\ pc = "eof" => ~clean
      BY <3>1 DEF AnswerAt
    <3> QED BY <3>1, <3>2, <3>3, <3>4
  <2>4. PICK k : Calm /\ ~disturbed =>
                   /\ Under(program, k) /\ ChildAt(program)'
                   /\ UnderWay(program, k, at', toPeer', toCore')
                   /\ ~expired /\ pc = "eof" => ~clean
    BY <2>3
  <2> QED BY <1>1, <2>1, <2>4, ChildKeepsExchange
<1> QED BY <1>2, <1>3, <1>4

\* Every step keeps the invariant of exchanges.
LEMMA ExchangesKeep == IInv /\ IInv' /\ ExchangeInv /\ [Next]_vars => ExchangeInv'
<1> SUFFICES ASSUME WholeInv, [Next]_vars PROVE ExchangeInv'
  BY DEF WholeInv
<1>1. CASE Next
  BY <1>1, LaunchKeepsExchange, SendsKeepExchange, ReceiveFrameKeepsExchange, TimeKeepsExchange, ReceiveEndKeepsExchange,
     AwaitExitKeepsExchange, PeerReadKeepsExchange, PeerWriteKeepsExchange, PeerEndsKeepExchange DEF Next, Invoker
<1>2. CASE UNCHANGED vars
  <2>1. UNCHANGED <<pc, session, late, torn, emission, report, outcome, program, at, peer,
                    child, clean, toPeer, toCore, expired, disturbed, cancels>>
    BY <1>2 DEF vars, invoker, process, history
  <2>2. TimeOK' /\ UndisturbedAnswer'
    BY <2>1 DEF WholeInv, ExchangeInv, TimeOK, UndisturbedAnswer
  <2>3. ExchangeOK'
    BY <2>1 DEF WholeInv, ExchangeInv, ExchangeOK, Exchanging, AnswerAt, InvokerAt, ChildAt
  <2> QED BY <2>2, <2>3 DEF ExchangeInv
<1> QED BY <1>1, <1>2

-----------------------------------------------------------------------------
(* The theorems about an exchange                                          *)

\* WholeInv invariants together are inductive.
LEMMA WholeKeeps == WholeInv /\ [Next]_vars => WholeInv'
  BY StepKeeps, ExchangesKeep DEF WholeInv

\* As long as the child runs and nothing was cancelled, the two ends have gone
\* through the same exchange: once each has consumed the frames under way to it,
\* their sessions are in the same state, with the same bytes owed and the same
\* artifacts so far (BackendInvoker.cpp 600-731 on the one side, the packages'
\* main() on the other, both over BackendProtocolSession::consume).  It holds for
\* every output and every limit, over sockets of any capacity, with the deadline
\* passing at any point and whatever either end refuses.
THEOREM EndsStayTogether == Spec => []EndsAgree
  BY InitiallyWhole, WholeKeeps, InvariantAgrees, PTL DEF Spec

\* The invariant contains the promise about undisturbed exchanges.
LEMMA InvariantAnswers == WholeInv => UndisturbedAnswer
  BY DEF WholeInv, ExchangeInv

\* An exchange that no system call, crash, deadline or cancellation disturbed
\* ends in the one answer its program has: success for an output within the
\* limits, the exit of the child for one that is not, the backend's own error
\* for a refusal and a mismatch for a backend of another version, never a
\* timeout or a truncation of the invoker's making (BackendInvoker.cpp 600-731).
THEOREM AnswersStand == Spec => []UndisturbedAnswer
  BY InitiallyWhole, WholeKeeps, InvariantAnswers, PTL DEF Spec
=============================================================================
