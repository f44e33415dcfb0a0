-------------------------- MODULE BackendInvocation --------------------------
(***************************************************************************)
(* One invocation of a backend package: invoke() of                        *)
(* lib/spec-contract/BackendInvoker.cpp and, at the other end of a stream  *)
(* socket, the main() of a backend process.  Each end runs the session     *)
(* automaton of BackendProtocol over what it sends and receives.           *)
(*                                                                         *)
(* The child is a program: the sequence of reads and writes its main()     *)
(* performs.  It may stall before any of them (it has no fairness), crash, *)
(* or be killed.  Time is `late`: the deadline the invoker currently waits *)
(* for has passed.  A socket holds at most Capacity frames per direction.  *)
(* `torn` says that a read ran into the deadline inside a frame: what is   *)
(* read next starts in the middle of that frame.                           *)
(***************************************************************************)
EXTENDS BackendProtocol

CONSTANTS
  Request,         \* options.requestId
  SourceSets,      \* outputs a backend may render: sequences of
                   \* [path |-> a path, content |-> its bytes]
  Capacity         \* bound: frames a socket buffers in one direction

ASSUME InvocationAssumption ==
  /\ Request \in RequestIds
  /\ SourceSets \subseteq Seq([path : Paths, content : Payloads])
  /\ Payloads \subseteq Seq(UNION {ToSet(p) : p \in Payloads})    \* sequences of bytes
  /\ Capacity \in Nat \ {0}

VARIABLES
  pc,              \* where invoke() is
  session,         \* its session
  late, torn,
  emission,        \* the completed emission it has taken, a sequence of <= 1
  report,          \* what it returns if the child exits cleanly
  outcome,
  program, at,     \* the child's reads and writes, and the next one
  peer,            \* the child's session
  child,           \* "absent", "running", "closed", "zombie", "gone"
  clean,           \* the child exited with status 0
  toPeer, toCore,
  expired,         \* history: some deadline has passed
  disturbed,       \* history: the child crashed or a system call failed
  cancels          \* history: Cancel was written

invoker == <<pc, session, late, torn, emission, report, outcome>>
process == <<program, at, peer, child, clean>>
history == <<expired, disturbed, cancels>>
vars == <<invoker, process, toPeer, toCore, history>>

-----------------------------------------------------------------------------
(* The child's programs                                                    *)

Capabilities(matching) ==
  [type |-> "Capabilities", ok |-> TRUE, trailingRaw |-> FALSE, matches |-> matching]

Read == [op |-> "read"]
Write(f) == [op |-> "write", frame |-> f]
Opening(matching) == <<Read, Write(Capabilities(matching)), Read, Read>>

\* The artifacts of a rendered output, as the manifest lists them.
ArtifactsOf(sources) ==
  [p \in {sources[i].path : i \in DOMAIN sources} |->
     (CHOOSE x \in Range(sources) : x.path = p).content]

\* One chunk per source file, header and bytes, then the manifest.
Emission(sources) ==
  FlattenSeq([i \in DOMAIN sources |->
    <<Write(ChunkFrame(Request, sources[i].path, 0, TRUE, Len(sources[i].content))),
      Write(BytesFrame(sources[i].content))>>])
    \o <<Write(ManifestFrame(Request, ArtifactsOf(sources)))>>

\* main() of the packages: it renders, or refuses with an Error, and reads
\* nothing but what it expects: Cancel is not looked for.
Rendering(sources) == Opening(TRUE) \o Emission(sources) \o <<Read>>
Refusing == Opening(TRUE) \o <<Write(ErrorFrame(Request)), Read>>
Mismatched == Opening(FALSE) \o <<Read>>
\* The synthetic backend's "timeout" mode, which waits for a Cancel.
Cancellable == Opening(TRUE) \o <<Read, Write(CancelledFrame(Request)), Read>>

\* Other peers the protocol allows: a refusal, and a frame to be skipped, in
\* place of Capabilities.
Declining == <<Read, Write(ErrorFrame(NoRequest))>>
Chatty == <<Read, Write(UnknownFrame(FALSE, FALSE))>> \o Tail(Opening(TRUE))

Sessionless == {Cancellable, Declining, Chatty}
Programs == {Rendering(s) : s \in SourceSets} \cup {Refusing, Mismatched} \cup Sessionless

Init ==
  /\ pc = "launch" /\ session = NewSession
  /\ late = FALSE /\ torn = FALSE
  /\ emission = << >> /\ report = "none" /\ outcome = "none"
  /\ program \in Programs
  /\ at = 1 /\ peer = NewSession /\ child = "absent" /\ clean = FALSE
  /\ toPeer = << >> /\ toCore = << >>
  /\ expired = FALSE /\ disturbed = FALSE /\ cancels = 0

-----------------------------------------------------------------------------
(* invoke()                                                                *)

\* Every return runs ~ChildProcess: the socket is closed, the child killed
\* and reaped.
Return(o) ==
  /\ pc' = "done" /\ outcome' = o
  /\ child' = "gone"
  /\ UNCHANGED <<late, torn, emission, report, program, at, peer, clean>>

Launch ==
  /\ pc = "launch"
  /\ \/ /\ pc' = "hello" /\ child' = "running"
        /\ UNCHANGED <<late, torn, emission, report, outcome, program, at, peer,
                       clean, disturbed>>
     \/ Return("E_PROCESS") /\ disturbed' = TRUE
  /\ UNCHANGED <<session, toPeer, toCore, expired, cancels>>

Connected == child = "running"

\* consumeOutgoing, then sendFrame under the current deadline.
Send(f, next) ==
  LET s == Consume(session, Core, f) IN
  /\ session' = s
  /\ \/ /\ s.state = "Failed"
        /\ Return("E_PROTOCOL")
        /\ UNCHANGED <<toPeer, history>>
     \/ /\ s.state # "Failed" /\ late
        /\ Return("E_TIMEOUT")
        /\ UNCHANGED <<toPeer, history>>
     \/ /\ s.state # "Failed" /\ ~late /\ ~Connected
        /\ Return("E_PROCESS")
        /\ UNCHANGED <<toPeer, history>>
     \/ /\ s.state # "Failed" /\ ~late /\ Connected
        /\ Len(toPeer) < Capacity
        /\ toPeer' = Append(toPeer, f)
        /\ pc' = next
        /\ cancels' = IF f.type = "Cancel" THEN cancels + 1 ELSE cancels
        /\ UNCHANGED <<late, torn, emission, report, outcome, process, expired, disturbed>>
  /\ UNCHANGED toCore

SendHello == pc = "hello" /\ Send(Control("Hello"), "handshake")
SendEmit == pc = "emit" /\ Send(EmitFrame(Request), "projection")
SendProjection == pc = "projection" /\ Send(ProjectionFrame(TRUE), "collect")
SendCancel == pc = "cancel" /\ Send(CancelFrame(Request), "cancelling")
SendGoodbye == pc = "goodbye" /\ Send(Control("Goodbye"), "exit")

\* What a read in the middle of a frame may decode to.
Garbage == {InvalidFrame, UnknownFrame(FALSE, FALSE), CancelledFrame(Request)}
CutFrame == [type |-> "Cut"]         \* the child died inside a frame

Reading == pc \in {"handshake", "collect", "cancelling"}

\* A failed read: while cancelling every failure is reported as the timeout
\* that caused the cancellation.
Unread(code) ==
  /\ Return(IF pc = "cancelling" THEN "E_TIMEOUT" ELSE code)
  /\ UNCHANGED <<toPeer, history>>

\* After the Capabilities frame, or whatever came in its place.
Handshake(s, f) ==
  /\ session' = [s EXCEPT !.errors = << >>]
  /\ \/ s.errors # << >> /\ Return("peer_error")
     \/ s.errors = << >> /\ s.state = "AwaitingCapabilities" /\ Return("E_PROTOCOL")
     \/ s.state = "Ready" /\ ~f.matches /\ Return("E_PACKAGE_BINDING")
     \/ /\ s.state = "Ready" /\ f.matches
        /\ pc' = "emit"
        /\ UNCHANGED <<late, torn, emission, report, outcome, process>>

\* One turn of the collecting loop: an Error or a Manifest ends it, with a
\* new deadline for Goodbye and exit.
Collect(s) ==
  /\ session' = [s EXCEPT !.errors = << >>, !.completed = << >>]
  /\ \/ /\ s.errors # << >> \/ s.completed # << >>
        /\ pc' = "goodbye" /\ late' = FALSE
        /\ report' = IF s.errors # << >> THEN "peer_error" ELSE "success"
        /\ emission' = IF s.errors # << >> THEN << >> ELSE s.completed
     \/ /\ s.errors = << >> /\ s.completed = << >>
        /\ UNCHANGED <<pc, late, emission, report>>
  /\ UNCHANGED <<torn, outcome, process>>

\* The one frame read after Cancel must be the acknowledgement.
Acknowledge(s) ==
  /\ session' = s
  /\ \/ s.state # "Ready" /\ Return("E_PROTOCOL")
     \/ /\ s.state = "Ready"
        /\ pc' = "goodbye" /\ report' = "cancelled"
        /\ UNCHANGED <<late, torn, emission, outcome, process>>

\* receiveFrame: a whole frame, consumed by the session.
ReceiveFrame ==
  /\ Reading /\ ~late /\ toCore # << >>
  /\ Head(toCore).type # "Cut"
  /\ \E f \in IF torn THEN Garbage ELSE {Head(toCore)} :
       LET s == Consume(session, Backend, f)
           refused == s.state = "Failed" /\ s.errors = << >>
       IN  IF refused THEN session' = s /\ Unread("E_PROTOCOL")
           ELSE /\ CASE pc = "handshake"  -> Handshake(s, f)
                     [] pc = "collect"    -> Collect(s)
                     [] pc = "cancelling" -> Acknowledge(s)
                /\ UNCHANGED <<toPeer, history>>
  /\ toCore' = Tail(toCore)

\* The deadline passes with no frame, or inside one.
ReceiveTimeout ==
  /\ Reading /\ late
  /\ UNCHANGED <<session, toPeer, toCore, history>>
  /\ \/ pc # "collect" /\ Return("E_TIMEOUT")
     \/ /\ pc = "collect"
        /\ pc' = "cancel" /\ late' = FALSE
        /\ torn' \in {t \in BOOLEAN : t => toCore # << >>}
        /\ UNCHANGED <<emission, report, outcome, process>>

\* The child closed the stream: a reset if it left frames unread, else the end
\* of the stream, and 100 ms for its exit status.
ReceiveEnd ==
  /\ Reading /\ ~late /\ ~Connected
  /\ toCore # << >> => Head(toCore).type = "Cut"
  /\ \/ toPeer # << >> /\ Unread("E_PROCESS")
     \/ toPeer = << >> /\ toCore # << >> /\ Unread("E_PROTOCOL")
     \/ /\ toPeer = << >>
        /\ report' = IF pc = "cancelling" THEN "E_TIMEOUT" ELSE "E_PROCESS_EXIT"
        /\ pc' = "eof" /\ late' = FALSE
        /\ UNCHANGED <<torn, emission, outcome, process, toPeer, history>>
  /\ UNCHANGED <<session, toCore>>

\* Mutant of AwaitExit: the exit status is not looked at.
AwaitAnyExit ==
  /\ pc \in {"exit", "eof"}
  /\ \/ child = "zombie" /\ Return(report)
     \/ child # "zombie" /\ late /\ Return("E_TIMEOUT")
  /\ UNCHANGED <<session, toPeer, toCore, history>>

\* Mutant of AwaitExit: waitpid without WNOHANG.
AwaitExitForever ==
  /\ pc \in {"exit", "eof"}
  /\ child = "zombie" /\ Return(IF clean \/ pc = "eof" THEN report ELSE "E_PROCESS_EXIT")
  /\ UNCHANGED <<session, toPeer, toCore, history>>

\* waitForExit and requireCleanExit.
AwaitExit ==
  /\ pc \in {"exit", "eof"}
  /\ \/ child = "zombie" /\ Return(IF clean \/ pc = "eof" THEN report ELSE "E_PROCESS_EXIT")
     \/ child # "zombie" /\ late /\ Return("E_TIMEOUT")
  /\ UNCHANGED <<session, toPeer, toCore, history>>

\* poll, send, recv, shutdown or waitpid fails.
SystemFailure ==
  /\ pc \notin {"launch", "done"}
  /\ Return(IF pc = "cancelling" \/ (pc = "eof" /\ report = "E_TIMEOUT")
            THEN "E_TIMEOUT" ELSE "E_PROCESS")
  /\ disturbed' = TRUE
  /\ UNCHANGED <<session, toPeer, toCore, expired, cancels>>

-----------------------------------------------------------------------------
(* The child                                                               *)

Running == child = "running" /\ at <= Len(program)

Exit(ok) == child' = "closed" /\ clean' = ok

\* Mutant of Follows: a backend's session does not see what it writes.
FollowsReads(s, d, f) ==
  IF program \in Sessionless \/ d = Backend THEN s ELSE Consume(s, d, f)

\* The packages feed a session of their own; the other peers keep none.
Follows(s, d, f) == IF program \in Sessionless THEN s ELSE Consume(s, d, f)

PeerRead ==
  /\ Running /\ program[at].op = "read"
  /\ toPeer # << >>
  /\ toPeer' = Tail(toPeer)
  /\ peer' = Follows(peer, Core, Head(toPeer))
  /\ IF peer'.state = "Failed" THEN Exit(FALSE) /\ UNCHANGED at
                               ELSE at' = at + 1 /\ UNCHANGED <<child, clean>>
  /\ UNCHANGED <<invoker, program, toCore, history>>

PeerWrite ==
  /\ Running /\ program[at].op = "write"
  /\ peer' = Follows(peer, Backend, program[at].frame)
  /\ IF peer'.state = "Failed"
     THEN Exit(FALSE) /\ UNCHANGED <<at, toCore>>
     ELSE /\ Len(toCore) < Capacity
          /\ toCore' = Append(toCore, program[at].frame)
          /\ at' = at + 1
          /\ UNCHANGED <<child, clean>>
  /\ UNCHANGED <<invoker, program, toPeer, history>>

PeerExit ==
  /\ child = "running" /\ at > Len(program)
  /\ Exit(TRUE)
  /\ UNCHANGED <<invoker, program, at, peer, toPeer, toCore, history>>

\* The child dies, perhaps inside a write.
PeerCrash ==
  /\ child = "running"
  /\ Exit(FALSE)
  /\ \/ UNCHANGED toCore
     \/ Running /\ program[at].op = "write" /\ toCore' = Append(toCore, CutFrame)
  /\ disturbed' = TRUE
  /\ UNCHANGED <<invoker, program, at, peer, toPeer, expired, cancels>>

\* The kernel closes the descriptors first, then the status can be waited for.
PeerReapable ==
  /\ child = "closed"
  /\ child' = "zombie"
  /\ UNCHANGED <<invoker, program, at, peer, clean, toPeer, toCore, history>>

Tick ==
  /\ pc \notin {"launch", "done"} /\ ~late
  /\ late' = TRUE /\ expired' = TRUE
  /\ UNCHANGED <<pc, session, torn, emission, report, outcome, process, toPeer,
                 toCore, disturbed, cancels>>

Invoker ==
  \/ Launch \/ SendHello \/ SendEmit \/ SendProjection \/ SendCancel \/ SendGoodbye
  \/ ReceiveFrame \/ ReceiveTimeout \/ ReceiveEnd \/ AwaitExit

Next == \/ Invoker \/ SystemFailure
        \/ PeerRead \/ PeerWrite \/ PeerExit \/ PeerCrash \/ PeerReapable
        \/ Tick

\* The invoker's thread is scheduled and time passes; nothing is assumed of
\* the child.
Spec == Init /\ [][Next]_vars /\ WF_vars(Invoker) /\ WF_vars(Tick)

-----------------------------------------------------------------------------
\* Success is reported only for the whole output of a backend that exited
\* cleanly after Goodbye with its own session closed: never for a part of it,
\* and never once Cancel was written, whatever was in flight then
\* (BackendInvoker.cpp 660-731).
SuccessMeansDelivered ==
  outcome = "success" =>
    /\ cancels = 0
    /\ clean /\ peer.state = "Closed"
    /\ \E s \in SourceSets : /\ program = Rendering(s)
                             /\ emission[1].requestId = Request
                             /\ emission[1].artifacts = ArtifactsOf(s)

Fits(s) == /\ Cardinality(DOMAIN ArtifactsOf(s)) = Len(s)
           /\ Len(s) <= MaxArtifacts
           /\ SumFunctionOnSet([i \in DOMAIN s |-> Len(s[i].content)], DOMAIN s) <= MaxTotalBytes

\* If no deadline passes and nothing crashes, a backend's answer is what the
\* caller gets: its output if it fits the limits, up to the limits themselves,
\* and its refusal if it refuses.  No ordering of the two processes, of a full
\* socket or of the child's exit turns it into a protocol or process error.
UndisturbedAnswer ==
  pc = "done" /\ ~expired /\ ~disturbed =>
    /\ program = Refusing => outcome = "peer_error"
    /\ program = Mismatched => outcome = "E_PACKAGE_BINDING"
    /\ \A s \in SourceSets :
         program = Rendering(s) =>
           outcome = IF Fits(s) THEN "success" ELSE "E_PROCESS_EXIT"

View(s) == [state |-> s.state, pending |-> s.pending, request |-> s.request,
            path |-> s.path, artifacts |-> s.artifacts, total |-> s.total]
CaughtUp(s, d, frames) ==
  LET after[n \in 0 .. Len(frames)] ==
        IF n = 0 THEN s ELSE Consume(after[n - 1], d, frames[n])
  IN  after[Len(frames)]

\* Until something is cancelled, cut short or refused, the two ends never
\* disagree: consuming what is in flight brings both sessions to the same
\* place in the protocol, with the same artifacts assembled.
EndsAgree ==
  child = "running" /\ cancels = 0 /\ pc # "done" /\ program \notin Sessionless =>
    View(CaughtUp(session, Backend, toCore)) = View(CaughtUp(peer, Core, toPeer))

\* invoke() returns, even if the child stalls, floods or never exits.
InvocationEnds == <>(pc = "done")

\* What the unit test TimeoutIsCancelledBeforeProcessTeardown says: when the
\* deadline passes while a backend emits, it is told so before it is killed
\* (a Cancel is written unless the child is gone or does not read).
TimeoutIsCancelled ==
  [][(pc = "cancel" /\ pc' = "done") => (late \/ ~Connected \/ disturbed')]_vars
=============================================================================
