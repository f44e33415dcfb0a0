--------------------------- MODULE BackendProtocol ---------------------------
(***************************************************************************)
(* The session automaton of the backend protocol: Session::consume of      *)
(* lib/spec-contract/BackendProtocol.cpp as an operator on session         *)
(* records.  Both ends of a stream, and the invoker for both directions,   *)
(* run it over the frames they see.                                        *)
(*                                                                         *)
(* Data abstracted: a payload is a sequence of bytes from a small set; a   *)
(* digest is the content it is the digest of; `ok` says that a frame       *)
(* passes the checks of its own content (flags, canonical decoding,        *)
(* versions, digests and profile of an Emit, path syntax, no path twice).  *)
(***************************************************************************)
EXTENDS Integers, Sequences, FiniteSets, SequencesExt, Functions

CONSTANTS
  RequestIds,      \* nonzero request ids
  Paths,           \* artifact paths
  Payloads,        \* contents of one ArtifactBytes frame
  MaxArtifacts,    \* outputSpec.maxArtifacts
  MaxTotalBytes    \* outputSpec.maxTotalBytes

NoRequest == 0
NoPath == ""
NoArtifacts == << >>
Core == "core"                    \* Direction::CoreToBackend
Backend == "backend"              \* Direction::BackendToCore

ASSUME ProtocolAssumption ==
  /\ NoRequest \notin RequestIds
  /\ NoPath \notin Paths
  /\ MaxArtifacts \in Nat \ {0}
  /\ MaxTotalBytes \in Nat \ {0}

RawTypes == {"ArtifactBytes", "ProjectionBytes"}
States == {"Init", "AwaitingCapabilities", "Ready", "Emitting", "Cancelling",
           "Closed", "Failed"}

NewSession == [state |-> "Init", pending |-> "none", pendingDir |-> Core,
               request |-> NoRequest, chunk |-> << >>, path |-> NoPath,
               seq |-> 0, bytes |-> << >>, total |-> 0,
               artifacts |-> NoArtifacts,
               accepted |-> << >>, completed |-> << >>, errors |-> << >>]

Fail(s) == [s EXCEPT !.state = "Failed"]

ResetRequest(s) ==
  [s EXCEPT !.pending = "none", !.request = NoRequest, !.chunk = << >>,
            !.path = NoPath, !.seq = 0, !.bytes = << >>, !.total = 0,
            !.artifacts = NoArtifacts]

-----------------------------------------------------------------------------
(* A raw frame owed by the header before it                                *)

\* Mutant of RawAdmissible: the byte limit itself is refused.
RawAdmissibleBelow(s, f) ==
  CASE s.pending = "skipped"    -> f.type \in RawTypes \cup {"Unknown"}
    [] s.pending = "projection" -> f.type = "ProjectionBytes" /\ f.ok
    [] s.pending = "artifact"   -> /\ f.type = "ArtifactBytes"
                                   /\ Len(f.payload) = s.chunk.byteLen
                                   /\ s.total + Len(f.payload) < MaxTotalBytes

RawAdmissible(s, f) ==
  CASE s.pending = "skipped"    -> f.type \in RawTypes \cup {"Unknown"}
    [] s.pending = "projection" -> f.type = "ProjectionBytes" /\ f.ok
    [] s.pending = "artifact"   ->
         /\ f.type = "ArtifactBytes"
         /\ Len(f.payload) = s.chunk.byteLen
         /\ s.total + Len(f.payload) <= MaxTotalBytes
         /\ s.chunk.final => Cardinality(DOMAIN s.artifacts) < MaxArtifacts

\* The map m with v at p.
With(m, p, v) == [q \in DOMAIN m \cup {p} |-> IF q = p THEN v ELSE m[q]]

ApplyArtifactBytes(s, f) ==
  LET bytes == s.bytes \o f.payload
      added == [s EXCEPT !.pending = "none", !.total = @ + Len(f.payload)]
  IN  IF s.chunk.final
      THEN [added EXCEPT !.artifacts = With(@, s.path, bytes),
                         !.path = NoPath, !.bytes = << >>, !.seq = 0]
      ELSE [added EXCEPT !.bytes = bytes, !.seq = @ + 1]

ConsumePendingRaw(s, d, f) ==
  IF d # s.pendingDir \/ f.trailingRaw \/ ~RawAdmissible(s, f) THEN Fail(s)
  ELSE CASE s.pending = "skipped"    -> [s EXCEPT !.pending = "none"]
         [] s.pending = "projection" ->
              [s EXCEPT !.pending = "none", !.state = "Emitting",
                        !.accepted = Append(@, s.request)]
         [] s.pending = "artifact"   -> ApplyArtifactBytes(s, f)

-----------------------------------------------------------------------------
(* Control frames                                                          *)

\* Mutant of ChunkAdmissible: the sequence number is not compared.
ChunkInAnyOrder(s, f) ==
  /\ f.requestId = s.request
  /\ f.path \notin DOMAIN s.artifacts
  /\ s.path \in {NoPath, f.path}

ChunkAdmissible(s, f) ==
  /\ f.requestId = s.request
  /\ f.path \notin DOMAIN s.artifacts
  /\ IF s.path = NoPath THEN f.seq = 0 ELSE f.path = s.path /\ f.seq = s.seq

\* The manifest lists exactly the assembled artifacts, with their digests.
ManifestAdmissible(s, f) ==
  /\ s.path = NoPath
  /\ f.requestId = s.request
  /\ f.artifacts = s.artifacts

SenderOf(type) == IF type \in {"Hello", "Emit", "Cancel", "Goodbye"} THEN Core
                                                                   ELSE Backend

\* Mutant of StatesOf: a second Emit is taken before the first is answered.
StatesOfPipelined(type) ==
  CASE type = "Hello"         -> {"Init"}
    [] type = "Capabilities"  -> {"AwaitingCapabilities"}
    [] type \in {"Emit", "Goodbye"} -> {"Ready", "Emitting"}
    [] type \in {"ArtifactChunk", "Manifest", "Cancel"} -> {"Emitting"}
    [] type = "Cancelled"     -> {"Cancelling"}
    [] type = "Error"         -> {"AwaitingCapabilities", "Emitting"}

\* The states a control frame may arrive in.
StatesOf(type) ==
  CASE type = "Hello"         -> {"Init"}
    [] type = "Capabilities"  -> {"AwaitingCapabilities"}
    [] type \in {"Emit", "Goodbye"} -> {"Ready"}
    [] type \in {"ArtifactChunk", "Manifest", "Cancel"} -> {"Emitting"}
    [] type = "Cancelled"     -> {"Cancelling"}
    [] type = "Error"         -> {"AwaitingCapabilities", "Emitting"}

ControlAdmissible(s, d, f) ==
  /\ d = SenderOf(f.type)
  /\ s.state \in StatesOf(f.type)
  /\ f.ok
  /\ CASE f.type = "Emit"          -> f.requestId # NoRequest
       [] f.type = "ArtifactChunk" -> ChunkAdmissible(s, f)
       [] f.type = "Manifest"      -> ManifestAdmissible(s, f)
       [] f.type \in {"Cancel", "Cancelled", "Error"} ->
            f.requestId = s.request      \* 0 before the first request
       [] OTHER -> TRUE

ApplyControl(s, d, f) ==
  CASE f.type = "Hello"        -> [s EXCEPT !.state = "AwaitingCapabilities"]
    [] f.type = "Capabilities" -> [s EXCEPT !.state = "Ready"]
    [] f.type = "Emit"         -> [s EXCEPT !.request = f.requestId,
                                            !.pending = "projection",
                                            !.pendingDir = d]
    [] f.type = "ArtifactChunk" ->
         [s EXCEPT !.path = f.path, !.pending = "artifact", !.pendingDir = d,
                   !.chunk = [seq |-> f.seq, byteLen |-> f.byteLen, final |-> f.final]]
    [] f.type = "Manifest" ->
         [ResetRequest(s) EXCEPT !.state = "Ready",
            !.completed = Append(@, [requestId |-> s.request,
                                     artifacts |-> s.artifacts])]
    [] f.type = "Cancel"    -> [s EXCEPT !.state = "Cancelling"]
    [] f.type = "Cancelled" -> [ResetRequest(s) EXCEPT !.state = "Ready"]
    [] f.type = "Error" /\ s.state = "AwaitingCapabilities" ->
         [s EXCEPT !.state = "Failed", !.errors = Append(@, f.requestId)]
    [] f.type = "Error" /\ s.state = "Emitting" ->
         [ResetRequest(s) EXCEPT !.state = "Ready",
                                 !.errors = Append(@, f.requestId)]
    [] f.type = "Goodbye"   -> [s EXCEPT !.state = "Closed"]

ConsumeKnown(s, d, f) ==
  IF ControlAdmissible(s, d, f) THEN ApplyControl(s, d, f) ELSE Fail(s)

\* An unknown frame is skipped, with the raw frame it announces, unless it
\* must be understood.
ConsumeUnknown(s, d, f) ==
  IF f.mustUnderstand THEN Fail(s)
  ELSE IF f.trailingRaw THEN [s EXCEPT !.pending = "skipped", !.pendingDir = d]
  ELSE s

\* Session::consume.
Consume(s, d, f) ==
  IF s.state = "Failed" THEN s
  ELSE IF s.state = "Closed" \/ f.type = "Invalid" THEN Fail(s)
  ELSE IF s.pending # "none" THEN ConsumePendingRaw(s, d, f)
  ELSE IF f.type = "Unknown" THEN ConsumeUnknown(s, d, f)
  ELSE IF f.type \in RawTypes THEN Fail(s)
  ELSE ConsumeKnown(s, d, f)

\* Session::finish, at the end of the stream.
FinishStream(s) == IF s.state = "Closed" THEN s ELSE Fail(s)

-----------------------------------------------------------------------------
(* Frames                                                                  *)

\* trailingRaw is the flag as the frame carries it; a control frame whose flag
\* contradicts its type is one that is not ok.
Control(type) == [type |-> type, ok |-> TRUE, trailingRaw |-> FALSE]
About(type, id) ==
  [type |-> type, ok |-> TRUE, trailingRaw |-> type = "Emit", requestId |-> id]
EmitFrame(id) == About("Emit", id)
CancelFrame(id) == About("Cancel", id)
CancelledFrame(id) == About("Cancelled", id)
ErrorFrame(id) == About("Error", id)
ChunkFrame(id, p, n, last, len) ==
  [type |-> "ArtifactChunk", ok |-> TRUE, trailingRaw |-> TRUE, requestId |-> id,
   path |-> p, seq |-> n, final |-> last, byteLen |-> len]
ManifestFrame(id, artifacts) ==
  [type |-> "Manifest", ok |-> TRUE, trailingRaw |-> FALSE, requestId |-> id,
   artifacts |-> artifacts]
ProjectionFrame(good) == [type |-> "ProjectionBytes", ok |-> good, trailingRaw |-> FALSE]
BytesFrame(payload) ==
  [type |-> "ArtifactBytes", ok |-> TRUE, trailingRaw |-> FALSE, payload |-> payload]
InvalidFrame == [type |-> "Invalid"]          \* refused by frameError
UnknownFrame(must, raw) ==
  [type |-> "Unknown", ok |-> TRUE, mustUnderstand |-> must, trailingRaw |-> raw]
=============================================================================
