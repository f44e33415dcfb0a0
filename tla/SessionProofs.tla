---------------------------- MODULE SessionProofs ----------------------------
(***************************************************************************)
(* A completed emission is what its peer streamed, and every request has   *)
(* one answer, for any frames, limits, paths and payloads.                 *)
(***************************************************************************)
EXTENDS BackendSession, FiniteSums

-----------------------------------------------------------------------------
(* The types                                                               *)

Requests == RequestIds \cup {NoRequest}
Headers == [seq : Nat, byteLen : Nat, final : BOOLEAN]
Artifacts == UNION {[P -> Seq(Bytes)] : P \in SUBSET Paths}
Completions == [requestId : Requests, artifacts : Artifacts]
Chunks == [seq : Nat, payload : Seq(Bytes)]
Runs == UNION {[P -> Seq(Chunks)] : P \in SUBSET Paths}

Sessions ==
  [state : States, pending : {"none", "skipped", "projection", "artifact"},
   pendingDir : {Core, Backend}, request : Requests, chunk : Headers \cup {<< >>},
   path : Paths \cup {NoPath}, seq : Nat, bytes : Seq(Bytes), total : Nat,
   artifacts : Artifacts, accepted : Seq(Requests), completed : Seq(Completions),
   errors : Seq(Requests)]

-----------------------------------------------------------------------------
(* The inductive invariant                                                 *)

\* Chunks numbered from zero without a gap.
Numbered(chunks) == \A i \in DOMAIN chunks : chunks[i].seq = i - 1

\* The history r holds the chunks of the artifacts assembled in s and of the
\* one being assembled, and s holds their bytes.
Streamed(s, r) ==
  /\ DOMAIN r = DOMAIN s.artifacts \cup (IF s.seq = 0 THEN {} ELSE {s.path})
  /\ s.path \notin DOMAIN s.artifacts
  /\ \A p \in DOMAIN r : Numbered(r[p])
  /\ \A p \in DOMAIN s.artifacts : s.artifacts[p] = Assembled(r[p])
  /\ Len(ChunksOf(r, s.path)) = s.seq
  /\ s.bytes = Assembled(ChunksOf(r, s.path))

\* The bytes of the artifacts.
Size(artifacts) ==
  SumFunctionOnSet([p \in DOMAIN artifacts |-> Len(artifacts[p])], DOMAIN artifacts)

\* What has been assembled is counted and within the limits.
Counted(s) ==
  /\ IsFiniteSet(DOMAIN s.artifacts)
  /\ Cardinality(DOMAIN s.artifacts) <= MaxArtifacts
  /\ s.total = Size(s.artifacts) + Len(s.bytes)
  /\ s.total <= MaxTotalBytes

\* Nothing is left of a request that is not being served.
Idle(s, r) ==
  /\ s.artifacts = NoArtifacts /\ s.path = NoPath
  /\ s.seq = 0 /\ s.bytes = << >> /\ s.total = 0
  /\ r = NoChunks

\* The raw frame owed: a projection before the request is served, bytes of the
\* path being assembled while it is.
Owed(s) ==
  /\ s.pending = "projection" => s.state = "Ready"
  /\ s.pending = "artifact" => /\ s.state = "Emitting"
                               /\ s.path # NoPath
                               /\ s.chunk \in Headers
                               /\ s.chunk.seq = s.seq

Live(s, r) ==
  s.state # "Failed" => /\ Streamed(s, r)
                        /\ Counted(s)
                        /\ ~Serving(s) => Idle(s, r)
                        /\ Owed(s)

TypeOK == /\ session \in Sessions
          /\ run \in Runs
          /\ begun \in Nat /\ ended \in Nat

IInv == /\ TypeOK
        /\ Live(session, run)
        /\ AnsweredOnce
        /\ EmissionIsWhatWasStreamed

-----------------------------------------------------------------------------
(* Frames                                                                  *)

FrameTypes == {"Hello", "Capabilities", "Emit", "ArtifactChunk", "Manifest", "Cancel",
               "Cancelled", "Error", "Goodbye", "ProjectionBytes", "ArtifactBytes",
               "Unknown", "Invalid"}

\* The fields the session reads of a frame of each type.
Formed(f) ==
  /\ f.type \in FrameTypes
  /\ f.type \in {"Emit", "Error"} => f.requestId \in Requests
  /\ f.type = "ArtifactChunk" => /\ f.path \in Paths
                                 /\ [seq |-> f.seq, byteLen |-> f.byteLen,
                                     final |-> f.final] \in Headers
  /\ f.type = "ArtifactBytes" => f.payload \in Seq(Bytes)

\* Every frame a peer can send has the fields its type promises.
LEMMA FramesAreFormed == \A f \in Frames : Formed(f)
<1> USE DEF Formed, FrameTypes, Control, About
<1>1. /\ \A f \in PlainFrames : Formed(f)
      /\ \A f \in UnknownFrames : Formed(f)
      /\ Formed(InvalidFrame)
  BY DEF PlainFrames, UnknownFrames, InvalidFrame, UnknownFrame
<1>2. \A id \in RequestIds \cup {NoRequest} : \A f \in RequestFrames(id) : Formed(f)
  BY DEF RequestFrames, EmitFrame, CancelFrame, CancelledFrame, ErrorFrame, Requests
<1>3. \A f \in RawFrames : Formed(f)
  BY SessionAssumption DEF RawFrames, BytesFrame, ProjectionFrame
<1>4. \A f \in ChunkFrames : Formed(f)
  <2>1. \A len \in Lengths : len \in Nat
    BY SessionAssumption DEF Lengths
  <2>2. \A n \in 0 .. MaxSeq : n \in Nat
    OBVIOUS
  <2>3. ASSUME NEW id \in RequestIds, NEW p \in Paths, NEW n \in Nat,
               NEW fin \in BOOLEAN, NEW len \in Nat
        PROVE  Formed(ChunkFrame(id, p, n, fin, len))
    BY DEF ChunkFrame, Headers
  <2> HIDE DEF Formed
  <2> QED BY <2>1, <2>2, <2>3 DEF ChunkFrames
<1>5. \A f \in ManifestFrames : Formed(f)
  BY DEF ManifestFrames, ManifestFrame
<1> HIDE DEF Formed, FrameTypes, Control, About
<1> QED BY <1>1, <1>2, <1>3, <1>4, <1>5 DEF Frames

-----------------------------------------------------------------------------
(* One frame                                                               *)

ControlTypes == {"Hello", "Capabilities", "Emit", "ArtifactChunk", "Manifest", "Cancel",
                 "Cancelled", "Error", "Goodbye"}

\* What consuming f can make of s: nothing it accepts changes s otherwise.
Step(s, d, f, t) ==
  \/ t = Fail(s)
  \/ s.pending = "none" /\ t = s
  \/ s.pending = "none" /\ t = [s EXCEPT !.pending = "skipped", !.pendingDir = d]
  \/ s.pending = "skipped" /\ t = [s EXCEPT !.pending = "none"]
  \/ /\ s.pending = "projection"
     /\ t = [s EXCEPT !.pending = "none", !.state = "Emitting",
                      !.accepted = Append(@, s.request)]
  \/ /\ s.pending = "artifact" /\ RawAdmissible(s, f)
     /\ t = ApplyArtifactBytes(s, f)
  \/ /\ s.pending = "none" /\ f.type \in ControlTypes /\ ControlAdmissible(s, d, f)
     /\ t = ApplyControl(s, d, f)

\* Consuming a frame, in a session that has not failed, is one of the steps.
LEMMA ConsumeIsAStep ==
  ASSUME NEW s \in Sessions, NEW d, NEW f, Formed(f), s.state # "Failed"
  PROVE  Step(s, d, f, Consume(s, d, f))
<1>1. s.pending \in {"none", "skipped", "projection", "artifact"}
  BY DEF Sessions
<1>2. CASE s.state = "Closed" \/ f.type = "Invalid"
  BY <1>2 DEF Consume, Step
<1>3. CASE ~(s.state = "Closed" \/ f.type = "Invalid") /\ s.pending # "none"
  <2>1. Consume(s, d, f) = ConsumePendingRaw(s, d, f)
    BY <1>3 DEF Consume
  <2>2. CASE d # s.pendingDir \/ f.trailingRaw \/ ~RawAdmissible(s, f)
    BY <2>1, <2>2 DEF ConsumePendingRaw, Step
  <2>3. CASE ~(d # s.pendingDir \/ f.trailingRaw \/ ~RawAdmissible(s, f))
    <3>1. CASE s.pending = "skipped"
      BY <2>1, <2>3, <3>1 DEF ConsumePendingRaw, Step
    <3>2. CASE s.pending = "projection"
      BY <2>1, <2>3, <3>2 DEF ConsumePendingRaw, Step
    <3>3. CASE s.pending = "artifact"
      BY <2>1, <2>3, <3>3 DEF ConsumePendingRaw, Step
    <3> QED BY <1>1, <1>3, <3>1, <3>2, <3>3
  <2> QED BY <2>2, <2>3
<1>4. CASE ~(s.state = "Closed" \/ f.type = "Invalid") /\ s.pending = "none"
  <2>1. CASE f.type = "Unknown"
    BY <1>4, <2>1 DEF Consume, ConsumeUnknown, Step
  <2>2. CASE f.type \in RawTypes
    BY <1>4, <2>2 DEF Consume, RawTypes, Step
  <2>3. CASE f.type \in ControlTypes
    <3>1. f.type # "Unknown" /\ f.type \notin RawTypes
      BY <2>3 DEF ControlTypes, RawTypes
    <3>2. Consume(s, d, f) = ConsumeKnown(s, d, f)
      BY <1>4, <3>1 DEF Consume
    <3> QED BY <1>4, <2>3, <3>2 DEF ConsumeKnown, Step
  <2> QED BY <1>4, <2>1, <2>2, <2>3 DEF Formed, FrameTypes, ControlTypes, RawTypes
<1> QED BY <1>2, <1>3, <1>4

\* A map on paths stays one.
LEMMA MapsOnPaths ==
  ASSUME NEW S
  PROVE  /\ << >> \in UNION {[P -> S] : P \in SUBSET Paths}
         /\ \A m \in UNION {[P -> S] : P \in SUBSET Paths}, p \in Paths, v \in S :
              With(m, p, v) \in UNION {[P -> S] : P \in SUBSET Paths}
<1> DEFINE Maps == UNION {[P -> S] : P \in SUBSET Paths}
<1>1. << >> \in Maps
  <2>1. << >> \in [{} -> S] /\ {} \in SUBSET Paths
    OBVIOUS
  <2> QED BY <2>1
<1>2. ASSUME NEW m \in Maps, NEW p \in Paths, NEW v \in S
      PROVE  With(m, p, v) \in Maps
  <2>1. PICK P \in SUBSET Paths : m \in [P -> S]
    OBVIOUS
  <2>2. With(m, p, v) \in [P \cup {p} -> S] /\ P \cup {p} \in SUBSET Paths
    BY <2>1 DEF With
  <2> QED BY <2>2
<1> HIDE DEF Maps
<1>3. << >> \in Maps /\ \A m \in Maps, p \in Paths, v \in S : With(m, p, v) \in Maps
  BY <1>1, <1>2
<1> QED BY <1>3 DEF Maps

\* Resetting the request of a session leaves a session.
LEMMA ResetIsTyped ==
  ASSUME NEW s \in Sessions
  PROVE  ResetRequest(s) \in Sessions
<1>1. /\ NoArtifacts \in Artifacts /\ NoRequest \in Requests
      /\ << >> \in Seq(Bytes) /\ 0 \in Nat
  BY MapsOnPaths DEF NoArtifacts, Artifacts, Requests
<1> QED BY <1>1 DEF ResetRequest, Sessions

\* A session stays one, whatever it is fed.
LEMMA StepIsTyped ==
  ASSUME NEW s \in Sessions, NEW d \in {Core, Backend}, NEW f, Formed(f),
         Owed(s), s.state # "Failed", NEW t, Step(s, d, f, t)
  PROVE  t \in Sessions
<1>1. CASE t = Fail(s)
  BY <1>1 DEF Fail, Sessions, States
<1>2. CASE \/ t = s
           \/ t = [s EXCEPT !.pending = "skipped", !.pendingDir = d]
           \/ t = [s EXCEPT !.pending = "none"]
  BY <1>2, ZenonT(40) DEF Sessions
<1>3. CASE t = [s EXCEPT !.pending = "none", !.state = "Emitting",
                      !.accepted = Append(@, s.request)]
  <2>1. Append(s.accepted, s.request) \in Seq(Requests)
    <3>1. s.accepted \in Seq(Requests) /\ s.request \in Requests
      BY DEF Sessions
    <3> QED BY <3>1
  <2> QED BY <1>3, <2>1 DEF Sessions, States
<1>4. CASE s.pending = "artifact" /\ RawAdmissible(s, f) /\ t = ApplyArtifactBytes(s, f)
  <2>1. f.payload \in Seq(Bytes) /\ s.path \in Paths /\ s.bytes \in Seq(Bytes)
    BY <1>4 DEF RawAdmissible, Formed, FrameTypes, Owed, Sessions
  <2>2. s.bytes \o f.payload \in Seq(Bytes) /\ s.total + Len(f.payload) \in Nat
    <3>1. s.total \in Nat
      BY DEF Sessions
    <3> QED BY <2>1, <3>1
  <2>3. With(s.artifacts, s.path, s.bytes \o f.payload) \in Artifacts
    <3>1. s.artifacts \in Artifacts
      BY DEF Sessions
    <3> QED BY <2>1, <2>2, <3>1, MapsOnPaths DEF Artifacts
  <2>4. << >> \in Seq(Bytes) /\ s.seq + 1 \in Nat
    BY DEF Sessions
  <2> QED BY <1>4, <2>2, <2>3, <2>4 DEF ApplyArtifactBytes, Sessions
<1>5. CASE f.type \in ControlTypes /\ ControlAdmissible(s, d, f) /\ t = ApplyControl(s, d, f)
  <2>1. ResetRequest(s) \in Sessions
    BY ResetIsTyped
  <2>2. CASE f.type \in {"Hello", "Capabilities", "Goodbye", "Cancel"}
    BY <1>5, <2>2, ZenonT(40) DEF ApplyControl, Sessions, States
  <2>3. CASE f.type = "Emit"
    BY <1>5, <2>3 DEF ApplyControl, Sessions, Formed
  <2>4. CASE f.type = "ArtifactChunk"
    BY <1>5, <2>4, ZenonT(40) DEF ApplyControl, Sessions, Formed
  <2>5. CASE f.type = "Manifest"
    <3>1. /\ [requestId |-> s.request, artifacts |-> s.artifacts] \in Completions
          /\ s.completed \in Seq(Completions)
      BY DEF Sessions, Completions
    <3>2. Append(s.completed, [requestId |-> s.request, artifacts |-> s.artifacts])
            \in Seq(Completions)
      BY <3>1
    <3>3. ResetRequest(s).completed = s.completed
      BY DEF ResetRequest, Sessions
    <3> QED BY <1>5, <2>1, <2>5, <3>2, <3>3 DEF ApplyControl, Sessions, States
  <2>6. CASE f.type = "Cancelled"
    BY <1>5, <2>1, <2>6 DEF ApplyControl, Sessions, States
  <2>7. CASE f.type = "Error"
    <3>1. Append(s.errors, f.requestId) \in Seq(Requests)
      <4>1. s.errors \in Seq(Requests) /\ f.requestId \in Requests
        BY <2>7 DEF Sessions, Formed
      <4> QED BY <4>1
    <3>2. ResetRequest(s).errors = s.errors
      BY DEF ResetRequest, Sessions
    <3>3. s.state = "AwaitingCapabilities" \/ s.state = "Emitting"
      BY <1>5, <2>7 DEF ControlAdmissible, StatesOf
    <3>4. CASE s.state = "AwaitingCapabilities"
      BY <1>5, <2>7, <3>1, <3>4 DEF ApplyControl, Sessions, States
    <3>5. CASE s.state = "Emitting"
      BY <1>5, <2>1, <2>7, <3>1, <3>2, <3>5, ZenonT(40) DEF ApplyControl, Sessions, States
    <3> QED BY <3>3, <3>4, <3>5
  <2> QED BY <1>5, <2>2, <2>3, <2>4, <2>5, <2>6, <2>7 DEF ControlTypes
<1> QED BY <1>1, <1>2, <1>3, <1>4, <1>5 DEF Step

-----------------------------------------------------------------------------
(* What a chunk adds                                                       *)

\* A chunk more adds its bytes.
LEMMA AssembledGrows ==
  ASSUME NEW c \in Seq(Chunks), NEW x \in Chunks
  PROVE  Assembled(Append(c, x)) = Assembled(c) \o x.payload
<1> DEFINE payloads(e) == [i \in DOMAIN e |-> e[i].payload]
<1>1. payloads(c) \in Seq(Seq(Bytes)) /\ x.payload \in Seq(Bytes)
  <2>1. \A i \in 1 .. Len(c) : c[i].payload \in Seq(Bytes)
    <3>1. \A i \in 1 .. Len(c) : c[i] \in Chunks
      OBVIOUS
    <3>2. \A y \in Chunks : y.payload \in Seq(Bytes)
      BY DEF Chunks
    <3> QED BY <3>1, <3>2
  <2>2. payloads(c) \in [1 .. Len(c) -> Seq(Bytes)]
    BY <2>1
  <2> QED BY <2>2 DEF Chunks
<1>2. payloads(Append(c, x)) = Append(payloads(c), x.payload)
  <2>1. /\ DOMAIN payloads(Append(c, x)) = 1 .. Len(c) + 1
        /\ DOMAIN Append(payloads(c), x.payload) = 1 .. Len(c) + 1
    BY <1>1
  <2>2. \A i \in 1 .. Len(c) + 1 :
          payloads(Append(c, x))[i] = Append(payloads(c), x.payload)[i]
    BY <1>1
  <2>3. /\ payloads(Append(c, x)) = [i \in 1 .. Len(c) + 1 |-> payloads(Append(c, x))[i]]
        /\ Append(payloads(c), x.payload)
             = [i \in 1 .. Len(c) + 1 |-> Append(payloads(c), x.payload)[i]]
    BY <1>1, <2>1
  <2> QED BY <2>2, <2>3
<1>3. FlattenSeq(Append(payloads(c), x.payload)) = FlattenSeq(payloads(c)) \o x.payload
  BY <1>1, FlattenAppend
<1> QED BY <1>2, <1>3 DEF Assembled

\* No chunks make no bytes.
LEMMA NothingAssembled == Assembled(<< >>) = << >>
<1>1. [i \in DOMAIN << >> |-> << >>[i].payload] = << >>
  OBVIOUS
<1> QED BY <1>1, FlattenEmpty DEF Assembled

\* A path more adds the bytes of its artifact.
LEMMA SizeGrows ==
  ASSUME NEW a \in Artifacts, IsFiniteSet(DOMAIN a), NEW p \in Paths, p \notin DOMAIN a,
         NEW v \in Seq(Bytes)
  PROVE  /\ IsFiniteSet(DOMAIN With(a, p, v))
         /\ Cardinality(DOMAIN With(a, p, v)) = Cardinality(DOMAIN a) + 1
         /\ Size(With(a, p, v)) = Size(a) + Len(v)
         /\ Size(a) \in Int
<1> DEFINE D == DOMAIN a
           b == With(a, p, v)
           lens(m) == [q \in DOMAIN m |-> Len(m[q])]
<1>1. DOMAIN b = D \cup {p} /\ b[p] = v /\ \A q \in D : b[q] = a[q]
  BY DEF With
<1>2. \A q \in D : Len(a[q]) \in Int
  BY DEF Artifacts
<1>3. IsFiniteSet(D \cup {p}) /\ Cardinality(D \cup {p}) = Cardinality(D) + 1
  BY FS_AddElement
<1>4. /\ \A q \in D : lens(b)[q] = lens(a)[q] /\ lens(a)[q] \in Int
      /\ lens(b)[p] = Len(v) /\ Len(v) \in Int
  BY <1>1, <1>2
<1>5. \A q \in D \cup {p} : lens(b)[q] \in Int
  BY <1>4
<1> HIDE DEF lens, b
<1>6. SumFunctionOnSet(lens(b), D \cup {p})
        = lens(b)[p] + SumFunctionOnSet(lens(b), (D \cup {p}) \ {p})
  BY <1>3, <1>5, SumTakesOut
<1>7. (D \cup {p}) \ {p} = D
  OBVIOUS
<1>8. SumFunctionOnSet(lens(b), D) = SumFunctionOnSet(lens(a), D)
  BY <1>4, SumAgrees
<1>9. SumFunctionOnSet(lens(a), D) \in Int
  BY <1>4, SumInt
<1>10. Size(a) = SumFunctionOnSet(lens(a), D) /\ Size(b) = SumFunctionOnSet(lens(b), D \cup {p})
  BY <1>1 DEF Size, lens
<1>11. Size(b) = Size(a) + Len(v)
  BY <1>4, <1>6, <1>7, <1>8, <1>9, <1>10
<1> QED BY <1>1, <1>3, <1>9, <1>10, <1>11 DEF b

\* No artifacts have no bytes.
LEMMA SizeOfNone == Size(NoArtifacts) = 0
<1>1. DOMAIN NoArtifacts = {}
  BY DEF NoArtifacts
<1> QED BY <1>1, SumEmpty DEF Size

-----------------------------------------------------------------------------
(* One frame keeps the invariant                                           *)

\* The history after s has become t on consuming f.
After(s, r, f, t) ==
  IF s.pending = "artifact" /\ t.state # "Failed"
  THEN Received(r, s.path, [seq |-> s.chunk.seq, payload |-> f.payload])
  ELSE IF t.state \in {"Ready", "Failed"} THEN NoChunks ELSE r

\* A session with nothing left of a request needs no more.
LEMMA IdleIsLive ==
  ASSUME NEW t \in Sessions, NEW r, Idle(t, r), Owed(t)
  PROVE  Live(t, r)
<1>1. /\ DOMAIN t.artifacts = {} /\ DOMAIN r = {}
      /\ t.seq = 0 /\ t.bytes = << >> /\ t.path = NoPath /\ t.total = 0
  BY DEF Idle, NoArtifacts, NoChunks
<1>2. ChunksOf(r, t.path) = << >> /\ Len(<< >>) = 0
  BY <1>1 DEF ChunksOf
<1>3. Streamed(t, r)
  BY <1>1, <1>2, NothingAssembled DEF Streamed
<1>4. Counted(t)
  <2>1. t.artifacts = NoArtifacts
    BY DEF Idle
  <2>2. Cardinality({}) = 0 /\ IsFiniteSet({})
    BY FS_EmptySet
  <2> QED BY <1>1, <1>2, <2>1, <2>2, SizeOfNone, ProtocolAssumption DEF Counted
<1> QED BY <1>3, <1>4 DEF Live

\* The history stays a map from paths to chunks.
LEMMA StepKeepsRun ==
  ASSUME NEW s \in Sessions, NEW r \in Runs, NEW d, NEW f, Formed(f),
         Live(s, r), s.state # "Failed", NEW t, Step(s, d, f, t)
  PROVE  After(s, r, f, t) \in Runs
<1>1. NoChunks \in Runs
  BY MapsOnPaths DEF NoChunks, Runs
<1>2. CASE s.pending = "artifact" /\ t.state # "Failed"
  <2>1. s.path \in Paths /\ s.chunk.seq \in Nat
    BY <1>2 DEF Live, Owed, Sessions, Headers
  <2>2. f.payload \in Seq(Bytes)
    BY <1>2 DEF Step, Fail, Sessions, RawAdmissible, Formed, FrameTypes
  <2>3. ChunksOf(r, s.path) \in Seq(Chunks)
    BY DEF ChunksOf, Runs
  <2>4. Append(ChunksOf(r, s.path), [seq |-> s.chunk.seq, payload |-> f.payload])
          \in Seq(Chunks)
    BY <2>1, <2>2, <2>3 DEF Chunks
  <2> QED BY <1>2, <2>1, <2>4, MapsOnPaths DEF After, Received, Runs
<1>3. CASE ~(s.pending = "artifact" /\ t.state # "Failed")
  BY <1>1, <1>3 DEF After
<1> QED BY <1>2, <1>3

\* The bytes of an artifact arrive.
LEMMA BytesAreStreamed ==
  ASSUME NEW s \in Sessions, NEW r \in Runs, NEW f, Formed(f),
         Live(s, r), s.pending = "artifact", s.state # "Failed", RawAdmissible(s, f),
         NEW t, t = ApplyArtifactBytes(s, f), t \in Sessions
  PROVE  /\ Live(t, After(s, r, f, t))
         /\ t.state = s.state
         /\ t.accepted = s.accepted /\ t.completed = s.completed
<1> DEFINE x == [seq |-> s.chunk.seq, payload |-> f.payload]
           c == ChunksOf(r, s.path)
           q == Received(r, s.path, x)
<1>1. /\ s.state = "Emitting" /\ s.path \in Paths /\ s.path # NoPath
      /\ s.chunk \in Headers /\ s.chunk.seq = s.seq
      /\ Streamed(s, r) /\ Counted(s)
  BY DEF Live, Owed, Sessions
<1>2. /\ f.payload \in Seq(Bytes)
      /\ s.total + Len(f.payload) <= MaxTotalBytes
      /\ s.chunk.final => Cardinality(DOMAIN s.artifacts) < MaxArtifacts
  BY DEF RawAdmissible, Formed, FrameTypes
<1>3. /\ c \in Seq(Chunks) /\ x \in Chunks
      /\ Len(c) = s.seq /\ Numbered(c) /\ s.bytes = Assembled(c)
  <2>1. c \in Seq(Chunks) /\ Numbered(c)
    <3>1. CASE s.path \in DOMAIN r
      BY <1>1, <3>1 DEF ChunksOf, Runs, Streamed
    <3>2. CASE s.path \notin DOMAIN r
      BY <3>2 DEF ChunksOf, Numbered
    <3> QED BY <3>1, <3>2
  <2>2. x \in Chunks
    BY <1>1, <1>2 DEF Headers, Chunks
  <2> QED BY <1>1, <2>1, <2>2 DEF Streamed
<1>4. /\ Append(c, x) \in Seq(Chunks) /\ Len(Append(c, x)) = s.seq + 1
      /\ Numbered(Append(c, x))
      /\ Assembled(Append(c, x)) = s.bytes \o f.payload
  <2>1. Numbered(Append(c, x))
    <3> SUFFICES ASSUME NEW i \in 1 .. Len(c) + 1 PROVE Append(c, x)[i].seq = i - 1
      BY <1>3 DEF Numbered
    <3>1. CASE i = Len(c) + 1
      BY <1>1, <1>3, <3>1
    <3>2. CASE i \in 1 .. Len(c)
      BY <1>3, <3>2 DEF Numbered
    <3> QED BY <1>3, <3>1, <3>2
  <2> HIDE DEF c, x
  <2>2. Assembled(Append(c, x)) = s.bytes \o x.payload
    BY <1>3, AssembledGrows
  <2> QED BY <1>3, <2>1, <2>2 DEF x
<1> HIDE DEF x, c
<1>5. /\ DOMAIN q = DOMAIN r \cup {s.path} /\ q[s.path] = Append(c, x)
      /\ \A p \in DOMAIN r : p # s.path => q[p] = r[p]
  BY DEF Received, With, c
<1>6. After(s, r, f, t) = q /\ t.state = "Emitting" /\ t.pending = "none"
  BY <1>1 DEF After, ApplyArtifactBytes, Sessions, x
<1> HIDE DEF q
<1>7. \A p \in DOMAIN q : Numbered(q[p])
  BY <1>1, <1>4, <1>5 DEF Streamed
<1>8. DOMAIN r = DOMAIN s.artifacts \/ DOMAIN r = DOMAIN s.artifacts \cup {s.path}
  BY <1>1 DEF Streamed
<1>9. \A p \in DOMAIN s.artifacts : s.artifacts[p] = Assembled(q[p])
  BY <1>1, <1>5 DEF Streamed
<1>10. s.bytes \in Seq(Bytes) /\ s.artifacts \in Artifacts /\ s.seq \in Nat /\ s.total \in Nat
  BY DEF Sessions
<1>11. Len(s.bytes \o f.payload) = Len(s.bytes) + Len(f.payload)
  BY <1>2, <1>10
<1>12. CASE s.chunk.final
  <2> DEFINE b == With(s.artifacts, s.path, s.bytes \o f.payload)
  <2>1. /\ t.artifacts = b /\ t.path = NoPath /\ t.bytes = << >> /\ t.seq = 0
        /\ t.total = s.total + Len(f.payload)
    BY <1>12 DEF ApplyArtifactBytes, Sessions
  <2>2. /\ DOMAIN b = DOMAIN s.artifacts \cup {s.path}
        /\ b[s.path] = s.bytes \o f.payload
        /\ \A p \in DOMAIN s.artifacts : p # s.path => b[p] = s.artifacts[p]
    BY DEF With
  <2>3. Streamed(t, q)
    <3>1. NoPath \notin DOMAIN b /\ NoPath \notin DOMAIN q
      BY <1>1, <1>5, <1>8, <1>10, <2>2, ProtocolAssumption DEF Artifacts
    <3>2. ChunksOf(q, t.path) = << >> /\ Len(<< >>) = 0
      BY <2>1, <3>1 DEF ChunksOf
    <3>3. DOMAIN b = DOMAIN q
      BY <1>5, <1>8, <2>2
    <3>4. \A p \in DOMAIN b : b[p] = Assembled(q[p])
      BY <1>4, <1>5, <1>9, <2>2
    <3> HIDE DEF b
    <3> QED BY <1>7, <2>1, <3>1, <3>2, <3>3, <3>4, NothingAssembled DEF Streamed
  <2>4. Counted(t)
    <3>1. s.path \notin DOMAIN s.artifacts /\ s.bytes \o f.payload \in Seq(Bytes)
      BY <1>1, <1>2, <1>10 DEF Streamed
    <3>2. /\ IsFiniteSet(DOMAIN b) /\ Cardinality(DOMAIN b) = Cardinality(DOMAIN s.artifacts) + 1
          /\ Size(b) = Size(s.artifacts) + Len(s.bytes \o f.payload)
          /\ Size(s.artifacts) \in Int
      BY <1>1, <1>10, <3>1, SizeGrows DEF Counted
    <3>3. Cardinality(DOMAIN s.artifacts) \in Nat
      BY <1>1, FS_CardinalityType DEF Counted
    <3>4. Len(s.bytes) \in Nat /\ Len(f.payload) \in Nat /\ Len(<< >>) = 0
      BY <1>2, <1>10
    <3> HIDE DEF b
    <3>5. s.total = Size(s.artifacts) + Len(s.bytes)
      BY <1>1 DEF Counted
    <3>6. t.total = Size(b) + 0
      <4>1. s.total + Len(f.payload) = Size(s.artifacts) + (Len(s.bytes) + Len(f.payload))
        <5>1. PICK n \in Nat : n = Len(f.payload)
          BY <3>4
        <5>2. PICK m \in Nat : m = Len(s.bytes)
          BY <3>4
        <5>3. s.total = Size(s.artifacts) + m
          BY <3>5, <5>2
        <5>4. s.total + n = Size(s.artifacts) + (m + n)
          BY <3>2, <5>3
        <5> QED BY <5>1, <5>2, <5>4
      <4>2. Size(b) = Size(s.artifacts) + (Len(s.bytes) + Len(f.payload))
        BY <1>11, <3>2
      <4>3. t.total = Size(b)
        BY <2>1, <4>1, <4>2
      <4>4. \A z \in Int : z = z + 0
        OBVIOUS
      <4> QED BY <1>10, <3>4, <4>3, <4>4, <2>1
    <3>8. t.total <= MaxTotalBytes
      BY <1>2, <2>1
    <3>7. Cardinality(DOMAIN b) <= MaxArtifacts
      BY <1>2, <1>12, <3>2, <3>3, ProtocolAssumption
    <3> QED BY <2>1, <3>2, <3>4, <3>6, <3>7, <3>8 DEF Counted
  <2> QED BY <1>1, <1>6, <2>3, <2>4 DEF Live, Serving, Owed, ApplyArtifactBytes, Sessions
<1>13. CASE ~s.chunk.final
  <2>1. /\ t.artifacts = s.artifacts /\ t.path = s.path /\ t.seq = s.seq + 1
        /\ t.bytes = s.bytes \o f.payload
        /\ t.total = s.total + Len(f.payload)
    BY <1>13 DEF ApplyArtifactBytes, Sessions
  <2>2. Streamed(t, q)
    <3>1. ChunksOf(q, t.path) = Append(c, x)
      BY <1>5, <2>1 DEF ChunksOf
    <3>2. DOMAIN q = DOMAIN s.artifacts \cup {s.path} /\ s.seq + 1 # 0
      BY <1>5, <1>8, <1>10
    <3> QED BY <1>1, <1>4, <1>7, <1>9, <2>1, <3>1, <3>2 DEF Streamed
  <2>3. Counted(t)
    <3>1. Size(s.artifacts) \in Int
      BY <1>1, <1>10, SizeGrows DEF Counted, Streamed
    <3>2. Len(s.bytes) \in Nat /\ Len(f.payload) \in Nat
      BY <1>2, <1>10
    <3>3. s.total = Size(s.artifacts) + Len(s.bytes)
      BY <1>1 DEF Counted
    <3>4. t.total = Size(s.artifacts) + Len(t.bytes)
      <4>1. s.total + Len(f.payload) = Size(s.artifacts) + (Len(s.bytes) + Len(f.payload))
        <5>1. PICK n \in Nat : n = Len(f.payload)
          BY <3>2
        <5>2. PICK m \in Nat : m = Len(s.bytes)
          BY <3>2
        <5>3. s.total = Size(s.artifacts) + m
          BY <3>3, <5>2
        <5>4. s.total + n = Size(s.artifacts) + (m + n)
          BY <3>1, <5>3
        <5> QED BY <5>1, <5>2, <5>4
      <4> QED BY <1>11, <2>1, <4>1
    <3>5. t.total <= MaxTotalBytes
      BY <1>2, <2>1
    <3> QED BY <1>1, <2>1, <3>4, <3>5 DEF Counted
  <2> QED BY <1>1, <1>6, <2>2, <2>3 DEF Live, Serving, Owed, ApplyArtifactBytes, Sessions
<1> QED BY <1>12, <1>13

\* The emission e is what its history says was streamed.
Answers(e) ==
  /\ DOMAIN e.artifacts = DOMAIN e.run
  /\ \A p \in DOMAIN e.run : Numbered(e.run[p]) /\ e.artifacts[p] = Assembled(e.run[p])
  /\ Cardinality(DOMAIN e.artifacts) <= MaxArtifacts
  /\ Size(e.artifacts) <= MaxTotalBytes

\* Between two artifacts the session holds what was streamed.
LEMMA ManifestAnswers ==
  ASSUME NEW s \in Sessions, NEW r \in Runs, Streamed(s, r), Counted(s), s.path = NoPath
  PROVE  Answers([artifacts |-> s.artifacts, run |-> r])
<1>1. NoPath \notin DOMAIN r
  BY ProtocolAssumption DEF Runs
<1>2. ChunksOf(r, s.path) = << >>
  BY <1>1 DEF ChunksOf
<1>3. s.seq = 0 /\ s.bytes = << >>
  BY <1>2, NothingAssembled DEF Streamed
<1>4. DOMAIN s.artifacts = DOMAIN r
  BY <1>3 DEF Streamed
<1>5. Size(s.artifacts) <= MaxTotalBytes
  <2>1. s.artifacts \in Artifacts /\ s.path \notin DOMAIN s.artifacts
    BY DEF Sessions, Streamed
  <2>2. Size(s.artifacts) \in Int
    <3>1. \A p \in DOMAIN s.artifacts : Len(s.artifacts[p]) \in Int
      BY <2>1 DEF Artifacts
    <3> QED BY <3>1, SumInt DEF Size, Counted
  <2>3. s.total = Size(s.artifacts) + 0
    <3>1. Len(s.bytes) = 0
      BY <1>3
    <3> QED BY <3>1 DEF Counted
  <2> QED BY <2>2, <2>3 DEF Counted
<1> QED BY <1>4, <1>5 DEF Answers, Streamed, Counted

\* What a control frame makes of the session: it begins to serve no request, and
\* ends serving one ready for the next.
Controlled(s, r, t) ==
  /\ t.accepted = s.accepted
  /\ Serving(t) => Serving(s)
  /\ Serving(s) /\ ~Serving(t) => t.state = "Ready"
  /\ \/ t.completed = s.completed
     \/ /\ Answers([artifacts |-> s.artifacts, run |-> r])
        /\ \E id : t.completed = Append(s.completed, [requestId |-> id,
                                                     artifacts |-> s.artifacts])

\* A control frame keeps what was streamed for the request, or ends the request.
LEMMA ControlIsLive ==
  ASSUME NEW s \in Sessions, NEW r \in Runs, NEW d, NEW f, Formed(f),
         Live(s, r), s.pending = "none", s.state # "Failed",
         f.type \in ControlTypes, ControlAdmissible(s, d, f),
         NEW t \in Sessions, t = ApplyControl(s, d, f), t.state # "Failed"
  PROVE  Live(t, After(s, r, f, t)) /\ Controlled(s, r, t)
<1>1. Streamed(s, r) /\ Counted(s) /\ Owed(s) /\ (~Serving(s) => Idle(s, r))
  BY DEF Live
<1>2. s.state \in StatesOf(f.type)
  BY DEF ControlAdmissible
<1>3. After(s, r, f, t) = IF t.state = "Ready" THEN NoChunks ELSE r
  BY DEF After
<1>4. CASE f.type \in {"Hello", "Capabilities", "Goodbye", "Emit"}
  <2>1. /\ ~Serving(s) /\ ~Serving(t)
        /\ t.artifacts = s.artifacts /\ t.path = s.path /\ t.seq = s.seq
        /\ t.bytes = s.bytes /\ t.total = s.total
        /\ t.accepted = s.accepted /\ t.completed = s.completed
    <3>1. ~Serving(s)
      BY <1>2, <1>4 DEF StatesOf, Serving
    <3>2. CASE f.type = "Hello"
      BY <3>1, <3>2 DEF ApplyControl, Serving, Sessions
    <3>3. CASE f.type = "Capabilities"
      BY <3>1, <3>3 DEF ApplyControl, Serving, Sessions
    <3>4. CASE f.type = "Goodbye"
      BY <3>1, <3>4 DEF ApplyControl, Serving, Sessions
    <3>5. CASE f.type = "Emit"
      BY <3>1, <3>5 DEF ApplyControl, Serving, Sessions
    <3> QED BY <1>4, <3>2, <3>3, <3>4, <3>5
  <2>2. Idle(s, r) /\ After(s, r, f, t) = r
    BY <1>1, <1>3, <2>1 DEF Idle
  <2>3. Idle(t, r)
    BY <2>1, <2>2 DEF Idle
  <2>4. Owed(t)
    BY <1>2, <1>4 DEF Owed, ApplyControl, StatesOf, Sessions
  <2> QED BY <2>1, <2>2, <2>3, <2>4, IdleIsLive DEF Controlled
<1>5. CASE f.type = "ArtifactChunk"
  <2>1. /\ s.state = "Emitting" /\ t.state = "Emitting"
        /\ t.artifacts = s.artifacts /\ t.path = f.path /\ t.seq = s.seq
        /\ t.bytes = s.bytes /\ t.total = s.total /\ t.pending = "artifact"
        /\ t.chunk = [seq |-> f.seq, byteLen |-> f.byteLen, final |-> f.final]
        /\ t.accepted = s.accepted /\ t.completed = s.completed
    BY <1>2, <1>5 DEF ApplyControl, StatesOf, Sessions
  <2>2. After(s, r, f, t) = r
    BY <1>3, <2>1
  <2>3. /\ f.path \notin DOMAIN s.artifacts
        /\ IF s.path = NoPath THEN f.seq = 0 ELSE f.path = s.path /\ f.seq = s.seq
    BY <1>5 DEF ControlAdmissible, ChunkAdmissible
  <2>4. /\ f.path \in Paths /\ f.path # NoPath
        /\ [seq |-> f.seq, byteLen |-> f.byteLen, final |-> f.final] \in Headers
    BY <1>5, ProtocolAssumption DEF Formed
  <2>5. Streamed(t, r) /\ f.seq = s.seq
    <3>1. CASE s.path = NoPath
      <4>1. ChunksOf(r, s.path) = << >>
        BY <3>1, ProtocolAssumption DEF ChunksOf, Runs
      <4>2. s.seq = 0 /\ s.bytes = << >>
        BY <1>1, <4>1, NothingAssembled DEF Streamed
      <4>3. DOMAIN r = DOMAIN s.artifacts
        BY <1>1, <4>2 DEF Streamed
      <4>4. ChunksOf(r, f.path) = << >>
        BY <2>3, <4>3 DEF ChunksOf
      <4> QED BY <1>1, <2>1, <2>3, <3>1, <4>1, <4>2, <4>3, <4>4 DEF Streamed
    <3>2. CASE s.path # NoPath
      BY <1>1, <2>1, <2>3, <3>2 DEF Streamed
    <3> QED BY <3>1, <3>2
  <2>6. Counted(t)
    BY <1>1, <2>1 DEF Counted
  <2> QED BY <2>1, <2>2, <2>4, <2>5, <2>6 DEF Live, Owed, Serving, Controlled
<1>6. CASE f.type = "Cancel"
  <2>1. /\ s.state = "Emitting" /\ t.state = "Cancelling"
        /\ t.artifacts = s.artifacts /\ t.path = s.path /\ t.seq = s.seq
        /\ t.bytes = s.bytes /\ t.total = s.total /\ t.pending = "none"
        /\ t.accepted = s.accepted /\ t.completed = s.completed
    BY <1>2, <1>6 DEF ApplyControl, StatesOf, Sessions
  <2> QED BY <1>1, <1>3, <2>1 DEF Live, Streamed, Counted, Owed, Serving, Controlled
<1>7. CASE f.type \in {"Manifest", "Cancelled", "Error"}
  <2>1. /\ t.state = "Ready" /\ t.pending = "none"
        /\ t.artifacts = NoArtifacts /\ t.path = NoPath /\ t.seq = 0
        /\ t.bytes = << >> /\ t.total = 0
        /\ t.accepted = s.accepted
    <3>1. f.type = "Error" => s.state \in {"AwaitingCapabilities", "Emitting"}
      BY <1>2 DEF StatesOf
    <3>2. CASE f.type = "Manifest"
      BY <3>2, ZenonT(40) DEF ApplyControl, ResetRequest, Sessions
    <3>3. CASE f.type = "Cancelled"
      BY <3>3 DEF ApplyControl, ResetRequest, Sessions
    <3>4. CASE f.type = "Error" /\ s.state = "Emitting"
      BY <3>4, ZenonT(40) DEF ApplyControl, ResetRequest, Sessions
    <3>5. CASE f.type = "Error" /\ s.state = "AwaitingCapabilities"
      BY <3>5 DEF ApplyControl, Sessions
    <3> QED BY <1>7, <3>1, <3>2, <3>3, <3>4, <3>5
  <2>2. Live(t, After(s, r, f, t))
    <3>1. Idle(t, NoChunks) /\ Owed(t)
      BY <2>1 DEF Idle, Owed
    <3> QED BY <1>3, <2>1, <3>1, IdleIsLive
  <2>3. CASE f.type = "Manifest"
    <3>1. s.path = NoPath
      BY <2>3 DEF ControlAdmissible, ManifestAdmissible
    <3>2. t.completed = Append(s.completed, [requestId |-> s.request,
                                             artifacts |-> s.artifacts])
      BY <2>3 DEF ApplyControl, ResetRequest, Sessions
    <3>3. Answers([artifacts |-> s.artifacts, run |-> r])
      BY <1>1, <3>1, ManifestAnswers
    <3> QED BY <2>1, <2>2, <3>2, <3>3 DEF Serving, Controlled
  <2>4. CASE f.type # "Manifest"
    <3>1. t.completed = s.completed
      <4>1. CASE f.type = "Cancelled"
        BY <4>1 DEF ApplyControl, ResetRequest, Sessions
      <4>2. CASE f.type = "Error" /\ s.state = "Emitting"
        BY <4>2 DEF ApplyControl, ResetRequest, Sessions
      <4>3. CASE f.type = "Error" /\ s.state = "AwaitingCapabilities"
        BY <4>3 DEF ApplyControl, Sessions
      <4> QED BY <1>2, <1>7, <2>4, <4>1, <4>2, <4>3 DEF StatesOf
    <3> QED BY <2>1, <2>2, <3>1 DEF Serving, Controlled
  <2> QED BY <2>3, <2>4
<1> QED BY <1>4, <1>5, <1>6, <1>7 DEF ControlTypes

\* What consuming a frame makes of the counts and of the completed emissions.
Accounted(s, r, t) ==
  /\ t.state # "Failed" =>
       /\ s.state # "Failed"
       /\ IF Serving(s) THEN t.accepted = s.accepted /\ (~Serving(t) => t.state = "Ready")
                        ELSE Serving(t) <=> Len(t.accepted) > Len(s.accepted)
  /\ Len(t.completed) > Len(s.completed) =>
       Answers([artifacts |-> Last(t.completed).artifacts, run |-> r])

\* A frame keeps the session live and accounts for what it changes.
LEMMA ConsumeKeeps ==
  ASSUME NEW s \in Sessions, NEW r \in Runs, NEW d \in {Core, Backend}, NEW f, Formed(f),
         Live(s, r), NEW t, t = Consume(s, d, f)
  PROVE  /\ t \in Sessions /\ After(s, r, f, t) \in Runs
         /\ Live(t, After(s, r, f, t))
         /\ Accounted(s, r, t)
<1>1. /\ Len(s.accepted) \in Nat /\ Len(s.completed) \in Nat
      /\ s.accepted \in Seq(Requests) /\ s.completed \in Seq(Completions)
  <2>1. s.accepted \in Seq(Requests) /\ s.completed \in Seq(Completions)
    BY DEF Sessions
  <2> QED BY <2>1
<1>2. CASE s.state = "Failed"
  <2>1. t = s /\ t.state = "Failed"
    BY <1>2 DEF Consume
  <2>2. After(s, r, f, t) = NoChunks /\ NoChunks \in Runs
    BY <2>1, MapsOnPaths DEF After, NoChunks, Runs
  <2> QED BY <1>1, <2>1, <2>2 DEF Live, Accounted
<1>3. CASE s.state # "Failed"
  <2>1. Step(s, d, f, t)
    BY <1>3, ConsumeIsAStep
  <2>2. t \in Sessions /\ After(s, r, f, t) \in Runs
    BY <1>3, <2>1, StepIsTyped, StepKeepsRun DEF Live
  <2>3. /\ Streamed(s, r) /\ Counted(s) /\ Owed(s)
        /\ ~Serving(s) => Idle(s, r)
    BY <1>3 DEF Live
  <2>4. CASE t = Fail(s)
    <3>1. t.state = "Failed" /\ t.completed = s.completed
      BY <2>4 DEF Fail, Sessions
    <3> QED BY <1>1, <2>2, <3>1 DEF Live, Accounted
  <2>5. CASE \/ s.pending = "none" /\ t = s
             \/ s.pending = "none" /\ t = [s EXCEPT !.pending = "skipped", !.pendingDir = d]
             \/ s.pending = "skipped" /\ t = [s EXCEPT !.pending = "none"]
    <3>1. /\ t.state = s.state /\ t.pending \in {"none", "skipped"}
          /\ t.artifacts = s.artifacts /\ t.path = s.path /\ t.seq = s.seq
          /\ t.bytes = s.bytes /\ t.total = s.total
          /\ t.accepted = s.accepted /\ t.completed = s.completed
          /\ s.pending # "artifact"
      BY <2>5 DEF Sessions
    <3>2. After(s, r, f, t) = r
      BY <1>3, <2>3, <3>1 DEF After, Serving, Idle
    <3>3. Live(t, r)
      BY <2>3, <3>1 DEF Live, Streamed, Counted, Idle, Owed, Serving
    <3> QED BY <1>1, <1>3, <2>2, <3>1, <3>2, <3>3 DEF Accounted, Serving
  <2>6. CASE /\ s.pending = "projection"
             /\ t = [s EXCEPT !.pending = "none", !.state = "Emitting",
                              !.accepted = Append(@, s.request)]
    <3>1. /\ s.state = "Ready" /\ t.state = "Emitting" /\ t.pending = "none"
          /\ t.artifacts = s.artifacts /\ t.path = s.path /\ t.seq = s.seq
          /\ t.bytes = s.bytes /\ t.total = s.total
          /\ t.accepted = Append(s.accepted, s.request) /\ t.completed = s.completed
      BY <2>3, <2>6 DEF Sessions, Owed
    <3>2. After(s, r, f, t) = r
      BY <2>6, <3>1 DEF After
    <3>3. Live(t, r)
      BY <2>3, <3>1 DEF Live, Streamed, Counted, Idle, Owed, Serving
    <3>4. Len(t.accepted) = Len(s.accepted) + 1
      BY <1>1, <3>1
    <3> QED BY <1>1, <1>3, <2>2, <3>1, <3>2, <3>3, <3>4 DEF Accounted, Serving
  <2>7. CASE s.pending = "artifact" /\ RawAdmissible(s, f) /\ t = ApplyArtifactBytes(s, f)
    <3>1. /\ Live(t, After(s, r, f, t))
          /\ t.state = s.state
          /\ t.accepted = s.accepted /\ t.completed = s.completed
      BY <1>3, <2>2, <2>7, BytesAreStreamed
    <3> QED BY <1>1, <1>3, <2>2, <3>1 DEF Accounted, Serving
  <2>8. CASE /\ s.pending = "none" /\ f.type \in ControlTypes /\ ControlAdmissible(s, d, f)
             /\ t = ApplyControl(s, d, f)
    <3>1. CASE t.state = "Failed"
      <4>1. s.state \in StatesOf(f.type)
        BY <2>8 DEF ControlAdmissible
      <4>2. f.type = "Error" /\ s.state = "AwaitingCapabilities"
        BY <2>8, <3>1, <4>1, <1>3
           DEF ApplyControl, ResetRequest, StatesOf, ControlTypes, Sessions
      <4>3. t.completed = s.completed
        BY <2>8, <4>2 DEF ApplyControl, Sessions
      <4> QED BY <1>1, <2>2, <3>1, <4>3 DEF Live, Accounted
    <3>2. CASE t.state # "Failed"
      <4>1. Live(t, After(s, r, f, t)) /\ Controlled(s, r, t)
        BY <1>3, <2>2, <2>8, <3>2, ControlIsLive
      <4>2. Len(t.completed) > Len(s.completed) =>
              Answers([artifacts |-> Last(t.completed).artifacts, run |-> r])
        <5>1. CASE t.completed = s.completed
          BY <1>1, <5>1
        <5>2. ASSUME NEW id, t.completed = Append(s.completed, [requestId |-> id,
                                                                artifacts |-> s.artifacts])
              PROVE  Last(t.completed).artifacts = s.artifacts
          BY <1>1, <5>2 DEF Last
        <5> QED BY <4>1, <5>1, <5>2 DEF Controlled
      <4> QED BY <1>1, <1>3, <2>2, <4>1, <4>2 DEF Accounted, Controlled
    <3> QED BY <3>1, <3>2
  <2> QED BY <2>1, <2>4, <2>5, <2>6, <2>7, <2>8 DEF Step
<1> QED BY <1>2, <1>3

-----------------------------------------------------------------------------
(* Every step of the module                                                *)

\* Taking a result from a session changes nothing its requests depend on.
LEMMA TakingIsLive ==
  ASSUME NEW s \in Sessions, NEW r, Live(s, r), NEW t,
         \/ s.completed # << >> /\ t = [s EXCEPT !.completed = Tail(@)]
         \/ s.accepted # << >> /\ t = [s EXCEPT !.accepted = Tail(@)]
         \/ s.errors # << >> /\ t = [s EXCEPT !.errors = Tail(@)]
  PROVE  t \in Sessions /\ t.state = s.state /\ Live(t, r)
<1>1. /\ s.completed # << >> => Tail(s.completed) \in Seq(Completions)
      /\ s.accepted # << >> => Tail(s.accepted) \in Seq(Requests)
      /\ s.errors # << >> => Tail(s.errors) \in Seq(Requests)
  <2>1. /\ s.completed \in Seq(Completions)
        /\ s.accepted \in Seq(Requests) /\ s.errors \in Seq(Requests)
    BY DEF Sessions
  <2> QED BY <2>1
<1>2. t \in Sessions
  BY <1>1, ZenonT(40) DEF Sessions
<1>3. /\ t.state = s.state /\ t.pending = s.pending /\ t.chunk = s.chunk
      /\ t.artifacts = s.artifacts /\ t.path = s.path /\ t.seq = s.seq
      /\ t.bytes = s.bytes /\ t.total = s.total
  BY DEF Sessions
<1>4. Live(t, r)
  BY <1>3 DEF Live, Streamed, Counted, Idle, Owed, Serving
<1> QED BY <1>2, <1>3, <1>4

\* No emission answers nothing.
LEMMA NothingEmitted == Answers(NoEmission)
<1>1. DOMAIN NoArtifacts = {} /\ DOMAIN NoChunks = {} /\ Cardinality({}) = 0
  BY FS_EmptySet DEF NoArtifacts, NoChunks
<1> QED BY <1>1, SizeOfNone, ProtocolAssumption DEF Answers, NoEmission

\* A new session satisfies the invariant.
LEMMA InitialSession == Init => IInv
<1> SUFFICES ASSUME Init PROVE IInv
  OBVIOUS
<1>1. /\ NewSession \in Sessions /\ NewSession.state = "Init"
      /\ Idle(NewSession, NoChunks) /\ Owed(NewSession)
  <2>1. << >> \in Artifacts /\ NoRequest \in Requests /\ Core \in {Core, Backend}
    BY MapsOnPaths DEF Artifacts, Requests
  <2> QED BY <2>1 DEF NewSession, Sessions, States, Idle, Owed, NoArtifacts
<1>2. Live(NewSession, NoChunks)
  BY <1>1, IdleIsLive
<1>3. NoChunks \in Runs
  BY MapsOnPaths DEF NoChunks, Runs
<1>4. Answers(last)
  BY NothingEmitted DEF Init
<1>5. EmissionIsWhatWasStreamed
  BY <1>4 DEF EmissionIsWhatWasStreamed, Answers, Numbered, Size
<1> QED BY <1>1, <1>2, <1>3, <1>5 DEF Init, IInv, TypeOK, AnsweredOnce, Serving

\* Every step keeps the invariant.
LEMMA StepKeepsInvariant == IInv /\ [Next]_vars => IInv'
<1> SUFFICES ASSUME IInv, [Next]_vars PROVE IInv'
  OBVIOUS
<1>1. /\ session \in Sessions /\ run \in Runs /\ begun \in Nat /\ ended \in Nat
      /\ Live(session, run) /\ AnsweredOnce /\ Answers(last)
  BY DEF IInv, TypeOK, EmissionIsWhatWasStreamed, Answers, Numbered, Size
<1>2. SUFFICES (TypeOK /\ Live(session, run) /\ AnsweredOnce /\ Answers(last))'
  BY DEF IInv, EmissionIsWhatWasStreamed, Answers, Numbered, Size
<1>3. ASSUME NEW d \in {Core, Backend}, NEW f \in Frames, ConsumeFrame(d, f)
      PROVE  (TypeOK /\ Live(session, run) /\ AnsweredOnce /\ Answers(last))'
  <2> DEFINE t == Consume(session, d, f)
  <2>1. Formed(f)
    BY FramesAreFormed
  <2>2. /\ session' = t
        /\ run' = After(session, run, f, t)
        /\ last' = IF Len(t.completed) > Len(session.completed)
                   THEN [artifacts |-> Last(t.completed).artifacts, run |-> run]
                   ELSE NoEmission
        /\ begun' = IF Len(t.accepted) > Len(session.accepted) THEN begun + 1 ELSE begun
        /\ ended' = IF Serving(session) /\ t.state = "Ready" THEN ended + 1 ELSE ended
    BY <1>3 DEF ConsumeFrame, After
  <2>3. /\ t \in Sessions /\ After(session, run, f, t) \in Runs
        /\ Live(t, After(session, run, f, t))
        /\ Accounted(session, run, t)
    BY <1>1, <2>1, ConsumeKeeps
  <2> HIDE DEF t
  <2>4. Answers(last')
    BY <2>2, <2>3, NothingEmitted DEF Accounted
  <2>5. Len(session.accepted) \in Nat
    <3>1. session.accepted \in Seq(Requests)
      BY <1>1 DEF Sessions
    <3> QED BY <3>1
  <2>6. t.state # "Failed" => begun' = ended' + (IF Serving(t) THEN 1 ELSE 0)
    <3> SUFFICES ASSUME t.state # "Failed"
                 PROVE  begun' = ended' + (IF Serving(t) THEN 1 ELSE 0)
      OBVIOUS
    <3>1. session.state # "Failed"
      BY <2>3 DEF Accounted
    <3>2. CASE Serving(session)
      <4>1. begun = ended + 1
        BY <1>1, <3>1, <3>2 DEF AnsweredOnce
      <4>2. begun' = begun
        BY <2>2, <2>3, <2>5, <3>2 DEF Accounted
      <4>3. CASE Serving(t)
        BY <1>1, <2>2, <3>2, <4>1, <4>2, <4>3 DEF Serving
      <4>4. CASE ~Serving(t)
        BY <1>1, <2>2, <2>3, <3>2, <4>1, <4>2, <4>4 DEF Accounted
      <4> QED BY <4>3, <4>4
    <3>3. CASE ~Serving(session)
      <4>1. begun = ended + 0 /\ ended' = ended
        BY <1>1, <2>2, <3>1, <3>3 DEF AnsweredOnce
      <4>2. Serving(t) <=> Len(t.accepted) > Len(session.accepted)
        BY <2>3, <3>3 DEF Accounted
      <4> QED BY <1>1, <2>2, <4>1, <4>2
    <3> QED BY <3>2, <3>3
  <2>7. AnsweredOnce'
    BY <2>2, <2>6 DEF AnsweredOnce
  <2> QED BY <1>1, <2>2, <2>3, <2>4, <2>7 DEF TypeOK
<1>4. CASE Finish
  <2>1. session' = session \/ session' = Fail(session)
    BY <1>4 DEF Finish, FinishStream
  <2>2. CASE session' = session
    BY <1>1, <1>4, <2>2 DEF Finish, TypeOK, AnsweredOnce
  <2>3. CASE session' = Fail(session)
    <3>1. Fail(session) \in Sessions /\ Fail(session).state = "Failed"
      BY <1>1 DEF Fail, Sessions, States
    <3> QED BY <1>1, <1>4, <2>3, <3>1 DEF Finish, TypeOK, AnsweredOnce, Live
  <2> QED BY <2>1, <2>2, <2>3
<1>5. CASE TakeCompletedEmission \/ TakeAcceptedEmit \/ TakePeerError
  <2>1. UNCHANGED <<run, last, begun, ended>>
    BY <1>5 DEF TakeCompletedEmission, TakeAcceptedEmit, TakePeerError
  <2>2. /\ session' \in Sessions /\ session'.state = session.state
        /\ Live(session', run)
    BY <1>1, <1>5, TakingIsLive DEF TakeCompletedEmission, TakeAcceptedEmit, TakePeerError
  <2> QED BY <1>1, <2>1, <2>2 DEF TypeOK, AnsweredOnce, Serving
<1>6. CASE UNCHANGED vars
  BY <1>1, <1>6 DEF vars, TypeOK, AnsweredOnce
<1> QED BY <1>3, <1>4, <1>5, <1>6 DEF Next

\* Whatever frames arrive, in any order and from either side, and whenever the
\* caller takes its results: a completed emission is exactly what its peer
\* streamed since the Emit it answers, within the limits, and every accepted
\* request has one answer (BackendProtocol.cpp 660-1045).
THEOREM RequestsAreAnswered == Spec => []EmissionAnswersItsRequest
<1>1. Init => IInv
  BY InitialSession
<1>2. IInv /\ [Next]_vars => IInv'
  BY StepKeepsInvariant
<1>3. IInv => EmissionAnswersItsRequest
  BY DEF IInv, EmissionAnswersItsRequest
<1> QED BY <1>1, <1>2, <1>3, PTL DEF Spec
=============================================================================
