---------------------------- MODULE BackendSession ----------------------------
(***************************************************************************)
(* One Session fed any frames in any order and from either direction: the  *)
(* automaton against a peer that keeps to no protocol at all.  The caller  *)
(* takes results at any time.  `run`, `last`, `begun` and `ended` are      *)
(* history: the chunks streamed for the current request, path by path,     *)
(* what the last completed emission was made of, how many requests were    *)
(* accepted and how many answered.                                         *)
(***************************************************************************)
EXTENDS BackendProtocol

CONSTANTS
  MaxRequests,     \* bound: requests accepted
  MaxSeq           \* bound: largest sequence number offered

\* A payload is a sequence of bytes.
Bytes == UNION {ToSet(p) : p \in Payloads}
ASSUME SessionAssumption == Payloads \subseteq Seq(Bytes)

NoChunks == << >>
NoEmission == [artifacts |-> NoArtifacts, run |-> NoChunks]

VARIABLES session, run, last, begun, ended

vars == <<session, run, last, begun, ended>>

Contents == {c \in {FlattenSeq(p) : p \in [1 .. MaxSeq + 1 -> Payloads]} :
               Len(c) <= MaxTotalBytes}
Manifests == UNION {[P -> Contents] : P \in SUBSET Paths}
Lengths == {Len(p) : p \in Payloads}

PlainFrames ==
  {Control(t) : t \in {"Hello", "Capabilities", "Goodbye"}}
    \cup {[Control(t) EXCEPT !.ok = FALSE] : t \in {"Hello", "Capabilities", "Goodbye"}}
RequestFrames(id) == {EmitFrame(id), CancelFrame(id), CancelledFrame(id), ErrorFrame(id)}
ChunkFrames ==
  {ChunkFrame(id, p, n, fin, len) :
     id \in RequestIds, p \in Paths, n \in 0 .. MaxSeq, fin \in BOOLEAN, len \in Lengths}
ManifestFrames == {ManifestFrame(id, m) : id \in RequestIds, m \in Manifests}
RawFrames == {ProjectionFrame(good) : good \in BOOLEAN} \cup {BytesFrame(p) : p \in Payloads}
UnknownFrames == {UnknownFrame(must, raw) : must \in BOOLEAN, raw \in BOOLEAN}

Frames == PlainFrames \cup (UNION {RequestFrames(id) : id \in RequestIds \cup {NoRequest}})
            \cup ChunkFrames \cup ManifestFrames \cup RawFrames \cup UnknownFrames
            \cup {InvalidFrame}

Init == /\ session = NewSession
        /\ run = NoChunks
        /\ last = NoEmission
        /\ begun = 0 /\ ended = 0

\* The request being served in s: accepted, and neither completed, cancelled
\* nor refused yet.
Serving(s) == s.state \in {"Emitting", "Cancelling"}

\* The chunks streamed for path p so far, and with one more.
ChunksOf(r, p) == IF p \in DOMAIN r THEN r[p] ELSE << >>
Received(r, p, chunk) == With(r, p, Append(ChunksOf(r, p), chunk))

ConsumeFrame(d, f) ==
  LET s == session
      t == Consume(s, d, f)
  IN  /\ f.type = "Emit" => begun < MaxRequests
      /\ session' = t
      /\ run' = IF s.pending = "artifact" /\ t.state # "Failed"
                THEN Received(run, s.path, [seq |-> s.chunk.seq, payload |-> f.payload])
                ELSE IF t.state \in {"Ready", "Failed"} THEN NoChunks ELSE run
      /\ last' = IF Len(t.completed) > Len(s.completed)
                 THEN [artifacts |-> Last(t.completed).artifacts, run |-> run]
                 ELSE NoEmission
      /\ begun' = IF Len(t.accepted) > Len(s.accepted) THEN begun + 1 ELSE begun
      /\ ended' = IF Serving(s) /\ t.state = "Ready" THEN ended + 1 ELSE ended

Finish == /\ session' = FinishStream(session)
          /\ UNCHANGED <<run, last, begun, ended>>

TakeCompletedEmission ==
  /\ session.completed # << >>
  /\ session' = [session EXCEPT !.completed = Tail(@)]
  /\ UNCHANGED <<run, last, begun, ended>>

TakeAcceptedEmit ==
  /\ session.accepted # << >>
  /\ session' = [session EXCEPT !.accepted = Tail(@)]
  /\ UNCHANGED <<run, last, begun, ended>>

TakePeerError ==
  /\ session.errors # << >>
  /\ session' = [session EXCEPT !.errors = Tail(@)]
  /\ UNCHANGED <<run, last, begun, ended>>

Next == \/ \E d \in {Core, Backend}, f \in Frames : ConsumeFrame(d, f)
        \/ Finish
        \/ TakeCompletedEmission
        \/ TakeAcceptedEmit
        \/ TakePeerError

Spec == Init /\ [][Next]_vars

-----------------------------------------------------------------------------
\* The bytes of the chunks, in order of arrival.
Assembled(chunks) == FlattenSeq([i \in DOMAIN chunks |-> chunks[i].payload])

\* A completed emission is exactly what its peer streamed since the Emit it
\* answers: every path that received bytes, each with all its chunks, numbered
\* from zero without a gap, nothing of an earlier request, within the output
\* limits, whatever frames were interleaved, skipped or cancelled before
\* (BackendProtocol.cpp 747-771, 850-923, 1036-1045).
EmissionIsWhatWasStreamed ==
  /\ DOMAIN last.artifacts = DOMAIN last.run
  /\ \A p \in DOMAIN last.run :
       /\ \A i \in DOMAIN last.run[p] : last.run[p][i].seq = i - 1
       /\ last.artifacts[p] = Assembled(last.run[p])
  /\ Cardinality(DOMAIN last.artifacts) <= MaxArtifacts
  /\ SumFunctionOnSet([p \in DOMAIN last.artifacts |-> Len(last.artifacts[p])],
                      DOMAIN last.artifacts) <= MaxTotalBytes

\* Every accepted request is answered at most once, and the session serves one
\* request at a time: completed, cancelled or refused, before the next begins
\* (BackendProtocol.cpp 824-849, 920, 949, 973).
AnsweredOnce ==
  session.state # "Failed" =>
    begun = ended + (IF Serving(session) THEN 1 ELSE 0)

\* A request gets one answer, and a completed one is what its peer streamed.
EmissionAnswersItsRequest == EmissionIsWhatWasStreamed /\ AnsweredOnce

=============================================================================
