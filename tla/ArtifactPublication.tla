------------------------- MODULE ArtifactPublication -------------------------
(***************************************************************************)
(* Publication of artifacts into a shared output directory: publishImpl of *)
(* lib/spec-contract/ArtifactPublication.cpp as the runs of neutrino-gen   *)
(* use it.  A run that dispatches to an external backend publishes the     *)
(* dispatch receipt, then the backend's artifacts, then manifest.json; one *)
(* for a core target publishes its artifacts and manifest.json.  Several   *)
(* runs, and a foreign process that replaces files, work in one directory  *)
(* at the same time.                                                       *)
(*                                                                         *)
(* A path is a sequence of names; a file is a name that leads to an inode. *)
(* What survives a power loss is kept apart from what is visible: `synced` *)
(* holds the names whose directory entry was flushed, an inode's `flushed` *)
(* says whether its bytes were.                                            *)
(***************************************************************************)
EXTENDS Integers, Sequences, FiniteSets, SequencesExt, Functions

CONSTANTS
  Runs,
  Dispatches,       \* the runs that dispatch to an external backend
  Receipt,          \* [Runs -> bytes]: the dispatch receipt of each run
  Artifacts,        \* [Runs -> Seq([path, bytes])]: the backend's artifacts
  Spellings,        \* how a run may spell the output root
  Foreign,          \* bytes only the foreign process writes
  MaxForeign        \* bound: files the foreign process replaces

ReceiptPath == <<"backend-dispatch-receipt.json">>
Reserved == {ReceiptPath, <<"manifest.json">>, <<"diagnostics.json">>}
Root == << >>
NoBytes == "none"
Directory == 0

\* Bytes are compared only; a file whose bytes were written, were they none,
\* is told from one that was only created.
ASSUME PublicationAssumption ==
  /\ Dispatches \subseteq Runs
  /\ Receipt \in [Runs -> STRING \ {NoBytes}]
  /\ Artifacts \in [Runs -> Seq([path : Seq(STRING) \ {Root}, bytes : STRING \ {NoBytes}])]
  /\ Foreign \in STRING
  /\ MaxForeign \in Nat

VARIABLES
  tree,             \* the names below the root: Directory or an inode number
  inodes,           \* their files: [bytes, flushed]
  synced,
  run,              \* the state of each run
  manifest,         \* the last manifest.json: [ok, by]
  verified,         \* history: <<run, path>> reopened and compared
  overtaken         \* history: <<run, path>> replaced by others after that

vars == <<tree, inodes, synced, run, manifest, verified, overtaken>>

\* Mutant of Batches: the backend's artifacts become visible first.
BatchesUnaudited(r) ==
  IF r \in Dispatches
  THEN <<Artifacts[r], <<[path |-> ReceiptPath, bytes |-> Receipt[r]]>>>>
  ELSE <<Artifacts[r]>>

\* What a run publishes, one call of publishImpl after the other.
Batches(r) ==
  IF r \in Dispatches
  THEN <<<<[path |-> ReceiptPath, bytes |-> Receipt[r]]>>, Artifacts[r]>>
  ELSE <<Artifacts[r]>>

Batch(r) == Batches(r)[run[r].batch]
Current(r) == Batch(r)[run[r].i]

\* conflictsWithCoreBundleMetadata, before the receipt is published.
ReservedPath(r) ==
  r \in Dispatches /\ \E i \in DOMAIN Artifacts[r] : \E p \in Reserved :
                         IsPrefix(p, Artifacts[r][i].path)
DuplicatePath(r) ==
  \E i, j \in DOMAIN Batch(r) : i # j /\ Batch(r)[i].path = Batch(r)[j].path

IsFile(p) == p \in DOMAIN tree /\ tree[p] # Directory
IsDir(p) == p = Root \/ (p \in DOMAIN tree /\ tree[p] = Directory)

Idle == [pc |-> "start", batch |-> 1, i |-> 1, depth |-> 1, spelled |-> "plain",
         owned |-> << >>]     \* owned: the inodes of the current batch

Init ==
  /\ tree = << >> /\ inodes = << >> /\ synced = {}
  /\ run \in [Runs -> {[Idle EXCEPT !.spelled = s] : s \in Spellings}]
  /\ manifest = [ok |-> FALSE, by |-> "nobody"]
  /\ verified = {} /\ overtaken = {}

Files == <<tree, inodes, synced>>
Rest == <<manifest, verified, overtaken>>

Becomes(r, s) == run' = [run EXCEPT ![r] = s]

\* Every failure: visible paths are retained, the manifest says not ok.
Fails(r) ==
  /\ Becomes(r, [run[r] EXCEPT !.pc = "failed"])
  /\ manifest' = [ok |-> FALSE, by |-> r]
  /\ UNCHANGED <<Files, verified, overtaken>>

-----------------------------------------------------------------------------
(* publishImpl                                                             *)

At(r, pc) == run[r].pc = pc

\* Metadata is validated before anything is opened; then the root, whose last
\* component may not be a link.
OpenOutputRoot(r) ==
  /\ At(r, "start")
  /\ IF ReservedPath(r) \/ DuplicatePath(r) \/ run[r].spelled = "link" THEN Fails(r)
     ELSE /\ Becomes(r, [run[r] EXCEPT !.pc = IF Batch(r) = << >> THEN "root" ELSE "walk",
                                       !.i = 1, !.depth = 1, !.owned = << >>])
          /\ UNCHANGED <<Files, Rest>>

\* The tree with a new name p, for n.
Linked(p, n) == [q \in DOMAIN tree \cup {p} |-> IF q = p THEN n ELSE tree[q]]

\* One component of walkDirectories: mkdirat, where EEXIST is no error, and
\* openat, which accepts only a directory.
WalkDirectories(r) ==
  LET path == Current(r).path
      d == SubSeq(path, 1, run[r].depth)
  IN  /\ At(r, "walk")
      /\ IF run[r].depth = Len(path)
         THEN Becomes(r, [run[r] EXCEPT !.pc = "create"]) /\ UNCHANGED <<Files, Rest>>
         ELSE IF IsFile(d) THEN Fails(r)
         ELSE /\ tree' = IF IsDir(d) THEN tree ELSE Linked(d, Directory)
              /\ Becomes(r, [run[r] EXCEPT !.depth = @ + 1])
              /\ UNCHANGED <<inodes, synced, Rest>>

\* Mutant of CreateArtifact: O_CREAT without O_EXCL.
CreateOrOpen(r) ==
  LET path == Current(r).path IN
  /\ At(r, "create")
  /\ IF IsDir(path) THEN Fails(r)
     ELSE /\ tree' = IF IsFile(path) THEN tree ELSE Linked(path, Len(inodes) + 1)
          /\ inodes' = IF IsFile(path) THEN inodes
                       ELSE Append(inodes, [bytes |-> NoBytes, flushed |-> FALSE])
          /\ Becomes(r, [run[r] EXCEPT !.pc = "write", !.owned = Append(@, tree'[path])])
          /\ UNCHANGED <<synced, Rest>>

\* openat with O_CREAT | O_EXCL: the name becomes visible, empty.
CreateArtifact(r) ==
  LET path == Current(r).path IN
  /\ At(r, "create")
  /\ IF path \in DOMAIN tree THEN Fails(r)
     ELSE /\ tree' = Linked(path, Len(inodes) + 1)
          /\ inodes' = Append(inodes, [bytes |-> NoBytes, flushed |-> FALSE])
          /\ Becomes(r, [run[r] EXCEPT !.pc = "write", !.owned = Append(@, Len(inodes) + 1)])
          /\ UNCHANGED <<synced, Rest>>

Owned(r) == run[r].owned[run[r].i]

\* writeAll and fchmod.
WriteArtifact(r) ==
  /\ At(r, "write")
  /\ inodes' = [inodes EXCEPT ![Owned(r)] = [bytes |-> Current(r).bytes, flushed |-> FALSE]]
  /\ Becomes(r, [run[r] EXCEPT !.pc = "sync"])
  /\ UNCHANGED <<tree, synced, Rest>>

\* fsync of the file, and its bytes read back through the same descriptor.
SyncArtifact(r) ==
  /\ At(r, "sync")
  /\ inodes' = [inodes EXCEPT ![Owned(r)].flushed = TRUE]
  /\ Becomes(r, [run[r] EXCEPT !.pc = "parent"])
  /\ UNCHANGED <<tree, synced, Rest>>

\* fsync of a directory: its entries, not those of its subdirectories.
Entries(d) == {p \in DOMAIN tree : Front(p) = d}

\* Mutant of SyncParent: the directory of the artifact is not flushed.
SkipParent(r) ==
  /\ At(r, "parent")
  /\ Becomes(r, IF run[r].i < Len(Batch(r))
                THEN [run[r] EXCEPT !.pc = "walk", !.i = @ + 1, !.depth = 1]
                ELSE [run[r] EXCEPT !.pc = "reopen", !.i = 1])
  /\ UNCHANGED <<Files, Rest>>

SyncParent(r) ==
  /\ At(r, "parent")
  /\ synced' = synced \cup Entries(Front(Current(r).path))
  /\ Becomes(r, IF run[r].i < Len(Batch(r))
                THEN [run[r] EXCEPT !.pc = "walk", !.i = @ + 1, !.depth = 1]
                ELSE [run[r] EXCEPT !.pc = "reopen", !.i = 1])
  /\ UNCHANGED <<tree, inodes, Rest>>

\* Mutant of Unchanged: the bytes are read through the retained descriptor.
UnchangedInode(r) == inodes[Owned(r)].bytes = Current(r).bytes

\* The name still leads to the inode that was created, and to its bytes.
Unchanged(r) ==
  /\ tree[Current(r).path] = Owned(r)
  /\ inodes[Owned(r)].bytes = Current(r).bytes

\* The second pass: each name is resolved again and compared.
ReopenArtifact(r) ==
  /\ At(r, "reopen")
  /\ IF ~Unchanged(r) THEN Fails(r)
     ELSE /\ verified' = verified \cup {<<r, Current(r).path>>}
          /\ Becomes(r, IF run[r].i < Len(Batch(r)) THEN [run[r] EXCEPT !.i = @ + 1]
                                                    ELSE [run[r] EXCEPT !.pc = "root"])
          /\ UNCHANGED <<Files, manifest, overtaken>>

\* fsync of the root; the next batch, or success and the manifest.
SyncRoot(r) ==
  /\ At(r, "root")
  /\ synced' = synced \cup Entries(Root)
  /\ IF run[r].batch < Len(Batches(r))
     THEN /\ Becomes(r, [run[r] EXCEPT !.pc = "start", !.batch = @ + 1])
          /\ UNCHANGED manifest
     ELSE /\ Becomes(r, [run[r] EXCEPT !.pc = "done"])
          /\ manifest' = [ok |-> TRUE, by |-> r]
  /\ UNCHANGED <<tree, inodes, verified, overtaken>>

\* A system call fails, at any point.
SystemFailure(r) == run[r].pc \notin {"done", "failed"} /\ Fails(r)

Publish(r) ==
  \/ OpenOutputRoot(r) \/ WalkDirectories(r) \/ CreateArtifact(r)
  \/ WriteArtifact(r) \/ SyncArtifact(r) \/ SyncParent(r)
  \/ ReopenArtifact(r) \/ SyncRoot(r)

\* Another process renames a file away and puts its own in its place.
ForeignReplace(p) ==
  /\ IsFile(p)
  /\ Cardinality({n \in DOMAIN inodes : inodes[n].bytes = Foreign}) < MaxForeign
  /\ inodes' = Append(inodes, [bytes |-> Foreign, flushed |-> FALSE])
  /\ tree' = [tree EXCEPT ![p] = Len(inodes) + 1]
  /\ synced' = synced \ {p}
  /\ overtaken' = overtaken \cup {v \in verified : v[2] = p}
  /\ UNCHANGED <<run, manifest, verified>>

Next == \/ \E r \in Runs : Publish(r) \/ SystemFailure(r)
        \/ \E p \in DOMAIN tree : ForeignReplace(p)

Spec == Init /\ [][Next]_vars

-----------------------------------------------------------------------------
Published(r) == UNION {ToSet(Batches(r)[b]) : b \in DOMAIN Batches(r)}
Visible(a) == IsFile(a.path) /\ inodes[tree[a.path]].bytes = a.bytes
\* What a power loss leaves: every name on the way flushed, and the bytes.
Durable(a) == /\ Visible(a) /\ inodes[tree[a.path]].flushed
              /\ \A n \in DOMAIN a.path : SubSeq(a.path, 1, n) \in synced

\* No artifact lies deeper than one directory below the root: the paths for
\* which the root and the directory of the artifact are all there is to flush.
Shallow == \A r \in Runs : \A a \in Published(r) : Len(a.path) <= 2

\* Nobody else's files look like a dispatching run's artifacts: no foreign
\* process writes their bytes, and no other run puts the same bytes at the same
\* path.  Only then does a visible file tell whose it is.
OwnOutputs ==
  \A r \in Dispatches : \A a \in ToSet(Artifacts[r]) :
    /\ a.bytes # Foreign
    /\ \A q \in Runs \ {r} : \A b \in Published(q) : b.path = a.path => b.bytes # a.bytes

\* A run reports success only if its receipt and all its artifacts are there
\* with its bytes, whatever other runs and other processes did meanwhile; only
\* what is replaced after the second pass can still be lost
\* (ArtifactPublication.cpp 267-327).
SuccessIsVisible ==
  \A r \in Runs : run[r].pc = "done" =>
    \A a \in Published(r) : Visible(a) \/ <<r, a.path>> \in overtaken

\* What success promised survives a power loss (ArtifactPublication.cpp 294,
\* 300, 328).
SuccessIsDurable ==
  \A r \in Runs : run[r].pc = "done" =>
    \A a \in Published(r) : Durable(a) \/ <<r, a.path>> \in overtaken

\* No backend output without its audit record: if a file of a run is visible,
\* so is that run's receipt, complete and flushed, unless someone replaced it
\* (neutrino-gen.cpp 505-513).
NoUnauditedOutput ==
  \A r \in Dispatches : \A a \in ToSet(Artifacts[r]) :
    Visible(a) =>
      LET receipt == [path |-> ReceiptPath, bytes |-> Receipt[r]]
      IN  Durable(receipt) \/ <<r, ReceiptPath>> \in overtaken

\* Publication never deletes a name and never writes to a file that has its
\* bytes, its own or anybody's: on failure everything visible stays
\* (ArtifactPublication.h, the contract of publish).
NothingIsReplaced ==
  [][/\ DOMAIN tree \subseteq DOMAIN tree'
     /\ \A n \in DOMAIN inodes :
          inodes[n].bytes # NoBytes => inodes'[n].bytes = inodes[n].bytes]_vars
=============================================================================
