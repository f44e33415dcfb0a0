-------------------------- MODULE PublicationProofs --------------------------
(***************************************************************************)
(* Proofs about ArtifactPublication, for any number of runs, any artifacts *)
(* and any foreign process: nothing visible is replaced, success is        *)
(* visible and survives a power loss, and a dispatching run leaves nothing *)
(* without its audit record.                                               *)
(***************************************************************************)
EXTENDS ArtifactPublication, TLAPS

Art == [path : Seq(STRING) \ {Root}, bytes : STRING \ {NoBytes}]

\* What run r may publish: its receipt and artifacts.
Items(r) == Art \cup {[path |-> ReceiptPath, bytes |-> Receipt[r]]}

\* A run has one or two batches of items.
LEMMA BatchesTyped ==
  ASSUME NEW r \in Runs
  PROVE  Batches(r) \in Seq(Seq(Items(r))) /\ Len(Batches(r)) \in {1, 2}
<1> DEFINE receipt == [path |-> ReceiptPath, bytes |-> Receipt[r]]
           I == Items(r)
<1>1. receipt \in I
  BY DEF Items
<1>2. Artifacts[r] \in Seq(I)
  <2>1. Artifacts[r] \in Seq(Art)
    BY PublicationAssumption DEF Art
  <2> HIDE DEF Art
  <2> QED BY <2>1 DEF Items
<1> HIDE DEF I, receipt
<1>3. /\ <<receipt>> \in Seq(I)
      /\ <<<<receipt>>, Artifacts[r]>> \in Seq(Seq(I))
      /\ <<Artifacts[r]>> \in Seq(Seq(I))
  BY <1>1, <1>2
<1>4. Batches(r) = IF r \in Dispatches THEN <<<<receipt>>, Artifacts[r]>> ELSE <<Artifacts[r]>>
  BY DEF Batches, receipt
<1> QED BY <1>3, <1>4 DEF I

-----------------------------------------------------------------------------
(* Where a run stands                                                      *)

InBatch == {"walk", "create", "write", "sync", "parent", "reopen"}
Pcs == InBatch \cup {"start", "root", "done", "failed"}
RunStates == [pc : Pcs, batch : Nat, i : Nat, depth : Nat, spelled : Spellings,
              owned : Seq(Nat)]
InodeStates == [bytes : STRING \cup {NoBytes}, flushed : BOOLEAN]

\* A run in a batch is at one of its artifacts and owns an inode for each one
\* it has created.
Position(r, s) ==
  /\ s.batch \in 1 .. Len(Batches(r))
  /\ s.pc \in InBatch => s.i \in 1 .. Len(Batches(r)[s.batch])
  /\ s.pc \in {"walk", "create"} => Len(s.owned) = s.i - 1
  /\ s.pc \in {"write", "sync", "parent"} => Len(s.owned) = s.i

RunsOK == /\ run \in [Runs -> RunStates]
          /\ \A r \in Runs : Position(r, run[r])

\* A step of run r moves r alone, to a position.
Moves(r) == /\ run' \in [Runs -> RunStates]
            /\ Position(r, run'[r])
            /\ \A q \in Runs \ {r} : run'[q] = run[q]

\* A run that becomes s moves alone, to s.
LEMMA MovesTo ==
  ASSUME RunsOK, NEW r \in Runs, NEW s \in RunStates, Position(r, s), Becomes(r, s)
  PROVE  Moves(r) /\ run'[r] = s
BY DEF RunsOK, Becomes, Moves

\* What a step of r does to where r stands, from s to t.
Progress(r, s, t) ==
  LET items == Batches(r)[s.batch] IN
  /\ t.batch = IF t.pc = "start" THEN s.batch + 1 ELSE s.batch
  /\ \/ t.pc = "failed"
     \/ /\ s.pc = "start"
        /\ t.pc = IF items = << >> THEN "root" ELSE "walk"
        /\ t.i = 1 /\ t.owned = << >>
        /\ ~ReservedPath(r) /\ ~DuplicatePath(r)
     \/ /\ <<s.pc, t.pc>> \in {<<"walk", "walk">>, <<"walk", "create">>, <<"write", "sync">>,
                               <<"sync", "parent">>}
        /\ t.i = s.i /\ t.owned = s.owned
     \/ /\ s.pc = "create" /\ t.pc = "write"
        /\ t.i = s.i /\ t.owned = Append(s.owned, Len(inodes) + 1)
        /\ tree' = Linked(items[s.i].path, Len(inodes) + 1)
        /\ inodes' = Append(inodes, [bytes |-> NoBytes, flushed |-> FALSE])
     \/ /\ s.pc = "parent"
        /\ IF s.i < Len(items) THEN t.pc = "walk" /\ t.i = s.i + 1
                               ELSE t.pc = "reopen" /\ t.i = 1
        /\ t.owned = s.owned
     \/ /\ s.pc = "reopen" /\ Unchanged(r)
        /\ verified' = verified \cup {<<r, items[s.i].path>>}
        /\ IF s.i < Len(items) THEN t.pc = "reopen" /\ t.i = s.i + 1 ELSE t.pc = "root"
        /\ t.owned = s.owned
     \/ /\ s.pc = "root"
        /\ t.pc = IF s.batch < Len(Batches(r)) THEN "start" ELSE "done"

\* Every step of a run is one of these.
LEMMA StepProgress ==
  ASSUME run \in [Runs -> RunStates], inodes \in Seq(InodeStates),
         NEW r \in Runs, Publish(r) \/ SystemFailure(r)
  PROVE  \E s, t \in RunStates : /\ s = run[r] /\ Progress(r, s, t)
                                 /\ run' = [run EXCEPT ![r] = t]
<1>1. PICK s \in RunStates : s = run[r]
  OBVIOUS
<1> DEFINE items == Batches(r)[s.batch]
           Goal == \E t \in RunStates : Progress(r, s, t) /\ Becomes(r, t)
<1>2. s.i \in Nat /\ s.batch \in Nat /\ s.owned \in Seq(Nat) /\ items = Batch(r)
  BY <1>1 DEF RunStates, Batch
<1>3. ASSUME NEW t \in RunStates, Becomes(r, t), Progress(r, s, t) PROVE Goal
  BY <1>3
<1> SUFFICES Goal
  BY <1>1 DEF Becomes
<1> HIDE DEF Goal
<1>4. ASSUME Fails(r) PROVE Goal
  <2> DEFINE t == [s EXCEPT !.pc = "failed"]
  <2>1. t \in RunStates /\ t.pc = "failed" /\ t.batch = s.batch
    BY DEF RunStates, Pcs
  <2>2. Becomes(r, t)
    BY <1>1, <1>4 DEF Fails
  <2> HIDE DEF t
  <2>3. Progress(r, s, t)
    BY <2>1 DEF Progress
  <2> QED BY <1>3, <2>1, <2>2, <2>3
<1>5. CASE OpenOutputRoot(r) /\ ~Fails(r)
  <2> DEFINE pc == IF items = << >> THEN "root" ELSE "walk"
             t == [s EXCEPT !.pc = pc, !.i = 1, !.depth = 1, !.owned = << >>]
  <2>1. /\ s.pc = "start" /\ Becomes(r, t)
        /\ ~ReservedPath(r) /\ ~DuplicatePath(r)
    BY <1>1, <1>2, <1>5 DEF OpenOutputRoot, At
  <2>2. << >> \in Seq(Nat) /\ pc \in {"root", "walk"}
    OBVIOUS
  <2>3. t \in RunStates /\ t.pc = pc /\ t.batch = s.batch /\ t.i = 1 /\ t.owned = << >>
    <3> HIDE DEF pc
    <3> QED BY <2>2 DEF RunStates, Pcs, InBatch
  <2> HIDE DEF t
  <2>4. Progress(r, s, t)
    BY <2>1, <2>2, <2>3 DEF Progress
  <2> QED BY <1>3, <2>1, <2>3, <2>4
<1>6. CASE WalkDirectories(r) /\ ~Fails(r)
  <2> DEFINE t == [s EXCEPT !.pc = "create"]
             d == s.depth + 1
             u == [s EXCEPT !.depth = d]
  <2>1. s.pc = "walk" /\ (Becomes(r, t) \/ Becomes(r, u))
    BY <1>1, <1>6 DEF WalkDirectories, At
  <2>2. d \in Nat
    BY DEF RunStates
  <2>3. /\ t \in RunStates /\ t.pc = "create" /\ t.batch = s.batch
        /\ t.i = s.i /\ t.owned = s.owned
        /\ u \in RunStates /\ u.pc = "walk" /\ u.batch = s.batch
        /\ u.i = s.i /\ u.owned = s.owned
    <3> HIDE DEF d
    <3> QED BY <2>1, <2>2 DEF RunStates, Pcs, InBatch
  <2> HIDE DEF t, u
  <2>4. Progress(r, s, t) /\ Progress(r, s, u)
    BY <2>1, <2>3 DEF Progress
  <2> QED BY <1>3, <2>1, <2>3, <2>4
<1>7. CASE CreateArtifact(r) /\ ~Fails(r)
  <2> DEFINE o == Append(s.owned, Len(inodes) + 1)
             t == [s EXCEPT !.pc = "write", !.owned = o]
  <2>1. /\ s.pc = "create" /\ Becomes(r, t)
        /\ tree' = Linked(items[s.i].path, Len(inodes) + 1)
        /\ inodes' = Append(inodes, [bytes |-> NoBytes, flushed |-> FALSE])
    BY <1>1, <1>7 DEF CreateArtifact, At, Current, Batch
  <2>2. o \in Seq(Nat)
    BY <1>2
  <2>3. t \in RunStates /\ t.pc = "write" /\ t.batch = s.batch /\ t.i = s.i /\ t.owned = o
    <3> HIDE DEF o
    <3> QED BY <2>2 DEF RunStates, Pcs, InBatch
  <2> HIDE DEF t
  <2>4. Progress(r, s, t)
    BY <2>1, <2>3 DEF Progress
  <2> QED BY <1>3, <2>1, <2>3, <2>4
<1>8. CASE WriteArtifact(r) \/ SyncArtifact(r)
  <2> DEFINE t == [s EXCEPT !.pc = "sync"]
             u == [s EXCEPT !.pc = "parent"]
  <2>1. (s.pc = "write" /\ Becomes(r, t)) \/ (s.pc = "sync" /\ Becomes(r, u))
    BY <1>1, <1>8 DEF WriteArtifact, SyncArtifact, At
  <2>2. /\ t \in RunStates /\ t.pc = "sync" /\ t.batch = s.batch
        /\ t.i = s.i /\ t.owned = s.owned
        /\ u \in RunStates /\ u.pc = "parent" /\ u.batch = s.batch
        /\ u.i = s.i /\ u.owned = s.owned
    BY DEF RunStates, Pcs, InBatch
  <2> HIDE DEF t, u
  <2>3. (s.pc = "write" => Progress(r, s, t)) /\ (s.pc = "sync" => Progress(r, s, u))
    BY <2>2 DEF Progress
  <2> QED BY <1>3, <2>1, <2>2, <2>3
<1>9. CASE SyncParent(r)
  <2> DEFINE n == s.i + 1
             t == [s EXCEPT !.pc = "walk", !.i = n, !.depth = 1]
             u == [s EXCEPT !.pc = "reopen", !.i = 1]
  <2>1. s.pc = "parent" /\ Becomes(r, IF s.i < Len(items) THEN t ELSE u)
    BY <1>1, <1>2, <1>9 DEF SyncParent, At
  <2>2. /\ t \in RunStates /\ t.pc = "walk" /\ t.batch = s.batch
        /\ t.i = n /\ t.owned = s.owned
        /\ u \in RunStates /\ u.pc = "reopen" /\ u.batch = s.batch /\ u.i = 1
        /\ u.owned = s.owned
    <3>1. n \in Nat
      BY <1>2
    <3> HIDE DEF n
    <3> QED BY <3>1 DEF RunStates, Pcs, InBatch
  <2> HIDE DEF t, u
  <2>3. IF s.i < Len(items) THEN Progress(r, s, t) ELSE Progress(r, s, u)
    BY <2>1, <2>2 DEF Progress
  <2> QED BY <1>3, <2>1, <2>2, <2>3
<1>10. CASE ReopenArtifact(r) /\ ~Fails(r)
  <2> DEFINE n == s.i + 1
             t == [s EXCEPT !.i = n]
             u == [s EXCEPT !.pc = "root"]
  <2>1. /\ s.pc = "reopen" /\ Unchanged(r)
        /\ verified' = verified \cup {<<r, items[s.i].path>>}
        /\ Becomes(r, IF s.i < Len(items) THEN t ELSE u)
    BY <1>1, <1>2, <1>10 DEF ReopenArtifact, At, Current
  <2>2. /\ t \in RunStates /\ t.pc = "reopen" /\ t.batch = s.batch /\ t.i = n
        /\ t.owned = s.owned
        /\ u \in RunStates /\ u.pc = "root" /\ u.batch = s.batch /\ u.owned = s.owned
    <3>1. n \in Nat
      BY <1>2
    <3> HIDE DEF n
    <3> QED BY <2>1, <3>1 DEF RunStates, Pcs, InBatch
  <2> HIDE DEF t, u
  <2>3. IF s.i < Len(items) THEN Progress(r, s, t) ELSE Progress(r, s, u)
    BY <2>1, <2>2 DEF Progress
  <2> QED BY <1>3, <2>1, <2>2, <2>3
<1>11. CASE SyncRoot(r)
  <2> DEFINE n == s.batch + 1
             t == [s EXCEPT !.pc = "start", !.batch = n]
             u == [s EXCEPT !.pc = "done"]
  <2>1. s.pc = "root" /\ Becomes(r, IF s.batch < Len(Batches(r)) THEN t ELSE u)
    BY <1>1, <1>11 DEF SyncRoot, At
  <2>2. /\ t \in RunStates /\ t.pc = "start" /\ t.batch = n
        /\ u \in RunStates /\ u.pc = "done" /\ u.batch = s.batch
    <3>1. n \in Nat
      BY <1>2
    <3> HIDE DEF n
    <3> QED BY <3>1 DEF RunStates, Pcs, InBatch
  <2> HIDE DEF t, u
  <2>3. IF s.batch < Len(Batches(r)) THEN Progress(r, s, t) ELSE Progress(r, s, u)
    BY <2>1, <2>2 DEF Progress
  <2> QED BY <1>3, <2>1, <2>2, <2>3
<1> QED BY <1>4, <1>5, <1>6, <1>7, <1>8, <1>9, <1>10, <1>11 DEF Publish, SystemFailure

\* Every step of a run moves that run, and only to a position.
LEMMA PublishMoves ==
  ASSUME RunsOK, inodes \in Seq(InodeStates), NEW r \in Runs, Publish(r) \/ SystemFailure(r)
  PROVE  Moves(r)
<1>1. PICK s, t \in RunStates : /\ s = run[r] /\ Progress(r, s, t)
                                /\ run' = [run EXCEPT ![r] = t]
  BY StepProgress DEF RunsOK
<1>2. Position(r, s)
  BY <1>1 DEF RunsOK
<1>3. /\ s.batch \in Nat /\ s.i \in Nat /\ t.i \in Nat /\ s.owned \in Seq(Nat)
      /\ Len(Batches(r)) \in Nat
      /\ s.batch \in 1 .. Len(Batches(r))
      /\ Batches(r)[s.batch] \in Seq(Items(r))
      /\ Len(Batches(r)[s.batch]) \in Nat
      /\ Batches(r)[s.batch] # << >> => Len(Batches(r)[s.batch]) > 0
  BY <1>2, BatchesTyped DEF RunStates, Position
<1>4. Position(r, t)
  <2>1. t.batch \in 1 .. Len(Batches(r))
    BY <1>1, <1>3, SMTT(40) DEF Progress
  <2>2. t.pc \in InBatch => t.i \in 1 .. Len(Batches(r)[t.batch])
    BY <1>1, <1>2, <1>3, SMTT(40) DEF Progress, Position, InBatch
  <2>3. ASSUME t.pc \in {"walk", "create"} PROVE Len(t.owned) = t.i - 1
    <3>1. CASE s.pc = "start"
      <4>1. t.i = 1 /\ t.owned = << >>
        BY <1>1, <2>3, <3>1 DEF Progress
      <4> QED BY <4>1
    <3>2. CASE s.pc # "start"
      BY <1>1, <1>2, <1>3, <2>3, <3>2, SMTT(40) DEF Progress, Position
    <3> QED BY <3>1, <3>2
  <2>4. t.pc \in {"write", "sync", "parent"} => Len(t.owned) = t.i
    BY <1>1, <1>2, <1>3, SMTT(40) DEF Progress, Position
  <2> QED BY <2>1, <2>2, <2>3, <2>4 DEF Position
<1> QED BY <1>1, <1>4, MovesTo DEF Becomes

\* Every step keeps every run at a position.
LEMMA RunsStayOK ==
  ASSUME RunsOK, inodes \in Seq(InodeStates), [Next]_vars
  PROVE  RunsOK'
<1>1. CASE run' = run
  BY <1>1 DEF RunsOK
<1>2. ASSUME NEW r \in Runs, Moves(r) PROVE RunsOK'
  <2>1. \A q \in Runs : Position(q, run'[q])
    BY <1>2 DEF Moves, RunsOK
  <2> QED BY <1>2, <2>1 DEF Moves, RunsOK
<1> QED BY <1>1, <1>2, PublishMoves DEF Next, ForeignReplace, vars

-----------------------------------------------------------------------------
(* The files                                                               *)

\* A run about to write owns an inode nobody has written to, for itself.
FilesOK ==
  /\ inodes \in Seq(InodeStates)
  /\ \A r \in Runs : At(r, "write") =>
       /\ Owned(r) \in DOMAIN inodes
       /\ inodes[Owned(r)].bytes = NoBytes
  /\ \A q, r \in Runs : At(q, "write") /\ At(r, "write") /\ q # r => Owned(q) # Owned(r)

\* Names and written bytes stay.
FilesStay ==
  /\ DOMAIN tree \subseteq DOMAIN tree'
  /\ DOMAIN inodes \subseteq DOMAIN inodes'
  /\ \A n \in DOMAIN inodes :
       inodes[n].bytes # NoBytes => inodes'[n].bytes = inodes[n].bytes

\* A step of r that touches no file and does not take r to a write.
LEMMA NoFileTouched ==
  ASSUME RunsOK, FilesOK, NEW r \in Runs, Moves(r), run'[r].pc # "write",
         UNCHANGED inodes, DOMAIN tree \subseteq DOMAIN tree'
  PROVE  FilesOK' /\ FilesStay
<1>1. \A q \in Runs : At(q, "write")' => q # r /\ At(q, "write") /\ Owned(q)' = Owned(q)
  BY DEF Moves, At, Owned
<1> QED BY <1>1 DEF FilesOK, FilesStay

\* A new name leaves the others where they lead.
LEMMA LinkedKeeps ==
  ASSUME NEW x, NEW y
  PROVE  /\ DOMAIN Linked(x, y) = DOMAIN tree \cup {x}
         /\ Linked(x, y)[x] = y
         /\ \A z \in DOMAIN tree : z # x => Linked(x, y)[z] = tree[z]
BY DEF Linked

\* The inode of a new file is its creator's alone.
LEMMA CreateKeepsFiles ==
  ASSUME RunsOK, FilesOK, NEW r \in Runs, CreateArtifact(r)
  PROVE  FilesOK' /\ FilesStay
<1> DEFINE n == Len(inodes) + 1
           s == run[r]
<1>1. Moves(r) /\ At(r, "create")
  BY PublishMoves DEF Publish, FilesOK, CreateArtifact
<1>2. CASE Fails(r)
  <2>1. run'[r].pc = "failed"
    BY <1>2 DEF Fails, Becomes, RunsOK, RunStates
  <2> QED BY <1>1, <1>2, <2>1, NoFileTouched DEF Fails, Files
<1>3. CASE ~Fails(r)
  <2>1. /\ tree' = Linked(Current(r).path, n)
        /\ inodes' = Append(inodes, [bytes |-> NoBytes, flushed |-> FALSE])
        /\ Becomes(r, [s EXCEPT !.pc = "write", !.owned = Append(@, n)])
    BY <1>3 DEF CreateArtifact
  <2>2. s \in RunStates /\ Position(r, s) /\ s.pc = "create"
    BY <1>1 DEF RunsOK, At
  <2>3. n \in Nat /\ inodes \in Seq(InodeStates)
    BY DEF FilesOK
  <2>4. /\ inodes' \in Seq(InodeStates)
        /\ DOMAIN inodes = 1 .. n - 1
        /\ DOMAIN inodes' = 1 .. n
        /\ inodes'[n].bytes = NoBytes
        /\ \A m \in DOMAIN inodes : inodes'[m] = inodes[m]
    BY <2>1, <2>3 DEF InodeStates
  <2>5. Owned(r)' = n
    <3>1. PICK u \in RunStates : u = s /\ Position(r, u) /\ u.pc = "create"
      BY <2>2
    <3>2. u.owned \in Seq(Nat) /\ u.i \in Nat /\ Len(u.owned) = u.i - 1
      BY <3>1 DEF RunStates, Position
    <3>3. Append(u.owned, n)[u.i] = n
      BY <2>3, <3>2
    <3>4. run'[r] = [u EXCEPT !.pc = "write", !.owned = Append(@, n)]
      BY <2>1, <3>1 DEF Becomes, RunsOK
    <3>5. run'[r].owned = Append(u.owned, n) /\ run'[r].i = u.i
      <4> HIDE DEF n
      <4> QED BY <3>4 DEF RunStates
    <3> QED BY <3>3, <3>5 DEF Owned
  <2>6. \A q \in Runs \ {r} : /\ At(q, "write")' <=> At(q, "write")
                              /\ Owned(q)' = Owned(q)
    BY <1>1 DEF Moves, At, Owned
  <2>7. \A q \in Runs \ {r} : At(q, "write") =>
           /\ Owned(q) \in DOMAIN inodes /\ Owned(q) # n
           /\ inodes[Owned(q)].bytes = NoBytes
    BY <2>3, <2>4 DEF FilesOK
  <2>8. FilesOK'
    BY <2>3, <2>4, <2>5, <2>6, <2>7 DEF FilesOK
  <2>9. FilesStay
    <3>1. DOMAIN tree \subseteq DOMAIN tree'
      BY <2>1, LinkedKeeps
    <3>2. DOMAIN inodes \subseteq DOMAIN inodes'
      BY <2>3, <2>4
    <3> QED BY <2>4, <3>1, <3>2 DEF FilesStay
  <2> QED BY <2>8, <2>9
<1> QED BY <1>2, <1>3

\* A write reaches the writer's inode, which had no bytes.
LEMMA WriteKeepsFiles ==
  ASSUME RunsOK, FilesOK, NEW r \in Runs, WriteArtifact(r)
  PROVE  FilesOK' /\ FilesStay
<1> DEFINE m == Owned(r)
<1>1. Moves(r) /\ At(r, "write")
  BY PublishMoves DEF Publish, FilesOK, WriteArtifact
<1>2. PICK b \in STRING \cup {NoBytes} :
        inodes' = [inodes EXCEPT ![m] = [bytes |-> b, flushed |-> FALSE]]
  <2>1. Current(r) \in Items(r)
    <3>1. /\ Batches(r) \in Seq(Seq(Items(r)))
          /\ run[r].batch \in 1 .. Len(Batches(r))
          /\ run[r].i \in 1 .. Len(Batches(r)[run[r].batch])
      BY <1>1, BatchesTyped DEF RunsOK, Position, InBatch, At
    <3> QED BY <3>1 DEF Current, Batch
  <2>2. Current(r).bytes \in STRING
    BY <2>1, PublicationAssumption DEF Items, Art
  <2> QED BY <2>2 DEF WriteArtifact
<1>3. /\ m \in DOMAIN inodes
      /\ inodes[m].bytes = NoBytes
      /\ inodes \in Seq(InodeStates)
  BY <1>1 DEF FilesOK
<1>4. /\ inodes' \in Seq(InodeStates)
      /\ DOMAIN inodes' = DOMAIN inodes
      /\ \A n \in DOMAIN inodes : n # m => inodes'[n] = inodes[n]
  <2>1. [bytes |-> b, flushed |-> FALSE] \in InodeStates
    BY DEF InodeStates
  <2> HIDE DEF m
  <2> QED BY <1>2, <1>3, <2>1
<1>5. ~At(r, "write")'
  <2>1. Becomes(r, [run[r] EXCEPT !.pc = "sync"])
    BY DEF WriteArtifact
  <2> QED BY <2>1 DEF Becomes, At, RunsOK, RunStates
<1>6. \A q \in Runs \ {r} : /\ At(q, "write")' <=> At(q, "write")
                            /\ Owned(q)' = Owned(q)
                            /\ At(q, "write") => Owned(q) # m
  BY <1>1 DEF Moves, At, Owned, FilesOK
<1>7. FilesOK'
  BY <1>4, <1>5, <1>6 DEF FilesOK
<1>8. FilesStay
  BY <1>3, <1>4 DEF FilesStay, WriteArtifact
<1> QED BY <1>7, <1>8

\* Flushing and reading back change no bytes.
LEMMA SyncKeepsFiles ==
  ASSUME RunsOK, FilesOK, NEW r \in Runs, SyncArtifact(r)
  PROVE  FilesOK' /\ FilesStay
<1>1. Moves(r) /\ At(r, "sync")
  BY PublishMoves DEF Publish, FilesOK, SyncArtifact
<1>2. ~At(r, "write")'
  <2>1. Becomes(r, [run[r] EXCEPT !.pc = "parent"])
    BY DEF SyncArtifact
  <2> QED BY <2>1 DEF Becomes, At, RunsOK, RunStates
<1>3. /\ inodes' \in Seq(InodeStates)
      /\ DOMAIN inodes' = DOMAIN inodes
      /\ \A n \in DOMAIN inodes : inodes'[n].bytes = inodes[n].bytes
  <2> DEFINE m == Owned(r)
             e == [inodes[m] EXCEPT !.flushed = TRUE]
  <2>1. inodes' = [inodes EXCEPT ![m] = e]
    BY DEF SyncArtifact
  <2>2. inodes \in Seq(InodeStates)
    BY DEF FilesOK
  <2>3. m \in DOMAIN inodes => e \in InodeStates /\ e.bytes = inodes[m].bytes
    <3>1. m \in DOMAIN inodes => inodes[m] \in InodeStates
      BY <2>2
    <3> HIDE DEF m
    <3> QED BY <3>1 DEF InodeStates
  <2> HIDE DEF m, e
  <2>4. CASE m \in DOMAIN inodes
    <3>1. e \in InodeStates /\ e.bytes = inodes[m].bytes
      BY <2>3, <2>4
    <3>2. /\ inodes' \in Seq(InodeStates)
          /\ DOMAIN inodes' = DOMAIN inodes
          /\ inodes'[m] = e
          /\ \A n \in DOMAIN inodes : n # m => inodes'[n] = inodes[n]
      BY <2>1, <2>2, <2>4, <3>1
    <3>3. \A n \in DOMAIN inodes : inodes'[n].bytes = inodes[n].bytes
      BY <3>1, <3>2
    <3> QED BY <3>2, <3>3
  <2>5. CASE m \notin DOMAIN inodes
    <3>1. inodes' = inodes
      BY <2>1, <2>2, <2>5
    <3> QED BY <2>2, <3>1
  <2> QED BY <2>4, <2>5
<1>4. \A q \in Runs \ {r} : /\ At(q, "write")' <=> At(q, "write")
                            /\ Owned(q)' = Owned(q)
  BY <1>1 DEF Moves, At, Owned
<1>5. FilesOK'
  BY <1>2, <1>3, <1>4 DEF FilesOK
<1>6. FilesStay
  BY <1>3 DEF FilesStay, SyncArtifact
<1> QED BY <1>5, <1>6

\* The other steps of a run add a directory at most.
LEMMA QuietKeepsFiles ==
  ASSUME RunsOK, FilesOK, NEW r \in Runs,
         \/ OpenOutputRoot(r) \/ WalkDirectories(r) \/ SyncParent(r)
         \/ ReopenArtifact(r) \/ SyncRoot(r) \/ SystemFailure(r)
  PROVE  FilesOK' /\ FilesStay
<1>1. Moves(r)
  BY PublishMoves DEF Publish, FilesOK
<1>2. PICK s \in RunStates : s = run[r]
  BY DEF RunsOK
<1>3. UNCHANGED inodes /\ DOMAIN tree \subseteq DOMAIN tree'
  <2>1. CASE WalkDirectories(r)
    <3> DEFINE d == SubSeq(Current(r).path, 1, run[r].depth)
    <3>1. UNCHANGED inodes /\ (UNCHANGED tree \/ tree' = Linked(d, Directory))
      BY <2>1 DEF WalkDirectories, Fails, Files
    <3> HIDE DEF d
    <3>2. DOMAIN Linked(d, Directory) = DOMAIN tree \cup {d}
      BY LinkedKeeps
    <3> QED BY <3>1, <3>2
  <2>2. CASE ~WalkDirectories(r)
    BY <2>2 DEF OpenOutputRoot, SyncParent, ReopenArtifact, SyncRoot, SystemFailure, Fails, Files
  <2> QED BY <2>1, <2>2
<1>4. run'[r].pc # "write"
  <2>1. ASSUME NEW t, Becomes(r, t) PROVE run'[r] = t
    BY <2>1 DEF Becomes, RunsOK
  <2>2. CASE Fails(r)
    BY <1>2, <2>1, <2>2 DEF Fails, RunStates
  <2>3. CASE OpenOutputRoot(r)
    BY <1>2, <2>1, <2>2, <2>3 DEF OpenOutputRoot, RunStates
  <2>4. CASE WalkDirectories(r)
    BY <1>2, <2>1, <2>2, <2>4 DEF WalkDirectories, RunStates, At
  <2>5. CASE SyncParent(r)
    BY <1>2, <2>1, <2>5 DEF SyncParent, RunStates
  <2>6. CASE ReopenArtifact(r)
    BY <1>2, <2>1, <2>2, <2>6 DEF ReopenArtifact, RunStates, At
  <2>7. CASE SyncRoot(r)
    BY <1>2, <2>1, <2>7 DEF SyncRoot, RunStates
  <2> QED BY <2>2, <2>3, <2>4, <2>5, <2>6, <2>7 DEF SystemFailure
<1> QED BY <1>1, <1>3, <1>4, NoFileTouched

\* The foreign process brings its own inode.
LEMMA ForeignKeepsFiles ==
  ASSUME RunsOK, FilesOK, NEW p, ForeignReplace(p)
  PROVE  FilesOK' /\ FilesStay
<1>1. [bytes |-> Foreign, flushed |-> FALSE] \in InodeStates
  BY PublicationAssumption DEF InodeStates
<1>2. inodes \in Seq(InodeStates)
  BY DEF FilesOK
<1>3. /\ inodes' \in Seq(InodeStates)
      /\ DOMAIN inodes \subseteq DOMAIN inodes'
      /\ \A n \in DOMAIN inodes : inodes'[n] = inodes[n]
  BY <1>1, <1>2 DEF ForeignReplace
<1>4. \A q \in Runs : (At(q, "write")' <=> At(q, "write")) /\ Owned(q)' = Owned(q)
  BY DEF ForeignReplace, At, Owned
<1>5. FilesOK'
  BY <1>3, <1>4 DEF FilesOK
<1>6. DOMAIN tree' = DOMAIN tree
  BY DEF ForeignReplace
<1> QED BY <1>3, <1>5, <1>6 DEF FilesStay

-----------------------------------------------------------------------------
Inv == RunsOK /\ FilesOK

\* The initial states satisfy the invariant.
LEMMA InitEstablishes == Init => Inv
<1> SUFFICES ASSUME Init PROVE Inv
  OBVIOUS
<1>1. inodes \in Seq(InodeStates)
  BY DEF Init
<1>2. ASSUME NEW r \in Runs PROVE run[r] \in RunStates /\ run[r].pc = "start" /\ run[r].batch = 1
  <2>1. << >> \in Seq(Nat)
    OBVIOUS
  <2>2. PICK sp \in Spellings : run[r] = [Idle EXCEPT !.spelled = sp]
    BY DEF Init
  <2>3. Idle \in [pc : {"start"}, batch : {1}, i : Nat, depth : Nat, spelled : {Idle.spelled},
                  owned : Seq(Nat)]
    BY <2>1 DEF Idle
  <2> QED BY <2>2, <2>3 DEF RunStates, Pcs, InBatch
<1>3. ASSUME NEW r \in Runs PROVE Position(r, run[r])
  <2>1. Len(Batches(r)) \in {1, 2}
    BY BatchesTyped
  <2>2. run[r].pc = "start" /\ run[r].batch = 1
    BY <1>2
  <2>3. ASSUME NEW s, s.pc = "start", s.batch = 1 PROVE Position(r, s)
    BY <2>1, <2>3, SMTT(40) DEF Position, InBatch
  <2> QED BY <2>2, <2>3
<1>4. RunsOK
  <2>1. run = [r \in Runs |-> run[r]]
    BY DEF Init
  <2> QED BY <1>2, <1>3, <2>1 DEF RunsOK
<1> QED BY <1>1, <1>2, <1>4 DEF Inv, FilesOK, At

\* Every step keeps the invariant, and no inode loses or changes its bytes.
LEMMA NextPreserves == Inv /\ [Next]_vars => Inv' /\ FilesStay
<1> SUFFICES ASSUME Inv, [Next]_vars PROVE Inv' /\ FilesStay
  OBVIOUS
<1>1. RunsOK'
  BY RunsStayOK DEF Inv, FilesOK
<1>2. CASE UNCHANGED vars
  <2>1. UNCHANGED <<tree, inodes, run>>
    BY <1>2 DEF vars
  <2>2. \A r \in Runs : (At(r, "write")' <=> At(r, "write")) /\ Owned(r)' = Owned(r)
    BY <2>1 DEF At, Owned
  <2>3. FilesOK'
    BY <2>1, <2>2 DEF Inv, FilesOK
  <2> QED BY <1>1, <2>1, <2>3 DEF Inv, FilesStay
<1>3. ASSUME NEW r \in Runs, Publish(r) \/ SystemFailure(r) PROVE FilesOK' /\ FilesStay
  BY <1>3, CreateKeepsFiles, WriteKeepsFiles, SyncKeepsFiles, QuietKeepsFiles DEF Inv, Publish
<1>4. ASSUME NEW p, ForeignReplace(p) PROVE FilesOK' /\ FilesStay
  BY <1>4, ForeignKeepsFiles DEF Inv
<1>5. FilesOK' /\ FilesStay
  BY <1>2, <1>3, <1>4 DEF Next, Inv
<1> QED BY <1>1, <1>5 DEF Inv

\* The invariant holds in every behaviour.
LEMMA InvInvariant == Spec => []Inv
BY InitEstablishes, NextPreserves, PTL DEF Spec

\* Publication deletes no name and writes to no file that has its bytes,
\* whatever runs and whatever other process share the directory.
THEOREM PublicationReplacesNothing == Spec => NothingIsReplaced
<1>1. Inv /\ [Next]_vars =>
        [/\ DOMAIN tree \subseteq DOMAIN tree'
         /\ \A n \in DOMAIN inodes :
              inodes[n].bytes # NoBytes => inodes'[n].bytes = inodes[n].bytes]_vars
  BY NextPreserves DEF FilesStay
<1> QED BY <1>1, InvInvariant, PTL DEF Spec, NothingIsReplaced

-----------------------------------------------------------------------------
(* The names                                                               *)

\* A name leads to a directory or to a file; a run in a batch has made names
\* for the inodes it owns.
NamesOK ==
  /\ \A p \in DOMAIN tree : tree[p] \in {Directory} \cup DOMAIN inodes
  /\ \A r \in Runs : run[r].pc \in InBatch =>
       \A j \in 1 .. Len(run[r].owned) :
         /\ run[r].owned[j] \in DOMAIN inodes
         /\ Batch(r)[j].path \in DOMAIN tree

\* Steps of the runs lead no name elsewhere.
NamesStay == \A p \in DOMAIN tree : p \in DOMAIN tree' /\ tree'[p] = tree[p]

\* A step of a run adds names and leads none elsewhere.
LEMMA PublishKeepsNames ==
  ASSUME Inv, NamesOK, NEW r \in Runs, Publish(r) \/ SystemFailure(r)
  PROVE  NamesStay /\ \A p \in DOMAIN tree' : tree'[p] \in {Directory} \cup DOMAIN inodes'
<1>1. FilesStay /\ inodes \in Seq(InodeStates)
  BY CreateKeepsFiles, WriteKeepsFiles, SyncKeepsFiles, QuietKeepsFiles DEF Inv, Publish, FilesOK
<1>2. CASE UNCHANGED tree
  BY <1>1, <1>2 DEF NamesStay, NamesOK, FilesStay
<1>3. ASSUME NEW p, p \notin DOMAIN tree, NEW n \in {Directory} \cup DOMAIN inodes',
             tree' = Linked(p, n)
      PROVE  NamesStay /\ \A q \in DOMAIN tree' : tree'[q] \in {Directory} \cup DOMAIN inodes'
  <2>1. /\ DOMAIN tree' = DOMAIN tree \cup {p}
        /\ tree'[p] = n
        /\ \A q \in DOMAIN tree : tree'[q] = tree[q]
    BY <1>3 DEF Linked
  <2> QED BY <1>1, <2>1 DEF NamesStay, NamesOK, FilesStay
<1>4. CASE WalkDirectories(r) /\ ~UNCHANGED tree
  <2> DEFINE d == SubSeq(Current(r).path, 1, run[r].depth)
  <2>1. ~IsFile(d) /\ ~IsDir(d) /\ tree' = Linked(d, Directory)
    BY <1>4 DEF WalkDirectories, Fails, Files
  <2>2. d \notin DOMAIN tree
    BY <2>1 DEF IsFile, IsDir
  <2> HIDE DEF d
  <2> QED BY <1>3, <2>1, <2>2
<1>5. CASE CreateArtifact(r) /\ ~UNCHANGED tree
  <2>1. /\ Current(r).path \notin DOMAIN tree
        /\ tree' = Linked(Current(r).path, Len(inodes) + 1)
        /\ inodes' = Append(inodes, [bytes |-> NoBytes, flushed |-> FALSE])
    BY <1>5 DEF CreateArtifact, Fails, Files
  <2>2. Len(inodes) + 1 \in DOMAIN inodes'
    BY <1>1, <2>1
  <2> QED BY <1>3, <2>1, <2>2
<1>6. CASE ~WalkDirectories(r) /\ ~CreateArtifact(r)
  <2>1. UNCHANGED tree
    BY <1>6 DEF Publish, OpenOutputRoot, WriteArtifact, SyncArtifact, SyncParent, ReopenArtifact,
       SyncRoot, SystemFailure, Fails, Files
  <2> QED BY <1>2, <2>1
<1> QED BY <1>2, <1>4, <1>5, <1>6

\* Names lead to directories and existing files; what a run created is named.
LEMMA NamesPreserved ==
  ASSUME Inv, NamesOK, [Next]_vars
  PROVE  NamesOK'
<1>1. FilesStay /\ Inv'
  BY NextPreserves
<1>2. CASE UNCHANGED <<tree, run>>
  <2>1. \A r \in Runs : Batch(r)' = Batch(r)
    BY <1>2 DEF Batch
  <2> QED BY <1>1, <1>2, <2>1 DEF NamesOK, FilesStay
<1>3. CASE \E r \in Runs : Publish(r) \/ SystemFailure(r)
  <2>1. PICK r \in Runs : Publish(r) \/ SystemFailure(r)
    BY <1>3
  <2>2. /\ \A p \in DOMAIN tree' : tree'[p] \in {Directory} \cup DOMAIN inodes'
        /\ NamesStay
    BY <2>1, PublishKeepsNames
  <2>3. PICK s, t \in RunStates : /\ s = run[r] /\ Progress(r, s, t)
                                  /\ run' = [run EXCEPT ![r] = t]
    BY <2>1, StepProgress DEF Inv, RunsOK, FilesOK
  <2>4. run'[r] = t /\ \A q \in Runs \ {r} : run'[q] = run[q]
    BY <2>3 DEF Inv, RunsOK
  <2>5. ASSUME NEW q \in Runs \ {r}, run'[q].pc \in InBatch,
               NEW j \in 1 .. Len(run'[q].owned)
        PROVE  run'[q].owned[j] \in DOMAIN inodes' /\ Batch(q)'[j].path \in DOMAIN tree'
    <3>1. run'[q] = run[q] /\ Batch(q)' = Batch(q)
      BY <2>4 DEF Batch
    <3> QED BY <1>1, <2>2, <2>5, <3>1 DEF NamesOK, NamesStay, FilesStay
  <2>6. ASSUME t.pc \in InBatch, NEW j \in 1 .. Len(t.owned)
        PROVE  t.owned[j] \in DOMAIN inodes' /\ Batches(r)[t.batch][j].path \in DOMAIN tree'
    <3>1. t.batch = s.batch
      BY <2>3, <2>6 DEF Progress, InBatch
    <3>2. CASE t.owned = s.owned /\ s.pc \in InBatch
      BY <1>1, <2>2, <2>3, <2>6, <3>1, <3>2 DEF NamesOK, NamesStay, FilesStay, Batch
    <3>3. CASE s.pc = "start"
      <4>1. t.owned = << >>
        BY <2>3, <2>6, <3>3 DEF Progress, InBatch
      <4> QED BY <2>6, <4>1
    <3>4. CASE s.pc = "create"
      <4> DEFINE n == Len(inodes) + 1
      <4>1. /\ t.owned = Append(s.owned, n)
            /\ tree' = Linked(Batches(r)[s.batch][s.i].path, n)
            /\ inodes' = Append(inodes, [bytes |-> NoBytes, flushed |-> FALSE])
        BY <2>3, <2>6, <3>4 DEF Progress, InBatch
      <4>2. s.owned \in Seq(Nat) /\ s.i \in Nat /\ Len(s.owned) = s.i - 1
        BY <2>3, <3>4 DEF RunStates, Inv, RunsOK, Position
      <4>3. n \in Nat /\ n \in DOMAIN inodes'
        BY <4>1 DEF Inv, FilesOK
      <4>4. CASE j = s.i
        <5>1. t.owned[j] = n
          BY <4>1, <4>2, <4>3, <4>4
        <5>2. Batches(r)[s.batch][j].path \in DOMAIN tree'
          BY <4>1, <4>4 DEF Linked
        <5> QED BY <3>1, <4>3, <5>1, <5>2
      <4>5. CASE j # s.i
        <5> HIDE DEF n
        <5>1. j \in 1 .. Len(s.owned) /\ t.owned[j] = s.owned[j]
          BY <2>6, <4>1, <4>2, <4>3, <4>5
        <5> QED BY <1>1, <2>2, <2>3, <3>1, <3>4, <5>1
                DEF NamesOK, NamesStay, FilesStay, Batch, InBatch
      <4> QED BY <4>4, <4>5
    <3> QED BY <2>3, <2>6, <3>2, <3>3, <3>4 DEF Progress, InBatch
  <2> QED BY <2>2, <2>4, <2>5, <2>6 DEF NamesOK, Batch
<1>4. CASE \E p \in DOMAIN tree : ForeignReplace(p)
  <2>1. PICK p \in DOMAIN tree : ForeignReplace(p)
    BY <1>4
  <2>2. /\ DOMAIN tree' = DOMAIN tree
        /\ \A q \in DOMAIN tree : tree'[q] \in {tree[q], Len(inodes) + 1}
        /\ UNCHANGED run
    BY <2>1 DEF ForeignReplace
  <2>3. Len(inodes) + 1 \in DOMAIN inodes'
    BY <2>1 DEF ForeignReplace, Inv, FilesOK
  <2>4. \A r \in Runs : Batch(r)' = Batch(r)
    BY <2>2 DEF Batch
  <2> QED BY <1>1, <2>2, <2>3, <2>4 DEF NamesOK, FilesStay
<1> QED BY <1>2, <1>3, <1>4 DEF Next, vars

-----------------------------------------------------------------------------
(* What a run has verified                                                 *)

ItemVerified(r, k, j) == <<r, Batches(r)[k][j].path>> \in verified
BatchVerified(r, k) == \A j \in 1 .. Len(Batches(r)[k]) : ItemVerified(r, k, j)

\* No two items of the batch have the same path.
DistinctPaths(r, k) ==
  \A i, j \in 1 .. Len(Batches(r)[k]) : Batches(r)[k][i].path = Batches(r)[k][j].path => i = j

\* A run in a batch has validated it; in the second pass, and after it, what it
\* went over is verified, and so are the batches before.
Checked(r, s) ==
  /\ s.pc \in InBatch => ~ReservedPath(r) /\ DistinctPaths(r, s.batch)
  /\ \A k \in 1 .. s.batch - 1 : BatchVerified(r, k)
  /\ s.pc = "reopen" => /\ Len(s.owned) = Len(Batches(r)[s.batch])
                        /\ \A j \in 1 .. s.i - 1 : ItemVerified(r, s.batch, j)
  /\ s.pc \in {"root", "done"} => BatchVerified(r, s.batch)
  /\ s.pc = "done" => s.batch = Len(Batches(r))

ChecksOK == \A r \in Runs : Checked(r, run[r])

\* Verification is not taken back, and a step of a run verifies at most the
\* item it is at, which is unchanged; only the foreign process overtakes.
LEMMA VerifiedStep ==
  ASSUME NEW r \in Runs, Publish(r) \/ SystemFailure(r)
  PROVE  /\ UNCHANGED overtaken
         /\ \/ UNCHANGED verified
            \/ /\ run[r].pc = "reopen" /\ Unchanged(r)
               /\ verified' = verified \cup {<<r, Current(r).path>>}
BY DEF Publish, OpenOutputRoot, WalkDirectories, CreateArtifact, WriteArtifact, SyncArtifact,
       SyncParent, ReopenArtifact, SyncRoot, SystemFailure, Fails, Files, Rest, At

\* Verification is never taken back.
LEMMA VerifiedGrows ==
  ASSUME [Next]_vars
  PROVE  verified \subseteq verified'
BY VerifiedStep DEF Next, ForeignReplace, vars

\* What a run has checked of a batch stays checked.
LEMMA ChecksStay ==
  ASSUME verified \subseteq verified', NEW r \in Runs, NEW s, Checked(r, s)
  PROVE  Checked(r, s)'
<1>1. \A k, j : ItemVerified(r, k, j) => ItemVerified(r, k, j)'
  BY DEF ItemVerified
<1>2. \A k : BatchVerified(r, k) => BatchVerified(r, k)'
  BY <1>1 DEF BatchVerified
<1> QED BY <1>1, <1>2 DEF Checked, ReservedPath, DistinctPaths

\* A run past a check has passed it: of its paths, and of each item reopened.
LEMMA ChecksPreserved ==
  ASSUME Inv, ChecksOK, [Next]_vars
  PROVE  ChecksOK'
<1>1. verified \subseteq verified'
  BY VerifiedGrows
<1>2. CASE UNCHANGED run
  BY <1>1, <1>2, ChecksStay DEF ChecksOK
<1>3. CASE \E r \in Runs : Publish(r) \/ SystemFailure(r)
  <2>1. PICK r \in Runs : Publish(r) \/ SystemFailure(r)
    BY <1>3
  <2>2. PICK s, t \in RunStates : /\ s = run[r] /\ Progress(r, s, t)
                                  /\ run' = [run EXCEPT ![r] = t]
    BY <2>1, StepProgress DEF Inv, RunsOK, FilesOK
  <2>3. run'[r] = t /\ \A q \in Runs \ {r} : run'[q] = run[q]
    BY <2>2 DEF Inv, RunsOK
  <2>4. ASSUME NEW q \in Runs \ {r} PROVE Checked(q, run[q])'
    <3>1. PICK u : u = run[q] /\ u = run'[q]
      BY <2>3
    <3>2. Checked(q, u)
      BY <3>1 DEF ChecksOK
    <3>3. Checked(q, u)'
      BY <1>1, <3>2, ChecksStay
    <3> QED BY <3>1, <3>3 DEF Checked
  <2> DEFINE items == Batches(r)[s.batch]
  <2>5. Checked(r, s) /\ Checked(r, s)'
    BY <1>1, <2>2, ChecksStay DEF ChecksOK
  <2>6. /\ s.batch \in Nat /\ s.i \in Nat /\ Len(items) \in Nat
        /\ items \in Seq(Items(r))
        /\ s.batch \in 1 .. Len(Batches(r))
        /\ Len(Batches(r)) \in Nat
        /\ s.pc \in InBatch => s.i \in 1 .. Len(items)
        /\ s.pc = "parent" => Len(s.owned) = s.i
    <3>1. Position(r, s)
      BY <2>2 DEF Inv, RunsOK
    <3> QED BY <3>1, BatchesTyped DEF RunStates, Position
  <2>7. ASSUME t.pc \in InBatch PROVE ~ReservedPath(r) /\ DistinctPaths(r, t.batch)
    <3>1. CASE s.pc = "start"
      <4>1. ~DuplicatePath(r) /\ Batch(r) = items
        BY <2>2, <2>7, <3>1 DEF Progress, Batch, InBatch
      <4>2. DistinctPaths(r, s.batch)
        BY <2>6, <4>1 DEF DuplicatePath, DistinctPaths
      <4> QED BY <2>2, <2>7, <3>1, <4>2 DEF Progress, InBatch
    <3>2. CASE s.pc # "start"
      BY <2>2, <2>5, <2>7, <3>2 DEF Progress, Checked, InBatch
    <3> QED BY <3>1, <3>2
  <2>8. (\A k \in 1 .. t.batch - 1 : BatchVerified(r, k))'
    <3>1. CASE t.pc = "start"
      <4>1. t.batch = s.batch + 1 /\ s.pc = "root"
        BY <2>2, <3>1 DEF Progress
      <4> QED BY <2>5, <2>6, <4>1 DEF Checked
    <3>2. CASE t.pc # "start"
      BY <2>2, <2>5, <3>2 DEF Progress, Checked
    <3> QED BY <3>1, <3>2
  <2>9. ASSUME s.pc = "reopen", t.pc # "failed"
        PROVE  /\ \A j \in 1 .. s.i : ItemVerified(r, s.batch, j)'
               /\ t.owned = s.owned /\ t.batch = s.batch
               /\ \/ t.pc = "reopen" /\ t.i = s.i + 1
                  \/ t.pc = "root" /\ s.i = Len(items)
    <3>1. /\ verified' = verified \cup {<<r, items[s.i].path>>}
          /\ t.owned = s.owned /\ t.batch = s.batch
          /\ IF s.i < Len(items) THEN t.pc = "reopen" /\ t.i = s.i + 1 ELSE t.pc = "root"
      BY <2>2, <2>9 DEF Progress
    <3>2. ItemVerified(r, s.batch, s.i)'
      BY <3>1 DEF ItemVerified
    <3>3. \A j \in 1 .. s.i - 1 : ItemVerified(r, s.batch, j)'
      BY <2>5, <2>9 DEF Checked
    <3>4. \A j \in 1 .. s.i : j = s.i \/ j \in 1 .. s.i - 1
      BY <2>6
    <3>5. s.i < Len(items) \/ s.i = Len(items)
      BY <2>6, <2>9 DEF InBatch
    <3> QED BY <3>1, <3>2, <3>3, <3>4, <3>5
  <2>10. t.pc = "reopen" => /\ Len(t.owned) = Len(Batches(r)[t.batch])
                            /\ (\A j \in 1 .. t.i - 1 : ItemVerified(r, t.batch, j))'
    <3>1. CASE s.pc = "reopen"
      BY <2>5, <2>6, <2>9, <3>1 DEF Checked
    <3>2. CASE s.pc = "parent"
      BY <2>2, <2>6, <3>2 DEF Progress, InBatch
    <3> QED BY <2>2, <3>1, <3>2 DEF Progress
  <2>11. t.pc \in {"root", "done"} => BatchVerified(r, t.batch)'
    <3>1. CASE s.pc = "reopen"
      BY <2>9, <3>1 DEF BatchVerified
    <3>2. CASE s.pc = "start"
      BY <2>2, <3>2 DEF Progress, BatchVerified
    <3>3. CASE s.pc = "root"
      BY <2>2, <2>5, <3>3 DEF Progress, Checked
    <3> QED BY <2>2, <3>1, <3>2, <3>3 DEF Progress
  <2>12. t.pc = "done" => t.batch = Len(Batches(r))
    BY <2>2, <2>6 DEF Progress
  <2>13. Checked(r, t)'
    BY <2>7, <2>8, <2>10, <2>11, <2>12 DEF Checked, ReservedPath, DistinctPaths
  <2> QED BY <2>3, <2>4, <2>13 DEF ChecksOK, Checked
<1> QED BY <1>2, <1>3 DEF Next, ForeignReplace, vars

-----------------------------------------------------------------------------
(* What is verified is visible                                             *)

\* Success was told of what is visible still, or was overtaken.
VerifiedOK ==
  \A r \in Runs : \A a \in Published(r) :
    <<r, a.path>> \in verified => Visible(a) \/ <<r, a.path>> \in overtaken

\* A published item is one of a batch, and has bytes.
LEMMA PublishedItems ==
  ASSUME NEW r \in Runs, NEW a \in Published(r)
  PROVE  /\ a.bytes # NoBytes
         /\ \E k \in 1 .. Len(Batches(r)) : \E j \in 1 .. Len(Batches(r)[k]) :
              a = Batches(r)[k][j]
<1>1. PICK k \in DOMAIN Batches(r) : a \in ToSet(Batches(r)[k])
  BY DEF Published
<1>2. k \in 1 .. Len(Batches(r)) /\ Batches(r)[k] \in Seq(Items(r))
  BY BatchesTyped
<1>3. PICK j \in DOMAIN Batches(r)[k] : a = Batches(r)[k][j]
  BY <1>1 DEF ToSet
<1>4. j \in 1 .. Len(Batches(r)[k]) /\ a \in Items(r)
  BY <1>2, <1>3
<1>5. a.bytes # NoBytes
  BY <1>4, PublicationAssumption DEF Items, Art
<1> QED BY <1>2, <1>3, <1>4, <1>5

\* In a validated batch a path tells the item, of any batch.
LEMMA PathTellsItem ==
  ASSUME NEW r \in Runs, ~ReservedPath(r),
         NEW k \in 1 .. Len(Batches(r)), NEW i \in 1 .. Len(Batches(r)[k]), DistinctPaths(r, k),
         NEW a \in Published(r), a.path = Batches(r)[k][i].path
  PROVE  a = Batches(r)[k][i]
<1>1. PICK l \in 1 .. Len(Batches(r)) : \E j \in 1 .. Len(Batches(r)[l]) : a = Batches(r)[l][j]
  BY PublishedItems
<1>2. CASE l = k
  BY <1>1, <1>2 DEF DistinctPaths
<1>3. CASE l # k
  <2> DEFINE receipt == [path |-> ReceiptPath, bytes |-> Receipt[r]]
  <2>1. Batches(r) = IF r \in Dispatches THEN <<<<receipt>>, Artifacts[r]>> ELSE <<Artifacts[r]>>
    BY DEF Batches
  <2> HIDE DEF receipt
  <2>2. /\ r \in Dispatches
        /\ Batches(r)[1] = <<receipt>> /\ Batches(r)[2] = Artifacts[r]
        /\ (k = 1 /\ l = 2) \/ (k = 2 /\ l = 1)
    BY <1>3, <2>1
  <2>3. PICK n \in DOMAIN Artifacts[r] : Artifacts[r][n].path = receipt.path
    <3>1. Artifacts[r] \in Seq(Art)
      BY PublicationAssumption DEF Art
    <3>2. CASE k = 1
      BY <1>1, <2>2, <3>1, <3>2
    <3>3. CASE k = 2
      BY <1>1, <2>2, <3>1, <3>3
    <3> QED BY <2>2, <3>2, <3>3
  <2>4. IsPrefix(ReceiptPath, Artifacts[r][n].path)
    <3>1. Artifacts[r][n].path = ReceiptPath
      BY <2>3 DEF receipt
    <3>2. Len(ReceiptPath) <= Len(ReceiptPath)
      BY DEF ReceiptPath
    <3> QED BY <3>1, <3>2 DEF IsPrefix
  <2> QED BY <2>2, <2>4 DEF ReservedPath, Reserved
<1> QED BY <1>2, <1>3

\* A visible item with bytes stays visible through the steps of runs.
LEMMA VisibleStays ==
  ASSUME Inv, NamesOK, NEW r \in Runs, Publish(r) \/ SystemFailure(r),
         NEW a, a.bytes # NoBytes, Visible(a)
  PROVE  Visible(a)'
<1>1. NamesStay /\ FilesStay
  BY PublishKeepsNames, CreateKeepsFiles, WriteKeepsFiles, SyncKeepsFiles, QuietKeepsFiles
     DEF Inv, Publish
<1>2. /\ a.path \in DOMAIN tree /\ tree[a.path] # Directory
      /\ tree[a.path] \in DOMAIN inodes /\ inodes[tree[a.path]].bytes = a.bytes
  BY DEF Visible, IsFile, NamesOK
<1>3. /\ a.path \in DOMAIN tree' /\ tree'[a.path] = tree[a.path]
      /\ inodes'[tree[a.path]].bytes = a.bytes
  BY <1>1, <1>2 DEF NamesStay, FilesStay
<1> QED BY <1>2, <1>3 DEF Visible, IsFile

\* What is verified in the second pass is visible.
LEMMA ReopenedIsVisible ==
  ASSUME Inv, NamesOK, ChecksOK, NEW r \in Runs, run[r].pc = "reopen", Unchanged(r),
         NEW a \in Published(r), a.path = Current(r).path
  PROVE  Visible(a)
<1>1. PICK s \in RunStates : s = run[r]
  BY DEF Inv, RunsOK
<1>2. /\ s.batch \in 1 .. Len(Batches(r))
      /\ s.i \in 1 .. Len(Batches(r)[s.batch])
      /\ Len(s.owned) = Len(Batches(r)[s.batch])
      /\ ~ReservedPath(r) /\ DistinctPaths(r, s.batch)
  <2>1. Position(r, s) /\ Checked(r, s) /\ s.pc = "reopen"
    BY <1>1 DEF Inv, RunsOK, ChecksOK
  <2> QED BY <2>1 DEF Position, Checked, InBatch
<1>3. a = Current(r)
  BY <1>1, <1>2, PathTellsItem DEF Current, Batch
<1>4. s.i \in 1 .. Len(s.owned)
  BY <1>2
<1>5. Owned(r) \in DOMAIN inodes /\ Current(r).path \in DOMAIN tree
  BY <1>1, <1>4 DEF NamesOK, Owned, Current, InBatch
<1>6. Owned(r) # Directory
  BY <1>5 DEF Inv, FilesOK, Directory
<1> QED BY <1>3, <1>5, <1>6 DEF Unchanged, Visible, IsFile

\* What was verified is visible or overtaken after every step.
LEMMA VerifiedPreserved ==
  ASSUME Inv, NamesOK, ChecksOK, VerifiedOK, [Next]_vars
  PROVE  VerifiedOK'
<1>1. ASSUME NEW r \in Runs, NEW a \in Published(r), <<r, a.path>> \in verified',
             NEW q \in Runs, Publish(q) \/ SystemFailure(q)
      PROVE  Visible(a)' \/ <<r, a.path>> \in overtaken'
  <2>1. UNCHANGED overtaken /\ a.bytes # NoBytes
    BY <1>1, VerifiedStep, PublishedItems
  <2>2. Visible(a) => Visible(a)'
    BY <1>1, <2>1, VisibleStays
  <2>3. CASE <<r, a.path>> \in verified
    BY <2>1, <2>2, <2>3 DEF VerifiedOK
  <2>4. CASE <<r, a.path>> \notin verified
    <3>1. /\ run[q].pc = "reopen" /\ Unchanged(q)
          /\ r = q /\ a.path = Current(q).path
      BY <1>1, <2>4, VerifiedStep
    <3>2. Visible(a)
      BY <3>1, ReopenedIsVisible
    <3> QED BY <2>2, <3>2
  <2> QED BY <2>3, <2>4
<1>2. ASSUME NEW r \in Runs, NEW a \in Published(r), <<r, a.path>> \in verified',
             NEW p \in DOMAIN tree, ForeignReplace(p)
      PROVE  Visible(a)' \/ <<r, a.path>> \in overtaken'
  <2>1. /\ UNCHANGED verified
        /\ tree' = [tree EXCEPT ![p] = Len(inodes) + 1]
        /\ inodes' = Append(inodes, [bytes |-> Foreign, flushed |-> FALSE])
        /\ overtaken' = overtaken \cup {v \in verified : v[2] = p}
    BY <1>2 DEF ForeignReplace
  <2>2. CASE a.path = p
    BY <1>2, <2>1, <2>2
  <2>3. CASE a.path # p /\ Visible(a)
    <3>1. /\ a.path \in DOMAIN tree /\ tree[a.path] # Directory
          /\ tree[a.path] \in DOMAIN inodes /\ inodes[tree[a.path]].bytes = a.bytes
      BY <2>3 DEF Visible, IsFile, NamesOK
    <3>2. a.path \in DOMAIN tree' /\ tree'[a.path] = tree[a.path]
      BY <2>1, <2>3, <3>1
    <3>3. inodes'[tree[a.path]] = inodes[tree[a.path]]
      BY <2>1, <3>1 DEF Inv, FilesOK
    <3> QED BY <3>1, <3>2, <3>3 DEF Visible, IsFile
  <2> QED BY <1>2, <2>1, <2>2, <2>3 DEF VerifiedOK
<1>3. ASSUME UNCHANGED vars PROVE VerifiedOK'
  BY <1>3 DEF VerifiedOK, Visible, IsFile, vars
<1>4. \A r \in Runs : Published(r)' = Published(r)
  BY DEF Published, Batches
<1> QED BY <1>1, <1>2, <1>3, <1>4 DEF VerifiedOK, Next

VInv == Inv /\ NamesOK /\ ChecksOK /\ VerifiedOK

\* The initial states satisfy the stronger invariant.
LEMMA VInitEstablishes == Init => VInv
<1> SUFFICES ASSUME Init PROVE VInv
  OBVIOUS
<1>1. Inv
  BY InitEstablishes
<1>2. tree = << >> /\ verified = {}
  BY DEF Init
<1>3. \A r \in Runs : run[r].pc = "start" /\ run[r].batch = 1
  <2> SUFFICES ASSUME NEW r \in Runs PROVE run[r].pc = "start" /\ run[r].batch = 1
    OBVIOUS
  <2>1. PICK sp \in Spellings : run[r] = [Idle EXCEPT !.spelled = sp]
    BY DEF Init
  <2> QED BY <2>1 DEF Idle
<1>4. NamesOK
  BY <1>2, <1>3 DEF NamesOK, InBatch
<1>5. ChecksOK
  BY <1>3 DEF ChecksOK, Checked, InBatch
<1>6. VerifiedOK
  BY <1>2 DEF VerifiedOK
<1> QED BY <1>1, <1>4, <1>5, <1>6 DEF VInv

\* Every step keeps the stronger invariant.
LEMMA VNextPreserves == VInv /\ [Next]_vars => VInv'
BY NextPreserves, NamesPreserved, ChecksPreserved, VerifiedPreserved DEF VInv

\* The stronger invariant holds in every behaviour.
LEMMA VInvInvariant == Spec => []VInv
BY VInitEstablishes, VNextPreserves, PTL DEF Spec

\* A run reports success only if its receipt and all its artifacts are there
\* with its bytes, or were replaced after its second pass: for any number of
\* runs with any overlapping outputs, and any foreign process.
THEOREM SuccessMeansVisible == Spec => []SuccessIsVisible
<1>1. VInv => SuccessIsVisible
  <2> SUFFICES ASSUME VInv, NEW r \in Runs, run[r].pc = "done", NEW a \in Published(r)
               PROVE  Visible(a) \/ <<r, a.path>> \in overtaken
    BY DEF SuccessIsVisible
  <2>1. PICK k \in 1 .. Len(Batches(r)) : \E j \in 1 .. Len(Batches(r)[k]) : a = Batches(r)[k][j]
    BY PublishedItems
  <2>2. BatchVerified(r, k)
    <3>1. Checked(r, run[r]) /\ Len(Batches(r)) \in Nat
      BY BatchesTyped DEF VInv, ChecksOK
    <3>2. run[r].batch = Len(Batches(r))
      BY <3>1 DEF Checked
    <3>3. k = run[r].batch \/ k \in 1 .. run[r].batch - 1
      BY <3>1, <3>2
    <3> QED BY <3>1, <3>3 DEF Checked
  <2>3. <<r, a.path>> \in verified
    BY <2>1, <2>2 DEF BatchVerified, ItemVerified
  <2> QED BY <2>3 DEF VInv, VerifiedOK
<1> QED BY <1>1, VInvInvariant, PTL

-----------------------------------------------------------------------------
(* What is flushed stays flushed                                           *)

\* Inode n has its bytes, on the disk.
Flushed(n) == inodes[n].bytes # NoBytes /\ inodes[n].flushed

\* A step of a run changes an inode only by a write to one without bytes or
\* by flushing one.
LEMMA StepFiles ==
  ASSUME Inv, NEW r \in Runs, Publish(r) \/ SystemFailure(r), NEW n \in DOMAIN inodes
  PROVE  /\ n \in DOMAIN inodes'
         /\ \/ inodes'[n] = inodes[n]
            \/ inodes[n].bytes = NoBytes
            \/ inodes'[n].bytes = inodes[n].bytes /\ inodes'[n].flushed
<1>1. inodes \in Seq(InodeStates)
  BY DEF Inv, FilesOK
<1>2. inodes[n] \in InodeStates
  BY <1>1
<1>3. CASE WriteArtifact(r)
  BY <1>1, <1>3 DEF WriteArtifact, Inv, FilesOK, At
<1>4. CASE SyncArtifact(r)
  BY <1>1, <1>2, <1>4 DEF SyncArtifact, InodeStates
<1>5. CASE CreateArtifact(r)
  BY <1>1, <1>5 DEF CreateArtifact, Fails, Files
<1>6. CASE ~WriteArtifact(r) /\ ~SyncArtifact(r) /\ ~CreateArtifact(r)
  <2>1. UNCHANGED inodes
    BY <1>6 DEF Publish, OpenOutputRoot, WalkDirectories, SyncParent, ReopenArtifact, SyncRoot,
       SystemFailure, Fails, Files
  <2> QED BY <2>1
<1> QED BY <1>3, <1>4, <1>5, <1>6

\* Flushed bytes stay on the disk, whoever acts.
LEMMA FlushedStays ==
  ASSUME Inv, [Next]_vars, NEW n \in DOMAIN inodes, Flushed(n)
  PROVE  n \in DOMAIN inodes' /\ Flushed(n)'
<1>1. ASSUME NEW p, ForeignReplace(p) PROVE n \in DOMAIN inodes' /\ inodes'[n] = inodes[n]
  BY <1>1 DEF ForeignReplace, Inv, FilesOK
<1> QED BY <1>1, StepFiles DEF Next, Flushed, vars

\* A flushed entry stays flushed for as long as it leads to the same file.
LEMMA EntryStays ==
  ASSUME Inv, NamesOK, [Next]_vars, NEW p \in DOMAIN tree, NEW n \in {Directory} \cup DOMAIN inodes,
         tree[p] = n => p \in synced
  PROVE  tree'[p] = n => p \in synced'
<1>1. ASSUME NEW r \in Runs, Publish(r) \/ SystemFailure(r)
      PROVE  tree'[p] = tree[p] /\ synced \subseteq synced'
  <2>1. tree'[p] = tree[p]
    BY <1>1, PublishKeepsNames DEF NamesStay
  <2>2. synced \subseteq synced'
    BY <1>1 DEF Publish, OpenOutputRoot, WalkDirectories, CreateArtifact, WriteArtifact, SyncArtifact,
       SyncParent, ReopenArtifact, SyncRoot, SystemFailure, Fails, Files
  <2> QED BY <2>1, <2>2
<1>2. ASSUME NEW q \in DOMAIN tree, ForeignReplace(q)
      PROVE  tree'[p] = n => p \in synced'
  <2>1. /\ tree' = [tree EXCEPT ![q] = Len(inodes) + 1]
        /\ synced' = synced \ {q}
        /\ n # Len(inodes) + 1
    BY <1>2 DEF ForeignReplace, Inv, FilesOK, Directory
  <2> QED BY <2>1
<1> QED BY <1>1, <1>2 DEF Next, vars

-----------------------------------------------------------------------------
(* What a run has settled of its batch                                     *)

\* The items of its batch whose files, and whose names, run state s has flushed.
FlushedUpTo(s) == IF s.pc = "reopen" THEN Len(s.owned)
                  ELSE IF s.pc = "parent" THEN s.i ELSE s.i - 1
NamedUpTo(s) == IF s.pc = "reopen" THEN Len(s.owned) ELSE s.i - 1

Settled(r, s) ==
  s.pc \in InBatch =>
    /\ s.pc = "sync" => inodes[s.owned[s.i]].bytes # NoBytes
    /\ \A j \in 1 .. FlushedUpTo(s) : Flushed(s.owned[j])
    /\ \A j \in 1 .. NamedUpTo(s) :
         tree[Batches(r)[s.batch][j].path] = s.owned[j] => Batches(r)[s.batch][j].path \in synced

SettledOK == \A r \in Runs : Settled(r, run[r])

\* What a run in a batch owns has an inode and a name.
LEMMA OwnedNamed ==
  ASSUME Inv, NamesOK, NEW r \in Runs, NEW s \in RunStates, s = run[r], s.pc \in InBatch
  PROVE  /\ Len(s.owned) \in Nat /\ s.i \in Nat /\ s.i > 0
         /\ FlushedUpTo(s) \in 0 .. Len(s.owned) /\ NamedUpTo(s) \in 0 .. Len(s.owned)
         /\ \A j \in 1 .. Len(s.owned) : /\ s.owned[j] \in DOMAIN inodes
                                         /\ Batches(r)[s.batch][j].path \in DOMAIN tree
<1>1. Position(r, s) /\ s.owned \in Seq(Nat) /\ s.i \in Nat
  BY DEF Inv, RunsOK, RunStates
<1>2. s.i > 0
  BY <1>1, BatchesTyped DEF Position
<1>3. FlushedUpTo(s) \in 0 .. Len(s.owned) /\ NamedUpTo(s) \in 0 .. Len(s.owned)
  BY <1>1, <1>2 DEF Position, InBatch, FlushedUpTo, NamedUpTo
<1> QED BY <1>1, <1>2, <1>3 DEF NamesOK, Batch

\* A run that does not move keeps what it has settled.
LEMMA SettledStays ==
  ASSUME Inv, NamesOK, [Next]_vars, NEW r \in Runs, NEW s \in RunStates, s = run[r], Settled(r, s)
  PROVE  Settled(r, s)'
<1> SUFFICES ASSUME s.pc \in InBatch PROVE Settled(r, s)'
  BY DEF Settled
<1>1. FilesStay
  BY NextPreserves
<1>2. s.pc = "sync" => inodes'[s.owned[s.i]].bytes # NoBytes
  <2>1. s.pc = "sync" => s.i \in 1 .. Len(s.owned)
    BY OwnedNamed DEF Inv, RunsOK, Position
  <2> QED BY <1>1, <2>1, OwnedNamed DEF Settled, FilesStay
<1>3. \A j \in 1 .. FlushedUpTo(s) : Flushed(s.owned[j])'
  BY OwnedNamed, FlushedStays DEF Settled
<1>4. ASSUME NEW j \in 1 .. NamedUpTo(s)
      PROVE  tree'[Batches(r)[s.batch][j].path] = s.owned[j] => Batches(r)[s.batch][j].path \in synced'
  <2>1. /\ s.owned[j] \in DOMAIN inodes
        /\ Batches(r)[s.batch][j].path \in DOMAIN tree
        /\ tree[Batches(r)[s.batch][j].path] = s.owned[j] => Batches(r)[s.batch][j].path \in synced
    BY OwnedNamed DEF Settled
  <2> QED BY <2>1, EntryStays
<1> QED BY <1>2, <1>3, <1>4 DEF Settled, Flushed, FlushedUpTo, NamedUpTo

\* What the step of a run out of write, sync or parent does to the item it is
\* at: its bytes reach the file, the file the disk, the name the disk.
LEMMA ItemStep ==
  ASSUME Inv, NamesOK, NEW r \in Runs, Publish(r) \/ SystemFailure(r),
         NEW s \in RunStates, s = run[r], run'[r].pc # "failed"
  PROVE  /\ s.pc = "write" => inodes'[s.owned[s.i]].bytes = Batches(r)[s.batch][s.i].bytes
         /\ s.pc = "sync" => inodes'[s.owned[s.i]].flushed
         /\ s.pc = "parent" => Batches(r)[s.batch][s.i].path \in synced'
<1>1. ~Fails(r)
  BY DEF Fails, Becomes, RunStates, Inv, RunsOK
<1>2. s.pc \in {"write", "sync", "parent"} =>
        /\ s.owned[s.i] \in DOMAIN inodes
        /\ Batches(r)[s.batch][s.i].path \in DOMAIN tree
  <2>1. s.pc \in {"write", "sync", "parent"} => s.i \in 1 .. Len(s.owned)
    BY OwnedNamed DEF Inv, RunsOK, Position, InBatch
  <2> QED BY <2>1, OwnedNamed DEF InBatch
<1>3. ASSUME s.pc = "write" PROVE inodes'[s.owned[s.i]].bytes = Batches(r)[s.batch][s.i].bytes
  <2>1. WriteArtifact(r)
    BY <1>1, <1>3 DEF Publish, OpenOutputRoot, WalkDirectories, CreateArtifact, SyncArtifact,
       SyncParent, ReopenArtifact, SyncRoot, SystemFailure, At
  <2> QED BY <1>2, <1>3, <2>1 DEF WriteArtifact, Owned, Current, Batch
<1>4. ASSUME s.pc = "sync" PROVE inodes'[s.owned[s.i]].flushed
  <2>1. SyncArtifact(r)
    BY <1>1, <1>4 DEF Publish, OpenOutputRoot, WalkDirectories, CreateArtifact, WriteArtifact,
       SyncParent, ReopenArtifact, SyncRoot, SystemFailure, At
  <2>2. inodes[s.owned[s.i]] \in InodeStates
    BY <1>2, <1>4 DEF Inv, FilesOK
  <2> QED BY <1>2, <1>4, <2>1, <2>2 DEF SyncArtifact, Owned, InodeStates
<1>5. ASSUME s.pc = "parent" PROVE Batches(r)[s.batch][s.i].path \in synced'
  <2>1. SyncParent(r)
    BY <1>1, <1>5 DEF Publish, OpenOutputRoot, WalkDirectories, CreateArtifact, WriteArtifact,
       SyncArtifact, ReopenArtifact, SyncRoot, SystemFailure, At
  <2>2. Batches(r)[s.batch][s.i].path \in Entries(Front(Current(r).path))
    BY <1>2, <1>5 DEF Entries, Current, Batch
  <2> QED BY <2>1, <2>2 DEF SyncParent
<1> QED BY <1>3, <1>4, <1>5

\* A run flushes a file in sync and a name in parent, and goes to sync only
\* from a write.
LEMMA Extent ==
  ASSUME Inv, NEW r \in Runs, NEW s \in RunStates, s = run[r], s.pc \in InBatch,
         NEW t \in RunStates, t.pc \in InBatch, Progress(r, s, t)
  PROVE  /\ t.batch = s.batch
         /\ \A j \in 1 .. Len(s.owned) : t.owned[j] = s.owned[j]
         /\ FlushedUpTo(t) = IF s.pc = "sync" THEN s.i ELSE FlushedUpTo(s)
         /\ NamedUpTo(t) = IF s.pc = "parent" THEN s.i ELSE NamedUpTo(s)
         /\ t.pc = "sync" => s.pc = "write" /\ t.i = s.i
         /\ s.pc \in {"write", "sync", "parent"} => s.i = Len(s.owned)
         /\ s.i \in Nat /\ Len(s.owned) \in Nat
<1>1. s.owned \in Seq(Nat) /\ s.i \in Nat /\ Position(r, s)
  BY DEF RunStates, Inv, RunsOK
<1>2. s.pc \in {"write", "sync", "parent"} => s.i = Len(s.owned)
  BY <1>1 DEF Position
<1>3. t.batch = s.batch
  BY DEF Progress, InBatch
<1>4. CASE s.pc \in {"walk", "write", "sync"}
  <2>1. /\ t.i = s.i /\ t.owned = s.owned
        /\ <<s.pc, t.pc>> \in {<<"walk", "walk">>, <<"walk", "create">>, <<"write", "sync">>,
                               <<"sync", "parent">>}
    BY <1>4 DEF Progress, InBatch
  <2> QED BY <1>1, <1>2, <1>3, <2>1 DEF FlushedUpTo, NamedUpTo
<1>5. CASE s.pc = "create"
  <2>1. t.pc = "write" /\ t.i = s.i /\ t.owned = Append(s.owned, Len(inodes) + 1)
    BY <1>5 DEF Progress, InBatch
  <2>2. \A j \in 1 .. Len(s.owned) : t.owned[j] = s.owned[j]
    <3> DEFINE n == Len(inodes) + 1
    <3>1. t.owned = Append(s.owned, n)
      BY <2>1
    <3> HIDE DEF n
    <3> QED BY <1>1, <3>1
  <2> QED BY <1>1, <1>2, <1>3, <1>5, <2>1, <2>2 DEF FlushedUpTo, NamedUpTo
<1>6. CASE s.pc = "parent"
  <2>1. /\ t.owned = s.owned
        /\ (t.pc = "walk" /\ t.i = s.i + 1) \/ (t.pc = "reopen" /\ t.i = 1)
    BY <1>6 DEF Progress, InBatch
  <2> QED BY <1>1, <1>2, <1>3, <1>6, <2>1 DEF FlushedUpTo, NamedUpTo
<1>7. CASE s.pc = "reopen"
  <2>1. t.owned = s.owned /\ t.pc = "reopen"
    BY <1>7 DEF Progress, InBatch
  <2> QED BY <1>1, <1>2, <1>3, <1>7, <2>1 DEF FlushedUpTo, NamedUpTo
<1> QED BY <1>4, <1>5, <1>6, <1>7 DEF InBatch

\* A run that moves has settled what its new position says.
LEMMA SettledMoves ==
  ASSUME Inv, NamesOK, [Next]_vars, NEW r \in Runs, Publish(r) \/ SystemFailure(r),
         NEW s \in RunStates, s = run[r], Settled(r, s),
         NEW t \in RunStates, t = run'[r], Progress(r, s, t)
  PROVE  Settled(r, t)'
<1> SUFFICES ASSUME t.pc \in InBatch PROVE Settled(r, t)'
  BY DEF Settled
<1>1. Settled(r, s)'
  BY SettledStays
<1>2. t.pc # "failed"
  BY DEF InBatch
<1>3. CASE s.pc = "start"
  <2>1. t.pc = "walk" /\ t.i = 1 /\ t.owned = << >>
    BY <1>3 DEF Progress, InBatch
  <2>2. FlushedUpTo(t) = 0 /\ NamedUpTo(t) = 0
    BY <2>1 DEF FlushedUpTo, NamedUpTo
  <2> QED BY <2>1, <2>2 DEF Settled, FlushedUpTo, NamedUpTo
<1>4. CASE s.pc \in InBatch
  <2>1. /\ t.batch = s.batch
        /\ \A j \in 1 .. Len(s.owned) : t.owned[j] = s.owned[j]
        /\ FlushedUpTo(t) = IF s.pc = "sync" THEN s.i ELSE FlushedUpTo(s)
        /\ NamedUpTo(t) = IF s.pc = "parent" THEN s.i ELSE NamedUpTo(s)
        /\ t.pc = "sync" => s.pc = "write" /\ t.i = s.i
        /\ s.pc \in {"write", "sync", "parent"} => s.i = Len(s.owned)
        /\ s.i \in Nat /\ Len(s.owned) \in Nat
    BY <1>4, Extent
  <2>2. /\ FlushedUpTo(s) \in 0 .. Len(s.owned) /\ NamedUpTo(s) \in 0 .. Len(s.owned)
        /\ s.i > 0
    BY <1>4, OwnedNamed
  <2>3. FlushedUpTo(s) = IF s.pc = "sync" THEN s.i - 1 ELSE FlushedUpTo(s)
    BY DEF FlushedUpTo
  <2>4. NamedUpTo(s) = IF s.pc = "parent" THEN s.i - 1 ELSE NamedUpTo(s)
    BY DEF NamedUpTo
  <2>5. ASSUME t.pc = "sync" PROVE inodes'[t.owned[t.i]].bytes # NoBytes
    <3>1. s.pc = "write" /\ Position(r, s)
      BY <2>1, <2>5 DEF Inv, RunsOK
    <3>2. Batches(r)[s.batch][s.i] \in Items(r)
      BY <3>1, BatchesTyped DEF Position, InBatch
    <3>3. Batches(r)[s.batch][s.i].bytes # NoBytes
      BY <3>2, PublicationAssumption DEF Items, Art
    <3>4. t.owned[t.i] = s.owned[s.i]
      BY <2>1, <2>2, <2>5
    <3>5. inodes'[s.owned[s.i]].bytes = Batches(r)[s.batch][s.i].bytes
      BY <1>2, <3>1, ItemStep
    <3> QED BY <3>3, <3>4, <3>5
  <2>6. ASSUME NEW j \in 1 .. FlushedUpTo(t) PROVE Flushed(t.owned[j])'
    <3>1. CASE j \in 1 .. FlushedUpTo(s)
      <4>1. j \in 1 .. FlushedUpTo(s)'
        BY <3>1 DEF FlushedUpTo
      <4>2. Flushed(s.owned[j])'
        BY <1>1, <1>4, <4>1 DEF Settled
      <4>3. t.owned[j] = s.owned[j]
        BY <2>1, <2>2, <3>1
      <4> QED BY <4>2, <4>3 DEF Flushed
    <3>2. CASE j \notin 1 .. FlushedUpTo(s)
      <4>1. s.pc = "sync" /\ j = s.i
        BY <2>1, <2>2, <2>3, <3>2
      <4>2. t.owned[j] = s.owned[s.i]
        BY <2>1, <2>2, <4>1
      <4>3. inodes'[s.owned[s.i]].flushed
        BY <1>2, <4>1, ItemStep
      <4>4. inodes'[s.owned[s.i]].bytes # NoBytes
        BY <1>1, <1>4, <4>1 DEF Settled
      <4> QED BY <4>2, <4>3, <4>4 DEF Flushed
    <3> QED BY <3>1, <3>2
  <2>7. ASSUME NEW j \in 1 .. NamedUpTo(t)
        PROVE  tree'[Batches(r)[t.batch][j].path] = t.owned[j] =>
                 Batches(r)[t.batch][j].path \in synced'
    <3>1. CASE j \in 1 .. NamedUpTo(s)
      <4>1. j \in 1 .. NamedUpTo(s)'
        BY <3>1 DEF NamedUpTo
      <4>2. tree'[Batches(r)[s.batch][j].path] = s.owned[j] =>
              Batches(r)[s.batch][j].path \in synced'
        BY <1>1, <1>4, <4>1 DEF Settled, Batches
      <4>3. t.owned[j] = s.owned[j]
        BY <2>1, <2>2, <3>1
      <4> QED BY <2>1, <4>2, <4>3
    <3>2. CASE j \notin 1 .. NamedUpTo(s)
      <4>1. s.pc = "parent" /\ j = s.i
        BY <2>1, <2>2, <2>4, <3>2
      <4>2. Batches(r)[s.batch][s.i].path \in synced'
        BY <1>2, <4>1, ItemStep
      <4> QED BY <2>1, <4>1, <4>2
    <3> QED BY <3>1, <3>2
  <2>8. /\ t.pc = "sync" => inodes'[t.owned[t.i]].bytes # NoBytes
        /\ (\A j \in 1 .. FlushedUpTo(t) : Flushed(t.owned[j]))'
        /\ (\A j \in 1 .. NamedUpTo(t) :
              tree[Batches(r)[t.batch][j].path] = t.owned[j] => Batches(r)[t.batch][j].path \in synced)'
    BY <2>5, <2>6, <2>7 DEF FlushedUpTo, NamedUpTo, Batches
  <2> QED BY <2>8 DEF Settled
<1> QED BY <1>2, <1>3, <1>4 DEF Progress, InBatch

\* Every run has settled what its position says, after every step.
LEMMA SettledPreserved ==
  ASSUME Inv, NamesOK, SettledOK, [Next]_vars
  PROVE  SettledOK'
<1>1. \A r \in Runs : run[r] \in RunStates
  BY DEF Inv, RunsOK
<1>2. CASE UNCHANGED run
  BY <1>1, <1>2, SettledStays, SMTT(40) DEF SettledOK, Settled, Flushed, FlushedUpTo, NamedUpTo
<1>3. ASSUME NEW r \in Runs, Publish(r) \/ SystemFailure(r) PROVE SettledOK'
  <2>1. PICK s, t \in RunStates : /\ s = run[r] /\ Progress(r, s, t)
                                  /\ run' = [run EXCEPT ![r] = t]
    BY <1>3, StepProgress DEF Inv, RunsOK, FilesOK
  <2>2. run'[r] = t /\ \A q \in Runs \ {r} : run'[q] = run[q]
    BY <2>1 DEF Inv, RunsOK
  <2>3. Settled(r, t)'
    BY <1>3, <2>1, <2>2, SettledMoves DEF SettledOK
  <2>4. ASSUME NEW q \in Runs \ {r} PROVE Settled(q, run[q])'
    <3>1. PICK u \in RunStates : u = run[q] /\ u = run'[q]
      BY <1>1, <2>2
    <3>2. Settled(q, u)'
      BY <3>1, SettledStays DEF SettledOK
    <3> QED BY <3>1, <3>2 DEF Settled, Flushed, FlushedUpTo, NamedUpTo
  <2> QED BY <2>2, <2>3, <2>4 DEF SettledOK, Settled, Flushed, FlushedUpTo, NamedUpTo
<1> QED BY <1>2, <1>3 DEF Next, ForeignReplace, vars

-----------------------------------------------------------------------------
(* What is verified is settled                                             *)

\* A file's name, its bytes and its directory entry are on the disk.
FileSettled(p) == p \in DOMAIN tree /\ tree[p] \in DOMAIN inodes /\ Flushed(tree[p]) /\ p \in synced

\* What a run verified is named, and settled unless someone replaced it.
VerifiedSettled ==
  \A v \in verified : v[2] \in DOMAIN tree /\ (v \in overtaken \/ FileSettled(v[2]))

\* What a run is about to verify is settled.
LEMMA ReopenedIsSettled ==
  ASSUME Inv, NamesOK, ChecksOK, SettledOK, NEW r \in Runs, run[r].pc = "reopen", Unchanged(r)
  PROVE  FileSettled(Current(r).path)
<1>1. PICK s \in RunStates : s = run[r]
  BY DEF Inv, RunsOK
<1>2. s.i \in 1 .. Len(s.owned)
  <2>1. Position(r, s) /\ Checked(r, s) /\ s.pc = "reopen"
    BY <1>1 DEF Inv, RunsOK, ChecksOK
  <2> QED BY <2>1 DEF Position, Checked, InBatch
<1>3. /\ Flushed(s.owned[s.i]) /\ s.owned[s.i] \in DOMAIN inodes
      /\ Batches(r)[s.batch][s.i].path \in DOMAIN tree
      /\ tree[Batches(r)[s.batch][s.i].path] = s.owned[s.i] =>
           Batches(r)[s.batch][s.i].path \in synced
  <2>1. Settled(r, s) /\ s.pc = "reopen"
    BY <1>1 DEF SettledOK
  <2> QED BY <1>1, <1>2, <2>1, OwnedNamed DEF Settled, FlushedUpTo, NamedUpTo, InBatch
<1>4. tree[Current(r).path] = s.owned[s.i] /\ Current(r).path = Batches(r)[s.batch][s.i].path
  BY <1>1 DEF Unchanged, Owned, Current, Batch
<1> QED BY <1>3, <1>4 DEF FileSettled

\* A settled file that keeps its name stays settled.
LEMMA FileStaysSettled ==
  ASSUME Inv, NamesOK, [Next]_vars, NEW p, FileSettled(p),
         p \in DOMAIN tree', tree'[p] = tree[p]
  PROVE  FileSettled(p)'
<1>1. PICK n \in DOMAIN inodes : n = tree[p] /\ Flushed(n) /\ p \in synced /\ p \in DOMAIN tree
  BY DEF FileSettled
<1>2. p \in synced'
  BY <1>1, EntryStays
<1>3. n \in DOMAIN inodes' /\ Flushed(n)'
  BY <1>1, FlushedStays
<1> QED BY <1>1, <1>2, <1>3 DEF FileSettled, Flushed

\* What is verified stays settled, or is overtaken.
LEMMA VerifiedStaysSettled ==
  ASSUME Inv, NamesOK, ChecksOK, SettledOK, VerifiedSettled, [Next]_vars
  PROVE  VerifiedSettled'
<1>1. ASSUME NEW r \in Runs, Publish(r) \/ SystemFailure(r), NEW v \in verified'
      PROVE  v[2] \in DOMAIN tree' /\ (v \in overtaken' \/ FileSettled(v[2])')
  <2>1. v[2] \in DOMAIN tree /\ (v \in overtaken \/ FileSettled(v[2]))
    <3>1. CASE v \in verified
      BY <3>1 DEF VerifiedSettled
    <3>2. CASE v \notin verified
      <4>1. run[r].pc = "reopen" /\ Unchanged(r) /\ v = <<r, Current(r).path>>
        BY <1>1, <3>2, VerifiedStep
      <4>2. FileSettled(Current(r).path)
        BY <4>1, ReopenedIsSettled
      <4> QED BY <4>1, <4>2 DEF FileSettled
    <3> QED BY <3>1, <3>2
  <2>2. v[2] \in DOMAIN tree' /\ tree'[v[2]] = tree[v[2]]
    BY <1>1, <2>1, PublishKeepsNames DEF NamesStay
  <2>3. UNCHANGED overtaken
    BY <1>1, VerifiedStep
  <2> QED BY <2>1, <2>2, <2>3, FileStaysSettled
<1>2. ASSUME NEW p \in DOMAIN tree, ForeignReplace(p), NEW v \in verified'
      PROVE  v[2] \in DOMAIN tree' /\ (v \in overtaken' \/ FileSettled(v[2])')
  <2>1. /\ UNCHANGED verified
        /\ tree' = [tree EXCEPT ![p] = Len(inodes) + 1]
        /\ overtaken' = overtaken \cup {u \in verified : u[2] = p}
    BY <1>2 DEF ForeignReplace
  <2>2. v[2] \in DOMAIN tree /\ (v \in overtaken \/ FileSettled(v[2]))
    BY <1>2, <2>1 DEF VerifiedSettled
  <2>3. v[2] \in DOMAIN tree' /\ (v[2] # p => tree'[v[2]] = tree[v[2]])
    BY <2>1, <2>2
  <2>4. v[2] = p => v \in overtaken'
    BY <1>2, <2>1
  <2> QED BY <2>1, <2>2, <2>3, <2>4, FileStaysSettled
<1>3. UNCHANGED vars => VerifiedSettled'
  BY DEF VerifiedSettled, FileSettled, Flushed, vars
<1> QED BY <1>1, <1>2, <1>3 DEF VerifiedSettled, Next

-----------------------------------------------------------------------------
(* The directories on the way                                              *)

Names == STRING \cup {ReceiptPath[1]}
Paths == Seq(Names) \ {Root}

\* The first k names on the way to p, and all of them but p itself, are directories.
OnTheWay(p, k) == \A n \in 1 .. k : IsDir(SubSeq(p, 1, n))
Reached(p) == OnTheWay(p, Len(p) - 1)

\* A run state that walks has reached its depth.
Walked(r, s) ==
  LET path == Batches(r)[s.batch][s.i].path IN
  /\ s.pc = "walk" => s.depth \in 1 .. Len(path) /\ OnTheWay(path, s.depth - 1)
  /\ s.pc = "create" => OnTheWay(path, Len(path) - 1)

\* Every name is reached, and every run has reached its depth.
ReachedOK == /\ \A p \in DOMAIN tree : p \in Paths /\ Reached(p)
             /\ \A r \in Runs : Walked(r, run[r])

\* An item has a path.
LEMMA ItemPaths ==
  ASSUME NEW r \in Runs, NEW a \in Items(r)
  PROVE  a.path \in Paths
<1>1. ReceiptPath \in Paths
  BY DEF ReceiptPath, Paths, Names, Root
<1>2. ASSUME a \in Art PROVE a.path \in Paths
  BY <1>2 DEF Art, Paths, Names
<1> QED BY <1>1, <1>2 DEF Items

\* A beginning of a path, and its beginnings.
LEMMA Beginnings ==
  ASSUME NEW p \in Paths, NEW d \in 1 .. Len(p)
  PROVE  /\ SubSeq(p, 1, d) \in Paths /\ Len(SubSeq(p, 1, d)) = d
         /\ \A n \in 1 .. d : SubSeq(SubSeq(p, 1, d), 1, n) = SubSeq(p, 1, n)
<1>1. p \in Seq(Names) /\ Len(p) \in Nat /\ d \in Nat /\ d > 0 /\ d <= Len(p)
  BY DEF Paths
<1>2. SubSeq(p, 1, d) \in Seq(Names) /\ Len(SubSeq(p, 1, d)) = d
  BY <1>1
<1>3. SubSeq(p, 1, d) # Root
  BY <1>1, <1>2 DEF Root
<1>4. ASSUME NEW n \in 1 .. d PROVE SubSeq(SubSeq(p, 1, d), 1, n) = SubSeq(p, 1, n)
  BY <1>1, <1>2, <1>4
<1> QED BY <1>2, <1>3, <1>4 DEF Paths

\* A directory stays one.
LEMMA DirectoriesStay ==
  ASSUME Inv, NamesOK, [Next]_vars, NEW d, IsDir(d)
  PROVE  IsDir(d)'
<1>1. ASSUME NEW r \in Runs, Publish(r) \/ SystemFailure(r) PROVE IsDir(d)'
  BY <1>1, PublishKeepsNames DEF NamesStay, IsDir
<1>2. ASSUME NEW p \in DOMAIN tree, ForeignReplace(p) PROVE IsDir(d)'
  BY <1>2 DEF ForeignReplace, IsFile, IsDir
<1> QED BY <1>1, <1>2 DEF Next, vars, IsDir

\* A run walks from its first step on, one directory after the other.
LEMMA WalkStep ==
  ASSUME Inv, NEW r \in Runs, Publish(r) \/ SystemFailure(r),
         NEW s \in RunStates, s = run[r], NEW t \in RunStates, t = run'[r]
  PROVE  LET path == Batches(r)[s.batch][s.i].path IN
         /\ t.pc = "walk" =>
              \/ t.depth = 1
              \/ /\ s.pc = "walk" /\ t.batch = s.batch /\ t.i = s.i
                 /\ s.depth # Len(path) /\ t.depth = s.depth + 1
                 /\ IsDir(SubSeq(path, 1, s.depth))'
         /\ t.pc = "create" => /\ s.pc = "walk" /\ t.batch = s.batch /\ t.i = s.i
                               /\ s.depth = Len(path)
<1> DEFINE path == Batches(r)[s.batch][s.i].path
           d == SubSeq(path, 1, s.depth)
<1>1. \A u : Becomes(r, u) => t = u
  BY DEF Becomes, Inv, RunsOK
<1>2. ASSUME Fails(r) PROVE t.pc = "failed"
  BY <1>1, <1>2 DEF Fails, RunStates
<1>3. CASE WalkDirectories(r) /\ ~Fails(r)
  <2>1. /\ s.pc = "walk"
        /\ \/ s.depth = Len(path) /\ t = [s EXCEPT !.pc = "create"]
           \/ /\ s.depth # Len(path) /\ t = [s EXCEPT !.depth = @ + 1]
              /\ ~IsFile(d) /\ tree' = IF IsDir(d) THEN tree ELSE Linked(d, Directory)
    BY <1>1, <1>3 DEF WalkDirectories, At, Current, Batch
  <2>2. tree' = Linked(d, Directory) => IsDir(d)'
    <3> HIDE DEF d
    <3> QED BY DEF Linked, IsDir
  <2>3. tree' = tree => (IsDir(d) => IsDir(d)')
    BY DEF IsDir
  <2> HIDE DEF d, path
  <2> QED BY <2>1, <2>2, <2>3 DEF RunStates, d, path
<1>4. CASE OpenOutputRoot(r) /\ ~Fails(r)
  <2> DEFINE pc == IF Batch(r) = << >> THEN "root" ELSE "walk"
  <2>1. t = [s EXCEPT !.pc = pc, !.i = 1, !.depth = 1, !.owned = << >>]
    BY <1>1, <1>4 DEF OpenOutputRoot
  <2>2. t.depth = 1 /\ t.pc = pc
    <3> HIDE DEF pc
    <3> QED BY <2>1 DEF RunStates
  <2> QED BY <2>2
<1>5. CASE SyncParent(r)
  <2>1. \/ t = [s EXCEPT !.pc = "walk", !.i = @ + 1, !.depth = 1]
        \/ t = [s EXCEPT !.pc = "reopen", !.i = 1]
    BY <1>1, <1>5 DEF SyncParent
  <2> QED BY <2>1 DEF RunStates
<1>6. CASE \/ CreateArtifact(r) /\ ~Fails(r)
           \/ ReopenArtifact(r) /\ ~Fails(r)
           \/ WriteArtifact(r) \/ SyncArtifact(r) \/ SyncRoot(r)
  <2>1. t.pc \in {"write", "sync", "parent", "reopen", "root", "start", "done"}
    <3>1. CASE CreateArtifact(r) /\ ~Fails(r)
      <4> DEFINE o == Append(s.owned, Len(inodes) + 1)
      <4>1. t = [s EXCEPT !.pc = "write", !.owned = o]
        BY <1>1, <3>1 DEF CreateArtifact
      <4> HIDE DEF o
      <4> QED BY <4>1 DEF RunStates
    <3>2. CASE ReopenArtifact(r) /\ ~Fails(r)
      BY <1>1, <3>2 DEF ReopenArtifact, RunStates, At
    <3>3. CASE WriteArtifact(r) \/ SyncArtifact(r) \/ SyncRoot(r)
      BY <1>1, <3>3 DEF WriteArtifact, SyncArtifact, SyncRoot, RunStates
    <3> QED BY <1>6, <3>1, <3>2, <3>3
  <2> QED BY <2>1
<1> QED BY <1>2, <1>3, <1>4, <1>5, <1>6 DEF Publish, SystemFailure

\* A name that a run adds is reached.
LEMMA NamesReached ==
  ASSUME Inv, ReachedOK, NEW r \in Runs, Publish(r) \/ SystemFailure(r), NEW p \in DOMAIN tree'
  PROVE  p \in Paths /\ Reached(p)
<1>1. CASE p \in DOMAIN tree
  BY <1>1 DEF ReachedOK
<1> SUFFICES ASSUME p \notin DOMAIN tree PROVE p \in Paths /\ Reached(p)
  BY <1>1
<1>2. PICK s \in RunStates : s = run[r]
  BY DEF Inv, RunsOK
<1> DEFINE path == Batches(r)[s.batch][s.i].path
           d == SubSeq(path, 1, s.depth)
<1>3. s.pc \in InBatch => path \in Paths
  <2>1. Position(r, s)
    BY <1>2 DEF Inv, RunsOK
  <2>2. s.pc \in InBatch => Batches(r)[s.batch][s.i] \in Items(r)
    BY <2>1, BatchesTyped DEF Position
  <2> QED BY <2>2, ItemPaths
<1>4. CASE WalkDirectories(r) /\ ~UNCHANGED tree
  <2>1. s.pc = "walk" /\ s.depth # Len(path) /\ tree' = Linked(d, Directory)
    BY <1>2, <1>4 DEF WalkDirectories, At, Current, Batch, Fails, Files
  <2>2. p = d
    <3> HIDE DEF d
    <3> QED BY <2>1 DEF Linked
  <2>3. path \in Paths /\ s.depth \in 1 .. Len(path)
    BY <1>2, <1>3, <2>1 DEF ReachedOK, Walked, InBatch
  <2>4. \A n \in 1 .. s.depth - 1 : IsDir(SubSeq(path, 1, n))
    BY <1>2, <2>1 DEF ReachedOK, Walked, OnTheWay
  <2>5. /\ d \in Paths /\ Len(d) = s.depth
        /\ \A n \in 1 .. s.depth : SubSeq(d, 1, n) = SubSeq(path, 1, n)
    <3> HIDE DEF path
    <3> QED BY <2>3, Beginnings
  <2> HIDE DEF d, path
  <2>6. \A n \in 1 .. Len(p) - 1 : IsDir(SubSeq(p, 1, n))
    <3>1. s.depth \in Nat
      BY DEF RunStates
    <3>2. \A n \in 1 .. s.depth - 1 : n \in 1 .. s.depth
      BY <3>1
    <3> QED BY <2>2, <2>4, <2>5, <3>2
  <2> QED BY <2>2, <2>5, <2>6 DEF Reached, OnTheWay
<1>5. CASE CreateArtifact(r) /\ ~UNCHANGED tree
  <2>1. s.pc = "create" /\ tree' = Linked(path, Len(inodes) + 1)
    BY <1>2, <1>5 DEF CreateArtifact, At, Current, Batch, Fails, Files
  <2>2. p = path
    <3> HIDE DEF path
    <3> QED BY <2>1 DEF Linked
  <2> QED BY <1>2, <1>3, <2>1, <2>2 DEF ReachedOK, Walked, Reached, InBatch
<1>6. CASE ~WalkDirectories(r) /\ ~CreateArtifact(r)
  BY <1>6 DEF Publish, OpenOutputRoot, WriteArtifact, SyncArtifact, SyncParent, ReopenArtifact,
     SyncRoot, SystemFailure, Fails, Files
<1> QED BY <1>4, <1>5, <1>6

\* What is on the way stays there.
LEMMA WayStays ==
  ASSUME Inv, NamesOK, [Next]_vars, NEW p, NEW k, OnTheWay(p, k)
  PROVE  OnTheWay(p, k)'
BY DirectoriesStay DEF OnTheWay

\* A run that moves has reached its new depth.
LEMMA WalkedMoves ==
  ASSUME Inv, NamesOK, [Next]_vars, NEW r \in Runs, Publish(r) \/ SystemFailure(r),
         NEW s \in RunStates, s = run[r], Walked(r, s),
         NEW t \in RunStates, t = run'[r], Position(r, t)
  PROVE  Walked(r, t)'
<1> DEFINE path == Batches(r)[s.batch][s.i].path
           next == Batches(r)[t.batch][t.i].path
<1>1. t.pc = "walk" => Len(next) \in Nat /\ Len(next) >= 1
  <2>1. t.pc = "walk" => Batches(r)[t.batch][t.i] \in Items(r)
    BY BatchesTyped DEF Position, InBatch
  <2>2. t.pc = "walk" => next \in Paths
    BY <2>1, ItemPaths
  <2> HIDE DEF next
  <2> QED BY <2>2 DEF Paths, Root
<1>2. ASSUME t.pc = "walk" PROVE t.depth \in 1 .. Len(next) /\ OnTheWay(next, t.depth - 1)'
  <2>1. CASE t.depth = 1
    <3>1. \A n \in 1 .. t.depth - 1 : FALSE
      BY <2>1
    <3> HIDE DEF next
    <3>2. t.depth \in 1 .. Len(next)
      BY <1>1, <1>2, <2>1
    <3> QED BY <3>1, <3>2 DEF OnTheWay
  <2>2. CASE t.depth # 1
    <3>1. /\ s.pc = "walk" /\ path = next
          /\ s.depth # Len(path) /\ t.depth = s.depth + 1
          /\ IsDir(SubSeq(path, 1, s.depth))'
      BY <1>2, <2>2, WalkStep
    <3>2. s.depth \in 1 .. Len(path) /\ OnTheWay(path, s.depth - 1)
      BY <3>1 DEF Walked
    <3> HIDE DEF path, next
    <3>3. OnTheWay(next, s.depth - 1)'
      BY <3>1, <3>2, WayStays
    <3>4. t.depth \in 1 .. Len(next)
      BY <1>1, <1>2, <3>1, <3>2
    <3>5. \A n \in 1 .. t.depth - 1 : n = s.depth \/ n \in 1 .. s.depth - 1
      BY <3>1, <3>2
    <3> QED BY <3>1, <3>3, <3>4, <3>5 DEF OnTheWay
  <2> QED BY <2>1, <2>2
<1>3. ASSUME t.pc = "create" PROVE OnTheWay(next, Len(next) - 1)'
  <2>1. s.pc = "walk" /\ path = next /\ s.depth = Len(path)
    BY <1>3, WalkStep
  <2>2. OnTheWay(path, s.depth - 1)
    BY <2>1 DEF Walked
  <2> HIDE DEF path, next
  <2> QED BY <2>1, <2>2, WayStays
<1>4. Walked(r, t)' <=> /\ t.pc = "walk" => t.depth \in 1 .. Len(next) /\ OnTheWay(next, t.depth - 1)'
                        /\ t.pc = "create" => OnTheWay(next, Len(next) - 1)'
  BY DEF Walked, OnTheWay, Batches
<1> HIDE DEF path, next
<1> QED BY <1>2, <1>3, <1>4

\* Every name is reached through directories, after every step.
LEMMA ReachedPreserved ==
  ASSUME Inv, NamesOK, ReachedOK, [Next]_vars
  PROVE  ReachedOK'
<1>1. \A r \in Runs : run[r] \in RunStates
  BY DEF Inv, RunsOK
<1>2. ASSUME NEW p \in DOMAIN tree' PROVE p \in Paths /\ Reached(p)'
  <2>1. DOMAIN tree' = DOMAIN tree => p \in Paths /\ Reached(p)
    BY DEF ReachedOK
  <2>2. p \in Paths /\ Reached(p)
    BY <2>1, NamesReached DEF Next, ForeignReplace, vars
  <2> QED BY <2>2, WayStays DEF Reached
<1>3. ASSUME NEW q \in Runs, run'[q] = run[q] PROVE Walked(q, run[q])'
  <2>1. PICK u \in RunStates : u = run[q] /\ u = run'[q]
    BY <1>1, <1>3
  <2>2. Walked(q, u)
    BY <2>1 DEF ReachedOK
  <2>3. Walked(q, u)'
    BY <2>2, WayStays DEF Walked
  <2> QED BY <2>1, <2>3 DEF Walked, OnTheWay
<1>4. ASSUME NEW r \in Runs, Publish(r) \/ SystemFailure(r) PROVE \A q \in Runs : Walked(q, run[q])'
  <2>1. Moves(r) /\ Inv'
    BY <1>4, PublishMoves, NextPreserves DEF Inv, FilesOK
  <2>2. PICK s, t \in RunStates : s = run[r] /\ t = run'[r] /\ Position(r, t)
    BY <1>1, <2>1 DEF Moves
  <2>3. Walked(r, t)'
    BY <1>4, <2>2, WalkedMoves DEF ReachedOK
  <2>4. Walked(r, run[r])'
    BY <2>2, <2>3 DEF Walked, OnTheWay
  <2> QED BY <1>3, <2>1, <2>4 DEF Moves
<1>5. \A q \in Runs : Walked(q, run[q])'
  BY <1>3, <1>4 DEF Next, ForeignReplace, vars
<1> QED BY <1>2, <1>5 DEF ReachedOK, Reached, Walked, OnTheWay

-----------------------------------------------------------------------------
(* The root                                                                *)

\* The first name of a path that has more is a directory, on the disk.
Rooted(p) == Len(p) > 1 => /\ SubSeq(p, 1, 1) \in DOMAIN tree /\ tree[SubSeq(p, 1, 1)] = Directory
                           /\ SubSeq(p, 1, 1) \in synced

\* A batch that is over has flushed the root.
RootSynced(r, s) ==
  \A k \in 1 .. Len(Batches(r)) :
    (k < s.batch \/ (k = s.batch /\ s.pc = "done")) =>
      \A j \in 1 .. Len(Batches(r)[k]) : Rooted(Batches(r)[k][j].path)

RootOK == \A r \in Runs : RootSynced(r, run[r])

\* A flushed first name stays so: nobody replaces a directory.
LEMMA RootedStays ==
  ASSUME Inv, NamesOK, [Next]_vars, NEW p, Rooted(p)
  PROVE  Rooted(p)'
<1> DEFINE d == SubSeq(p, 1, 1)
<1>1. CASE Len(p) > 1
  <2>1. PICK e \in DOMAIN tree : e = d /\ tree[e] = Directory /\ e \in synced
    BY <1>1 DEF Rooted
  <2>2. e \in DOMAIN tree' /\ tree'[e] = Directory
    <3>1. ASSUME NEW r \in Runs, Publish(r) \/ SystemFailure(r)
          PROVE  e \in DOMAIN tree' /\ tree'[e] = Directory
      BY <2>1, <3>1, PublishKeepsNames DEF NamesStay
    <3>2. ASSUME NEW q \in DOMAIN tree, ForeignReplace(q)
          PROVE  e \in DOMAIN tree' /\ tree'[e] = Directory
      BY <2>1, <3>2 DEF ForeignReplace, IsFile
    <3> QED BY <2>1, <3>1, <3>2 DEF Next, vars
  <2>3. e \in synced'
    BY <2>1, <2>2, EntryStays
  <2> HIDE DEF d
  <2> QED BY <2>1, <2>2, <2>3 DEF Rooted, d
<1>2. CASE ~(Len(p) > 1)
  BY <1>2 DEF Rooted
<1> QED BY <1>1, <1>2

\* The sync of the root flushes the first name of every named path.
LEMMA RootFlushed ==
  ASSUME ReachedOK, NEW r \in Runs, SyncRoot(r), NEW p \in DOMAIN tree
  PROVE  Rooted(p)'
<1> DEFINE d == SubSeq(p, 1, 1)
<1>1. p \in Paths /\ (Len(p) > 1 => IsDir(d))
  <2>1. p \in Paths /\ \A n \in 1 .. Len(p) - 1 : IsDir(SubSeq(p, 1, n))
    BY DEF ReachedOK, Reached, OnTheWay
  <2>2. Len(p) \in Nat
    BY <2>1 DEF Paths
  <2>3. Len(p) > 1 => 1 \in 1 .. Len(p) - 1
    BY <2>2
  <2> QED BY <2>1, <2>3
<1>2. ASSUME Len(p) > 1 PROVE Front(d) = Root /\ d # Root
  <2>1. p \in Seq(Names) /\ Len(p) \in Nat
    BY <1>1 DEF Paths
  <2>2. 1 \in 1 .. Len(p)
    BY <1>2, <2>1
  <2>3. d \in Paths /\ Len(d) = 1
    BY <1>1, <2>2, Beginnings
  <2> HIDE DEF d
  <2>4. Front(d) = << >>
    BY <2>3 DEF Front, Paths
  <2> QED BY <2>3, <2>4 DEF Root, Paths
<1> HIDE DEF d
<1>3. ASSUME Len(p) > 1 PROVE d \in DOMAIN tree /\ tree[d] = Directory /\ d \in synced'
  BY <1>1, <1>2, <1>3 DEF IsDir, SyncRoot, Entries
<1>4. UNCHANGED tree
  BY DEF SyncRoot
<1> QED BY <1>3, <1>4 DEF Rooted, d

\* Every finished batch has flushed the root, after every step.
LEMMA RootPreserved ==
  ASSUME Inv, NamesOK, ChecksOK, VerifiedSettled, ReachedOK, RootOK, [Next]_vars
  PROVE  RootOK'
<1>1. ASSUME NEW q \in Runs, run'[q] = run[q] PROVE RootSynced(q, run[q])'
  BY <1>1, RootedStays DEF RootOK, RootSynced, Batches
<1>2. ASSUME NEW r \in Runs, Publish(r) \/ SystemFailure(r) PROVE RootSynced(r, run[r])'
  <2>1. PICK s, t \in RunStates : /\ s = run[r] /\ Progress(r, s, t)
                                  /\ run' = [run EXCEPT ![r] = t]
    BY <1>2, StepProgress DEF Inv, RunsOK, FilesOK
  <2>2. t = run'[r] /\ s.batch \in Nat
    BY <2>1 DEF Inv, RunsOK, RunStates
  <2> SUFFICES ASSUME NEW k \in 1 .. Len(Batches(r)),
                      k < t.batch \/ (k = t.batch /\ t.pc = "done"),
                      NEW j \in 1 .. Len(Batches(r)[k])
               PROVE  Rooted(Batches(r)[k][j].path)'
    BY <2>2 DEF RootSynced, Batches
  <2>3. CASE k < s.batch
    BY <2>1, <2>3, RootedStays DEF RootOK, RootSynced
  <2>4. CASE ~(k < s.batch)
    <3>1. s.pc = "root" /\ k = s.batch /\ t.pc # "failed"
      <4>1. Len(Batches(r)) \in Nat /\ k \in Nat
        BY BatchesTyped
      <4> QED BY <2>1, <2>2, <2>4, <4>1 DEF Progress
    <3>2. SyncRoot(r)
      <4>1. ~Fails(r)
        BY <2>1, <2>2, <3>1 DEF Fails, Becomes, RunStates, Inv, RunsOK
      <4> QED BY <1>2, <2>1, <3>1, <4>1 DEF Publish, OpenOutputRoot, WalkDirectories,
              CreateArtifact, WriteArtifact, SyncArtifact, SyncParent, ReopenArtifact,
              SystemFailure, At
    <3>3. Batches(r)[k][j].path \in DOMAIN tree
      <4>1. ItemVerified(r, k, j)
        BY <2>1, <3>1 DEF ChecksOK, Checked, BatchVerified
      <4> QED BY <4>1 DEF ItemVerified, VerifiedSettled
    <3> QED BY <3>2, <3>3, RootFlushed
  <2> QED BY <2>3, <2>4
<1>3. \A r \in Runs : Publish(r) \/ SystemFailure(r) => \A q \in Runs \ {r} : run'[q] = run[q]
  BY PublishMoves DEF Inv, FilesOK, Moves
<1> QED BY <1>1, <1>2, <1>3 DEF RootOK, Next, ForeignReplace, vars

-----------------------------------------------------------------------------
DInv == VInv /\ SettledOK /\ VerifiedSettled /\ ReachedOK /\ RootOK

\* The initial states satisfy the durable invariant.
LEMMA DInitEstablishes == Init => DInv
<1> SUFFICES ASSUME Init PROVE DInv
  OBVIOUS
<1>1. VInv
  BY VInitEstablishes
<1>2. tree = << >> /\ verified = {}
  BY DEF Init
<1>3. \A r \in Runs : run[r].pc = "start" /\ run[r].batch = 1
  <2> SUFFICES ASSUME NEW r \in Runs PROVE run[r].pc = "start" /\ run[r].batch = 1
    OBVIOUS
  <2>1. PICK sp \in Spellings : run[r] = [Idle EXCEPT !.spelled = sp]
    BY DEF Init
  <2> QED BY <2>1 DEF Idle
<1>4. SettledOK
  BY <1>3 DEF SettledOK, Settled, InBatch
<1>5. VerifiedSettled /\ ReachedOK
  BY <1>2, <1>3 DEF VerifiedSettled, ReachedOK, Walked
<1>6. RootOK
  <2>1. \A r \in Runs : \A k \in 1 .. Len(Batches(r)) : ~(k < 1)
    BY BatchesTyped
  <2> QED BY <1>3, <2>1 DEF RootOK, RootSynced
<1> QED BY <1>1, <1>4, <1>5, <1>6 DEF DInv

\* Every step keeps the durable invariant.
LEMMA DNextPreserves == DInv /\ [Next]_vars => DInv'
BY VNextPreserves, SettledPreserved, VerifiedStaysSettled, ReachedPreserved, RootPreserved
   DEF DInv, VInv

\* The durable invariant holds in every behaviour.
LEMMA DInvInvariant == Spec => []DInv
BY DInitEstablishes, DNextPreserves, PTL DEF Spec

\* What a run that reports success published one directory deep or less
\* survives a power loss, unless someone replaced it.
LEMMA DoneIsDurable ==
  ASSUME DInv, NEW r \in Runs, run[r].pc = "done", NEW a \in Published(r), Len(a.path) <= 2
  PROVE  Durable(a) \/ <<r, a.path>> \in overtaken
<1>1. PICK s \in RunStates : s = run[r] /\ s.pc = "done"
  BY DEF DInv, VInv, Inv, RunsOK
<1>2. PICK k \in 1 .. Len(Batches(r)) : \E j \in 1 .. Len(Batches(r)[k]) : a = Batches(r)[k][j]
  BY PublishedItems
<1>3. k = s.batch \/ k \in 1 .. s.batch - 1
  <2>1. Checked(r, s) /\ Len(Batches(r)) \in Nat /\ s.batch \in Nat
    BY <1>1, BatchesTyped DEF DInv, VInv, ChecksOK, RunStates
  <2> QED BY <1>1, <2>1 DEF Checked
<1>4. <<r, a.path>> \in verified
  <2>1. BatchVerified(r, k)
    BY <1>1, <1>3 DEF DInv, VInv, ChecksOK, Checked
  <2> QED BY <1>2, <2>1 DEF BatchVerified, ItemVerified
<1>5. Rooted(a.path)
  <2>1. RootSynced(r, s) /\ s.batch \in Nat
    BY <1>1 DEF DInv, RootOK, RunStates
  <2> QED BY <1>1, <1>2, <1>3, <2>1 DEF RootSynced
<1> SUFFICES ASSUME <<r, a.path>> \notin overtaken PROVE Durable(a)
  OBVIOUS
<1>6. Visible(a) /\ FileSettled(a.path)
  BY <1>4 DEF DInv, VInv, VerifiedOK, VerifiedSettled
<1>7. a.path \in Paths
  BY <1>6 DEF DInv, ReachedOK, FileSettled
<1>8. ASSUME NEW n \in DOMAIN a.path PROVE SubSeq(a.path, 1, n) \in synced
  <2>1. a.path \in Seq(Names) /\ Len(a.path) \in Nat /\ n \in 1 .. Len(a.path)
    BY <1>7, <1>8 DEF Paths
  <2>2. CASE n = Len(a.path)
    <3>1. SubSeq(a.path, 1, n) = a.path
      BY <2>1, <2>2
    <3> QED BY <1>6, <3>1 DEF FileSettled
  <2>3. CASE n # Len(a.path)
    <3>1. n = 1 /\ Len(a.path) > 1
      BY <2>1, <2>3
    <3> QED BY <1>5, <3>1 DEF Rooted
  <2> QED BY <2>2, <2>3
<1> QED BY <1>6, <1>8 DEF Durable, FileSettled, Flushed

\* Success survives a power loss when no artifact lies deeper than one
\* directory: each file, its name and the root were flushed before it was
\* reported.  Without that bound it does not: run publication_deep.
THEOREM SuccessSurvives ==
  ASSUME Shallow
  PROVE  Spec => []SuccessIsDurable
<1>1. DInv => SuccessIsDurable
  BY DoneIsDurable DEF SuccessIsDurable, Shallow
<1> QED BY <1>1, DInvInvariant, PTL

-----------------------------------------------------------------------------
(* Where a visible file comes from                                         *)

\* What a step does to the names and to the files: a name leads where it led,
\* to a directory or to the one new file, which is empty or foreign; and only a
\* write gives a file other bytes.
LEMMA NewNames ==
  ASSUME Inv, [Next]_vars
  PROVE  /\ \A p \in DOMAIN tree' : \/ p \in DOMAIN tree /\ tree'[p] = tree[p]
                                    \/ tree'[p] \in {Directory, Len(inodes) + 1}
         /\ \A n \in DOMAIN inodes' :
              \/ n \in DOMAIN inodes /\ inodes'[n].bytes = inodes[n].bytes
              \/ n = Len(inodes) + 1 /\ inodes'[n].bytes \in {NoBytes, Foreign}
              \/ \E r \in Runs : WriteArtifact(r) /\ n = Owned(r)
<1>1. inodes \in Seq(InodeStates)
  BY DEF Inv, FilesOK
<1>2. ASSUME NEW p, NEW n \in {Directory, Len(inodes) + 1}, tree' = Linked(p, n)
      PROVE  \A q \in DOMAIN tree' : \/ q \in DOMAIN tree /\ tree'[q] = tree[q]
                                     \/ tree'[q] \in {Directory, Len(inodes) + 1}
  BY <1>2 DEF Linked
<1>3. ASSUME NEW r \in Runs, CreateArtifact(r) /\ ~Fails(r)
      PROVE  /\ tree' = Linked(Current(r).path, Len(inodes) + 1)
             /\ \A n \in DOMAIN inodes' :
                  \/ n \in DOMAIN inodes /\ inodes'[n].bytes = inodes[n].bytes
                  \/ n = Len(inodes) + 1 /\ inodes'[n].bytes \in {NoBytes, Foreign}
  <2>1. /\ tree' = Linked(Current(r).path, Len(inodes) + 1)
        /\ inodes' = Append(inodes, [bytes |-> NoBytes, flushed |-> FALSE])
    BY <1>3 DEF CreateArtifact
  <2> QED BY <1>1, <2>1
<1>4. ASSUME NEW r \in Runs, SyncArtifact(r)
      PROVE  UNCHANGED tree /\ \A n \in DOMAIN inodes' : /\ n \in DOMAIN inodes
                                                         /\ inodes'[n].bytes = inodes[n].bytes
  <2>1. \A n \in DOMAIN inodes : inodes[n] \in InodeStates
    BY <1>1
  <2> QED BY <1>4, <2>1 DEF SyncArtifact, InodeStates
<1>5. ASSUME NEW r \in Runs, WriteArtifact(r)
      PROVE  UNCHANGED tree /\ \A n \in DOMAIN inodes' :
                                 \/ n = Owned(r)
                                 \/ n \in DOMAIN inodes /\ inodes'[n].bytes = inodes[n].bytes
  BY <1>5 DEF WriteArtifact
<1>6. ASSUME NEW r \in Runs, WalkDirectories(r)
      PROVE  /\ UNCHANGED inodes
             /\ tree' = tree \/ \E d : tree' = Linked(d, Directory)
  BY <1>6 DEF WalkDirectories, Fails, Files
<1>7. ASSUME NEW p \in DOMAIN tree, ForeignReplace(p)
      PROVE  /\ tree' = [tree EXCEPT ![p] = Len(inodes) + 1]
             /\ \A n \in DOMAIN inodes' :
                  \/ n \in DOMAIN inodes /\ inodes'[n].bytes = inodes[n].bytes
                  \/ n = Len(inodes) + 1 /\ inodes'[n].bytes \in {NoBytes, Foreign}
  <2>1. /\ tree' = [tree EXCEPT ![p] = Len(inodes) + 1]
        /\ inodes' = Append(inodes, [bytes |-> Foreign, flushed |-> FALSE])
    BY <1>7 DEF ForeignReplace
  <2> QED BY <1>1, <2>1
<1>8. ASSUME NEW r \in Runs, \/ OpenOutputRoot(r) \/ SyncParent(r) \/ ReopenArtifact(r)
                             \/ SyncRoot(r) \/ Fails(r)
      PROVE  UNCHANGED <<tree, inodes>>
  BY <1>8 DEF OpenOutputRoot, SyncParent, ReopenArtifact, SyncRoot, Fails, Files
<1>9. CASE UNCHANGED <<tree, inodes>>
  BY <1>9
<1>10. CASE \E p \in DOMAIN tree : ForeignReplace(p)
  BY <1>7, <1>10
<1>11. CASE \E r \in Runs : Publish(r) \/ SystemFailure(r)
  <2>1. PICK r \in Runs : Publish(r) \/ SystemFailure(r)
    BY <1>11
  <2>2. CASE CreateArtifact(r) /\ ~Fails(r)
    BY <1>2, <1>3, <2>2
  <2>3. CASE WalkDirectories(r)
    BY <1>2, <1>6, <2>3
  <2>4. CASE SyncArtifact(r)
    BY <1>4, <2>4
  <2>5. CASE WriteArtifact(r)
    BY <1>5, <2>5
  <2> QED BY <1>8, <1>9, <2>1, <2>2, <2>3, <2>4, <2>5 DEF Publish, SystemFailure
<1> QED BY <1>9, <1>10, <1>11 DEF Next, vars

\* Only its own name leads to the file a run is about to write.
Links(r, s) ==
  s.pc = "write" => \A p \in DOMAIN tree :
                      tree[p] = s.owned[s.i] => p = Batches(r)[s.batch][s.i].path

LinksOK == \A r \in Runs : Links(r, run[r])

\* The name of a file about to be written stays its only one.
LEMMA LinksPreserved ==
  ASSUME Inv, NamesOK, LinksOK, [Next]_vars
  PROVE  LinksOK'
<1>1. \A p \in DOMAIN tree' : \/ p \in DOMAIN tree /\ tree'[p] = tree[p]
                              \/ tree'[p] \in {Directory, Len(inodes) + 1}
  BY NewNames
<1>2. ASSUME NEW q \in Runs, run'[q] = run[q] PROVE Links(q, run[q])'
  <2>1. ASSUME run[q].pc = "write" PROVE run[q].owned[run[q].i] \notin {Directory, Len(inodes) + 1}
    BY <2>1 DEF Inv, FilesOK, At, Owned, Directory
  <2> QED BY <1>1, <1>2, <2>1 DEF LinksOK, Links, Batches
<1>3. ASSUME NEW r \in Runs, Publish(r) \/ SystemFailure(r) PROVE Links(r, run[r])'
  <2>1. PICK s, t \in RunStates : /\ s = run[r] /\ Progress(r, s, t)
                                  /\ run' = [run EXCEPT ![r] = t]
    BY <1>3, StepProgress DEF Inv, RunsOK, FilesOK
  <2>2. t = run'[r]
    BY <2>1 DEF Inv, RunsOK
  <2> SUFFICES ASSUME t.pc = "write", NEW p \in DOMAIN tree', tree'[p] = t.owned[t.i]
               PROVE  p = Batches(r)[t.batch][t.i].path
    BY <2>2 DEF Links, Batches
  <2> DEFINE n == Len(inodes) + 1
             path == Batches(r)[s.batch][s.i].path
  <2>3. /\ s.pc = "create" /\ t.batch = s.batch /\ t.i = s.i
        /\ t.owned = Append(s.owned, n) /\ tree' = Linked(path, n)
    BY <2>1 DEF Progress
  <2>4. s.owned \in Seq(Nat) /\ s.i \in Nat /\ Len(s.owned) = s.i - 1
    BY <2>1, <2>3 DEF RunStates, Inv, RunsOK, Position
  <2>5. n \in Nat /\ \A q \in DOMAIN tree : tree[q] # n
    BY DEF Inv, FilesOK, NamesOK, Directory
  <2> HIDE DEF n, path
  <2>6. t.owned[t.i] = n
    BY <2>3, <2>4, <2>5
  <2>7. p = path
    BY <2>3, <2>5, <2>6 DEF Linked
  <2> QED BY <2>3, <2>7 DEF path
<1>4. \A r \in Runs : Publish(r) \/ SystemFailure(r) => \A q \in Runs \ {r} : run'[q] = run[q]
  BY PublishMoves DEF Inv, FilesOK, Moves
<1> QED BY <1>2, <1>3, <1>4 DEF LinksOK, Next, ForeignReplace, vars

\* Run q has come to a batch with an item that puts bytes b at p.
Wrote(q, p, b) ==
  ~ReservedPath(q) /\ \E k \in 1 .. Len(Batches(q)) :
    k <= run[q].batch /\ \E j \in 1 .. Len(Batches(q)[k]) :
                           Batches(q)[k][j].path = p /\ Batches(q)[k][j].bytes = b

\* A file with bytes that are not foreign is an item of a run.
OriginOK ==
  \A p \in DOMAIN tree :
    tree[p] \in DOMAIN inodes /\ inodes[tree[p]].bytes \notin {NoBytes, Foreign} =>
      \E q \in Runs : Wrote(q, p, inodes[tree[p]].bytes)

\* A run does not go back to an earlier batch.
LEMMA BatchesAdvance ==
  ASSUME Inv, [Next]_vars, NEW q \in Runs, NEW k \in Nat, k <= run[q].batch
  PROVE  k <= run'[q].batch
<1>1. ASSUME NEW r \in Runs, Publish(r) \/ SystemFailure(r) PROVE k <= run'[q].batch
  <2>1. PICK s, t \in RunStates : /\ s = run[r] /\ Progress(r, s, t)
                                  /\ run' = [run EXCEPT ![r] = t]
    BY <1>1, StepProgress DEF Inv, RunsOK, FilesOK
  <2>2. t.batch \in {s.batch, s.batch + 1} /\ s.batch \in Nat
    BY <2>1 DEF Progress, RunStates
  <2>3. run'[q] = IF q = r THEN t ELSE run[q]
    BY <2>1 DEF Inv, RunsOK
  <2>4. k <= s.batch => k <= t.batch
    BY <2>2
  <2> QED BY <2>1, <2>3, <2>4
<1> QED BY <1>1 DEF Next, ForeignReplace, vars

\* What a run writes is an item of the batch it has come to.
LEMMA WriteIsOfItem ==
  ASSUME Inv, ChecksOK, LinksOK, NEW r \in Runs, WriteArtifact(r),
         NEW p \in DOMAIN tree, tree[p] = Owned(r)
  PROVE  Wrote(r, p, inodes'[tree[p]].bytes)
<1>1. PICK s \in RunStates : s = run[r] /\ s.pc = "write"
  BY DEF Inv, RunsOK, WriteArtifact, At
<1>2. /\ s.batch \in 1 .. Len(Batches(r)) /\ s.i \in 1 .. Len(Batches(r)[s.batch])
      /\ ~ReservedPath(r) /\ s.batch <= s.batch
  BY <1>1 DEF Inv, RunsOK, Position, InBatch, ChecksOK, Checked, RunStates
<1>3. p = Batches(r)[s.batch][s.i].path
  BY <1>1 DEF LinksOK, Links, Owned
<1>4. inodes'[tree[p]].bytes = Batches(r)[s.batch][s.i].bytes
  <2>1. Owned(r) \in DOMAIN inodes
    BY <1>1 DEF Inv, FilesOK, At
  <2> QED BY <1>1, <2>1 DEF WriteArtifact, Current, Batch
<1> QED BY <1>1, <1>2, <1>3, <1>4 DEF Wrote

\* Every visible file keeps its origin, and every write has one.
LEMMA OriginPreserved ==
  ASSUME Inv, NamesOK, ChecksOK, LinksOK, OriginOK, [Next]_vars
  PROVE  OriginOK'
<1> SUFFICES ASSUME NEW p \in DOMAIN tree', tree'[p] \in DOMAIN inodes',
                    inodes'[tree'[p]].bytes \notin {NoBytes, Foreign}
             PROVE  \E q \in Runs : Wrote(q, p, inodes[tree[p]].bytes)'
  BY DEF OriginOK
<1>1. Inv' /\ FilesStay
  BY NextPreserves
<1>2. Directory \notin DOMAIN inodes' /\ inodes \in Seq(InodeStates) /\ inodes' \in Seq(InodeStates)
  BY <1>1 DEF Inv, FilesOK, Directory
<1>3. PICK n \in DOMAIN inodes' : n = tree'[p]
  OBVIOUS
<1>4. PICK b : b = inodes'[n].bytes /\ b \notin {NoBytes, Foreign}
  BY <1>3
<1>5. ASSUME NEW q \in Runs, Wrote(q, p, b) PROVE Wrote(q, p, b)'
  <2>1. \A k \in 1 .. Len(Batches(q)) : k <= run[q].batch => k <= run'[q].batch
    BY BatchesTyped, BatchesAdvance
  <2> QED BY <1>5, <2>1 DEF Wrote, ReservedPath, Batches
<1>6. \E q \in Runs : Wrote(q, p, b)
  <2>1. \/ n \in DOMAIN inodes /\ b = inodes[n].bytes
        \/ \E r \in Runs : WriteArtifact(r) /\ n = Owned(r)
    BY <1>4, NewNames
  <2>2. \/ p \in DOMAIN tree /\ n = tree[p]
        \/ n = Len(inodes) + 1
    BY <1>2, <1>3, NewNames
  <2>3. ASSUME NEW r \in Runs, WriteArtifact(r), n = Owned(r) PROVE Wrote(r, p, b)
    <3>1. n \in DOMAIN inodes
      BY <2>3 DEF WriteArtifact, Inv, FilesOK
    <3>2. p \in DOMAIN tree /\ n = tree[p]
      BY <1>2, <2>2, <3>1
    <3> QED BY <1>4, <2>3, <3>2, WriteIsOfItem
  <2>4. ASSUME n \in DOMAIN inodes, b = inodes[n].bytes PROVE \E q \in Runs : Wrote(q, p, b)
    <3>1. p \in DOMAIN tree /\ n = tree[p]
      BY <1>2, <2>2, <2>4
    <3> QED BY <1>4, <2>4, <3>1 DEF OriginOK
  <2> QED BY <2>1, <2>3, <2>4
<1>7. \E q \in Runs : Wrote(q, p, b)'
  BY <1>5, <1>6
<1> QED BY <1>3, <1>4, <1>7 DEF Wrote, ReservedPath, Batches

-----------------------------------------------------------------------------
OInv == DInv /\ LinksOK /\ OriginOK

\* The invariant of the origins holds in every behaviour.
LEMMA OInvInvariant == Spec => []OInv
<1>1. Init => OInv
  <2> SUFFICES ASSUME Init PROVE OInv
    OBVIOUS
  <2>1. tree = << >>
    BY DEF Init
  <2>2. LinksOK /\ OriginOK
    BY <2>1 DEF LinksOK, Links, OriginOK
  <2> QED BY <2>2, DInitEstablishes DEF OInv
<1>2. OInv /\ [Next]_vars => OInv'
  BY DNextPreserves, LinksPreserved, OriginPreserved DEF OInv, DInv, VInv
<1> QED BY <1>1, <1>2, PTL DEF Spec

\* A dispatching run that has come to its artifacts has its receipt on the disk.
LEMMA ReceiptDurable ==
  ASSUME DInv, NEW r \in Dispatches, run[r].batch > 1
  PROVE  LET receipt == [path |-> ReceiptPath, bytes |-> Receipt[r]]
         IN  Durable(receipt) \/ <<r, ReceiptPath>> \in overtaken
<1> DEFINE receipt == [path |-> ReceiptPath, bytes |-> Receipt[r]]
<1>1. r \in Runs
  BY PublicationAssumption
<1>2. Batches(r) = <<<<receipt>>, Artifacts[r]>>
  BY DEF Batches
<1>3. receipt.path = ReceiptPath /\ Batches(r)[1] = <<receipt>> /\ DOMAIN Batches(r) = {1, 2}
  BY <1>2
<1>4. receipt \in Published(r)
  BY <1>3 DEF Published, ToSet
<1>5. <<r, ReceiptPath>> \in verified
  <2>1. run[r].batch \in Nat /\ 1 \in 1 .. run[r].batch - 1
    BY <1>1 DEF DInv, VInv, Inv, RunsOK, RunStates
  <2>2. BatchVerified(r, 1)
    BY <1>1, <2>1 DEF DInv, VInv, ChecksOK, Checked
  <2>3. Len(Batches(r)[1]) = 1 /\ Batches(r)[1][1] = receipt
    BY <1>3
  <2> QED BY <1>3, <2>2, <2>3 DEF BatchVerified, ItemVerified
<1> SUFFICES ASSUME <<r, ReceiptPath>> \notin overtaken PROVE Durable(receipt)
  OBVIOUS
<1>6. Visible(receipt) /\ FileSettled(ReceiptPath)
  BY <1>1, <1>3, <1>4, <1>5 DEF DInv, VInv, VerifiedOK, VerifiedSettled
<1>7. ASSUME NEW n \in DOMAIN ReceiptPath PROVE SubSeq(ReceiptPath, 1, n) \in synced
  <2>1. ReceiptPath \in Seq({ReceiptPath[1]}) /\ Len(ReceiptPath) = 1 /\ n = 1
    BY <1>7 DEF ReceiptPath
  <2>2. SubSeq(ReceiptPath, 1, n) = ReceiptPath
    BY <2>1
  <2> QED BY <1>6, <2>2 DEF FileSettled
<1> HIDE DEF receipt
<1> QED BY <1>3, <1>6, <1>7 DEF Durable, FileSettled, Flushed

\* A visible artifact of a dispatching run is its own, of its second batch.
LEMMA VisibleIsOwn ==
  ASSUME OwnOutputs, OInv, NEW r \in Dispatches, NEW a \in ToSet(Artifacts[r]), Visible(a)
  PROVE  run[r].batch > 1
<1>1. r \in Runs /\ Artifacts[r] \in Seq(Art)
  BY PublicationAssumption DEF Art
<1>2. PICK i \in DOMAIN Artifacts[r] : a = Artifacts[r][i]
  BY DEF ToSet
<1>3. a.bytes # NoBytes /\ a.bytes # Foreign
  <2>1. a \in Art
    BY <1>1, <1>2
  <2> QED BY <2>1, PublicationAssumption DEF Art, OwnOutputs
<1>4. a.path \in DOMAIN tree /\ tree[a.path] \in DOMAIN inodes /\ inodes[tree[a.path]].bytes = a.bytes
  BY DEF Visible, IsFile, OInv, DInv, VInv, NamesOK
<1>5. PICK q \in Runs : Wrote(q, a.path, a.bytes)
  BY <1>3, <1>4 DEF OInv, OriginOK
<1>6. PICK k \in 1 .. Len(Batches(q)) : k <= run[q].batch /\ \E j \in 1 .. Len(Batches(q)[k]) :
        Batches(q)[k][j].path = a.path /\ Batches(q)[k][j].bytes = a.bytes
  BY <1>5 DEF Wrote
<1>7. PICK j \in 1 .. Len(Batches(q)[k]) :
        Batches(q)[k][j].path = a.path /\ Batches(q)[k][j].bytes = a.bytes
  BY <1>6
<1>8. q = r
  <2>1. Batches(q) \in Seq(Seq(Items(q)))
    BY BatchesTyped
  <2>2. k \in DOMAIN Batches(q) /\ j \in DOMAIN Batches(q)[k]
    BY <2>1
  <2>3. Batches(q)[k][j] \in Published(q)
    BY <2>2 DEF Published, ToSet
  <2> QED BY <1>7, <2>3 DEF OwnOutputs
<1>9. k # 1
  <2> SUFFICES ASSUME k = 1 PROVE FALSE
    OBVIOUS
  <2>1. Batches(r)[1] = <<[path |-> ReceiptPath, bytes |-> Receipt[r]]>>
    BY DEF Batches
  <2>2. a.path = ReceiptPath
    BY <1>7, <1>8, <2>1
  <2>3. IsPrefix(ReceiptPath, a.path)
    <3>1. Len(ReceiptPath) <= Len(ReceiptPath)
      BY DEF ReceiptPath
    <3> QED BY <2>2, <3>1 DEF IsPrefix
  <2> QED BY <1>2, <1>5, <1>8, <2>3 DEF Wrote, ReservedPath, Reserved
<1>10. run[r].batch \in Nat /\ Len(Batches(r)) \in {1, 2}
  BY <1>1, BatchesTyped DEF OInv, DInv, VInv, Inv, RunsOK, RunStates
<1> QED BY <1>6, <1>8, <1>9, <1>10

\* No backend output without its audit record: where a visible file tells
\* whose it is, a visible artifact of a run has that run's receipt on the disk,
\* complete, unless someone replaced it, however many runs share the directory
\* and wherever any of them stops.
THEOREM OutputsAreAudited ==
  ASSUME OwnOutputs
  PROVE  Spec => []NoUnauditedOutput
<1>1. OInv => NoUnauditedOutput
  BY VisibleIsOwn, ReceiptDurable DEF NoUnauditedOutput, OInv
<1> QED BY <1>1, OInvInvariant, PTL
=============================================================================
