-------------------------- MODULE TurboPersistence --------------------------
(***************************************************************************)
(* The on-disk key-value store behind Turbopack's cache: one process opens *)
(* a directory, commits write batches and compactions one at a time, and   *)
(* may be killed, or lose power, between any two of its file operations.   *)
(*                                                                         *)
(* A file is <<kind, seq>>.  disk is what the directory shows now, stable  *)
(* what is sure to survive a power loss; a crash keeps the files in both   *)
(* and an arbitrary part of those in one of them only.  One key family; an *)
(* SST is the entry it holds for each key.                                 *)
(***************************************************************************)
EXTENDS Integers, Sequences, FiniteSets, SequencesExt

CONSTANTS
  Keys,       \* keys of the family
  Batches,    \* what a write batch may write: a subset of [Keys -> Writes]
  MaxBatches, MaxCompactions,  \* bounds: write batches, compactions started
  MaxCrashes, \* bound: crashes
  MaxOdd,     \* bound: files a power loss treats unlike the others
  MaxSeq,     \* bound: sequence numbers
  MaxMergeSegments  \* config.max_merge_segment_count

Writes == {"none", "val", "blob", "deleted"}
ASSUME BatchAssumption == IsFiniteSet(Keys) /\ Batches \subseteq [Keys -> Writes]
ASSUME SeqAssumption == MaxSeq \in Nat

\* s without the elements in K.
Without(s, K) ==
  LET upTo[n \in 0..Len(s)] ==
        IF n = 0 THEN <<>>
        ELSE IF s[n] \in K THEN upTo[n - 1] ELSE Append(upTo[n - 1], s[n])
  IN upTo[Len(s)]

Seqs == 1..MaxSeq
Ascending_Reversed(S) == Without([i \in Seqs |-> MaxSeq + 1 - i], Seqs \ S)
Ascending(S) == Without([i \in Seqs |-> i], Seqs \ S)
Absent == <<"absent", 0>>
NoFile == -2
EmptyFile == -1

VARIABLES
  disk, stable,  \* files in the directory, files that survive a power loss
  data,          \* contents of the files
  current,       \* CURRENT: a number, or EmptyFile (just created), or NoFile
  currentMay,    \* what CURRENT may be found to be after a power loss
  metas,         \* inner.meta_files, oldest first
  seqNo,         \* inner.current_sequence_number
  pc,            \* where the process is: down, idle, or between two steps of
                 \* a commit (active_write_operation is set)
  op,            \* the commit under way (CommitOptions)
  acked,         \* the contents the last acknowledged commit left
  proposed,      \* the contents the commit under way will leave
  readOnlyOpens, \* read-only opens by other processes
  batches, compactions, crashes

fsVars == <<disk, stable, data, current, currentMay>>
memVars == <<metas, seqNo>>
vars == <<fsVars, memVars, pc, op, acked, proposed, readOnlyOpens, batches, compactions, crashes>>

Kinds == {"sst", "meta", "blob", "del"}
Files == Kinds \X Seqs
NoOp == [files |-> {}, meta |-> 0, sstDel |-> {}, metaDel |-> {},
         blobDel |-> {}, seq |-> 0]

-----------------------------------------------------------------------------
(* SstFilter: which SST entries of the loaded meta files are still live.   *)
(* It goes over the meta files from the newest to the oldest and knows the *)
(* SSTs it met as entries, and those it met as obsolete, used or not by an *)
(* older meta file.                                                        *)
EmptyFilter == [active |-> {}, unused |-> {}, obsolete |-> {}]
Known(f) == f.active \cup f.unused \cup f.obsolete

\* apply_filter: entries some newer meta file has or declares obsolete go.
ApplyFilter(f, m) ==
  LET kept == Without(m.entries, Known(f))
      gone == (ToSet(m.entries) \ ToSet(kept)) \cup m.obsoleteEntries
      active == f.active \cup ToSet(kept)
  IN [meta |-> [m EXCEPT !.entries = kept, !.obsoleteEntries = gone],
      filter |-> [active |-> active,
                  unused |-> (f.unused \ gone) \cup (m.obsoleteSst \ (Known(f) \cup active)),
                  obsolete |-> f.obsolete \cup (f.unused \cap gone)]]

\* Phase 1.  Filters(ms)[i]: the filter when ms[i] and all newer ones are done.
Filters(ms) ==
  LET from[i \in 1..Len(ms) + 1] ==
        IF i = Len(ms) + 1 THEN EmptyFilter ELSE ApplyFilter(from[i + 1], ms[i]).filter
  IN from
FilterAll(ms) == [i \in DOMAIN ms |-> ApplyFilter(Filters(ms)[i + 1], ms[i]).meta]

\* Phase 2, apply_and_get_remove: m goes when it has no entry left and no SST
\* that it is the newest to declare obsolete is used.
Removable_IgnoresObsolete(m, used) == m.entries = <<>>
Removable(m, used) == m.entries = <<>> /\ m.obsoleteSst \cap used = {}
\* Used(ms, used)[i]: of the obsolete SSTs that are used, those that neither
\* ms[i] nor a newer one declares.
Used(ms, used) ==
  LET from[i \in 1..Len(ms) + 1] ==
        IF i = Len(ms) + 1 THEN used ELSE from[i + 1] \ ms[i].obsoleteSst
  IN from
Removed(ms, used) == {ms[i] : i \in {j \in DOMAIN ms : Removable(ms[j], Used(ms, used)[j + 1])}}

-----------------------------------------------------------------------------
(* Lookup.                                                                 *)

\* The SSTs in lookup order reversed: meta files oldest first, each one's
\* entries first to last.
LiveSsts(ms) ==
  LET upTo[n \in 0..Len(ms)] ==
        IF n = 0 THEN <<>> ELSE upTo[n - 1] \o ms[n].entries
  IN upTo[Len(ms)]

\* get_impl, and MergeIter: the entry of the newest SST that has the key.  SSTs
\* are opened when they are read: one that is not in the directory is an error.
SstEntry(s, k, dir) == IF <<"sst", s>> \in DOMAIN dir THEN dir[<<"sst", s>>][k] ELSE <<"error", s>>
Newest(ssts, k, dir) ==
  LET hits == {i \in DOMAIN ssts : SstEntry(ssts[i], k, dir) # Absent}
  IN IF hits = {} THEN Absent
     ELSE SstEntry(ssts[CHOOSE i \in hits : \A j \in hits : j <= i], k, dir)

\* What a reader gets: a deleted key looks like one never written.
Visible(e) == IF e[1] = "deleted" THEN Absent ELSE e
Content(ms, dir) ==
  LET ssts == LiveSsts(ms) IN [k \in Keys |-> Visible(Newest(ssts, k, dir))]

\* The files of the directory with their contents.
Dir == [f \in disk |-> data[f]]

Empty == [k \in Keys |-> Absent]

-----------------------------------------------------------------------------
Init ==
  /\ disk = {} /\ stable = {} /\ data = <<>>
  /\ current = NoFile /\ currentMay = {NoFile}
  /\ metas = <<>> /\ seqNo = 0
  /\ pc = "down" /\ op = NoOp
  /\ acked = Empty /\ proposed = Empty
  /\ readOnlyOpens = 0 /\ batches = 0 /\ compactions = 0 /\ crashes = 0

AuxUnchanged == UNCHANGED <<readOnlyOpens, batches, compactions, crashes>>

Put(files) == disk' = disk \cup files
\* The contents of files that neither exist nor may reappear are forgotten.
Forget(d) == [f \in DOMAIN d \cap (disk' \cup stable') |-> d[f]]
\* The contents once the files of new are written over what was there.
Writing(new) == [f \in disk' \cup stable' |-> IF f \in DOMAIN new THEN new[f] ELSE data[f]]

\* init_directory: CURRENT is created, then its four bytes are written;
\* neither is synced.
CreateCurrent ==
  /\ pc = "down" /\ current = NoFile
  /\ current' = EmptyFile /\ currentMay' = currentMay \cup {EmptyFile}
  /\ pc' = "initializing"
  /\ UNCHANGED <<disk, stable, data, memVars, op, acked, proposed>> /\ AuxUnchanged

WriteZero ==
  /\ pc = "initializing"
  /\ current' = 0 /\ currentMay' = currentMay \cup {0}
  /\ UNCHANGED <<disk, stable, data, memVars, op>> /\ AuxUnchanged
  /\ acked' = Content(metas', Dir') /\ proposed' = acked'
  /\ pc' = "idle"

-----------------------------------------------------------------------------
(* load_directory.                                                         *)
DelFiles(c) == {d \in Seqs : <<"del", d>> \in disk /\ d <= c}
Listed(ds) == UNION {data[<<"del", d>>] : d \in ds}
ListedFiles(ss) == {<<kind, s>> : kind \in {"sst", "meta", "blob"}, s \in ss}

\* The files the cleanup removes: everything newer than CURRENT, what a .del
\* file lists, and a .del file none of whose files was left.
Newer_Kept(c) == {}
Newer(c) == {f \in disk : f[2] > c}
Cleanup(c) ==
  Newer(c)
  \cup (disk \cap ListedFiles(Listed(DelFiles(c))))
  \cup {<<"del", d>> : d \in {e \in DelFiles(c) :
                               ListedFiles(Listed({e})) \cap disk = {}}}

\* MetaFile::open.
OpenMeta(s) ==
  [seq |-> s, entries |-> data[<<"meta", s>>].entries,
   obsoleteEntries |-> {}, obsoleteSst |-> data[<<"meta", s>>].obsolete]

LoadedMetas(c) ==
  LET live == {s \in Seqs : <<"meta", s>> \in disk /\ s <= c /\ s \notin Listed(DelFiles(c))}
      sorted == Ascending(live)
  IN FilterAll([i \in DOMAIN sorted |-> OpenMeta(sorted[i])])

\* An empty CURRENT cannot be read: the directory cannot be opened.
Open ==
  /\ pc = "down" /\ current \in Nat
  /\ disk' = disk \ Cleanup(current)
  /\ metas' = LoadedMetas(current)
  /\ seqNo' = current
  /\ UNCHANGED <<stable, data, current, currentMay>> /\ AuxUnchanged
  /\ acked' = Content(metas', Dir') /\ proposed' = acked'
  /\ pc' = "idle" /\ op' = NoOp

\* A second process opens the directory read-only: it passes read_only =
\* FALSE to open_directory, so it cleans up like any other.
OpenReadOnly ==
  /\ current \in Nat /\ readOnlyOpens = 0
  /\ disk' = disk \ Cleanup(current)
  /\ readOnlyOpens' = 1
  /\ UNCHANGED <<stable, data, current, currentMay, memVars, pc, op, acked, proposed, batches, compactions, crashes>>

-----------------------------------------------------------------------------
(* A write batch: put, delete and finish write blobs, SSTs (here one for   *)
(* each key) and a meta file, numbered above the committed sequence number.*)
SetIndex(s, x) == CHOOSE i \in DOMAIN s : s[i] = x
Written(b) == {k \in Keys : b[k] # "none"}
Blobs(b) == {k \in Keys : b[k] = "blob"}
\* Sequence numbers: the blobs, then an SST for each key written, the meta file.
BlobSeq(b, k) == seqNo + SetIndex(SetToSeq(Blobs(b)), k)
SstSeq(b, k) == seqNo + Cardinality(Blobs(b)) + SetIndex(SetToSeq(Written(b)), k)
MetaSeq(b) == seqNo + Cardinality(Blobs(b)) + Cardinality(Written(b)) + 1

Entry(b, k) ==
  CASE b[k] = "none"    -> Absent
    [] b[k] = "val"     -> <<"val", batches + 1>>
    [] b[k] = "blob"    -> <<"blob", BlobSeq(b, k)>>
    [] b[k] = "deleted" -> <<"deleted", 0>>

WriteBatch(b) ==
  LET ssts == {SstSeq(b, k) : k \in Written(b)}
      meta == MetaSeq(b)
      new == {<<"blob", BlobSeq(b, k)>> : k \in Blobs(b)}
             \cup {<<"sst", s>> : s \in ssts} \cup {<<"meta", meta>>}
  IN /\ pc = "idle" /\ batches < MaxBatches /\ meta < MaxSeq
     /\ Put(new) /\ UNCHANGED stable
     /\ data' = Writing([f \in new |->
          CASE f[1] = "sst"  -> [k \in Keys |-> IF k \in Written(b) /\ SstSeq(b, k) = f[2]
                                               THEN Entry(b, k) ELSE Absent]
            [] f[1] = "meta" -> [entries |-> Ascending(ssts), obsolete |-> {}]
            [] OTHER         -> {}])
     /\ op' = [NoOp EXCEPT !.files = new, !.meta = meta, !.seq = meta]
     /\ proposed' = [k \in Keys |-> IF b[k] = "none" THEN acked[k] ELSE Visible(Entry(b, k))]
     /\ pc' = "written" /\ batches' = batches + 1
     /\ UNCHANGED <<current, currentMay, memVars, acked, readOnlyOpens, compactions, crashes>>

\* get_merge_segments: the live SSTs from some point on, cut into consecutive
\* segments at the positions starts; one of a single SST is only moved.
Cut(live, starts) ==
  LET s == Ascending(starts)
  IN [i \in DOMAIN s |->
        SubSeq(live, s[i], IF i = Len(s) THEN Len(live) ELSE s[i + 1] - 1)]
Segments_NoMoves(live, starts) == SelectSeq(Cut(live, starts), LAMBDA seg : Len(seg) > 1)
Segments(live, starts) == Cut(live, starts)

\* The singles at the old end need no move.
IsMergeJob(segs) ==
  /\ segs # <<>> /\ Len(Head(segs)) > 1
  /\ Cardinality({i \in DOMAIN segs : Len(segs[i]) > 1}) <= MaxMergeSegments
MergeJobs(live) ==
  {segs \in {Segments(live, starts) : starts \in SUBSET DOMAIN live} : IsMergeJob(segs)}

\* MergeIter: of the entries of a key, the one of the newest SST is kept and
\* the blobs of the others are superseded.
SupersededBlobs(seg) ==
  {e[2] : e \in UNION {{x \in {SstEntry(s, k, Dir) : s \in ToSet(seg)} :
                           x # Newest(seg, k, Dir) /\ x[1] = "blob"} : k \in Keys}}

\* compact: the SSTs of each segment are merged into one; the new meta file
\* lists the results in the order of the segments.
Compact(segs) ==
  LET merged == {i \in DOMAIN segs : Len(segs[i]) > 1}
      out == [i \in DOMAIN segs |->
                IF i \in merged THEN seqNo + Cardinality({j \in merged : j <= i})
                ELSE Head(segs[i])]
      meta == seqNo + Cardinality(merged) + 1
      obsolete == UNION {ToSet(segs[i]) : i \in merged}
      new == {<<"sst", out[i]>> : i \in merged} \cup {<<"meta", meta>>}
  IN /\ compactions < MaxCompactions /\ meta < MaxSeq
     /\ Put(new) /\ UNCHANGED stable
     /\ data' = Writing([f \in new |->
          IF f[1] = "meta" THEN [entries |-> out, obsolete |-> obsolete]
          ELSE LET i == CHOOSE i \in merged : out[i] = f[2]
               IN [k \in Keys |-> Newest(segs[i], k, Dir)]])
     /\ op' = [NoOp EXCEPT !.files = new, !.meta = meta, !.seq = meta, !.sstDel = obsolete,
                           !.blobDel = UNION {SupersededBlobs(segs[i]) : i \in merged}]
     /\ proposed' = acked
     /\ pc' = "written" /\ compactions' = compactions + 1
     /\ UNCHANGED <<current, currentMay, memVars, acked, readOnlyOpens, batches, crashes>>

-----------------------------------------------------------------------------
(* commit.                                                                 *)
OpUnchanged == UNCHANGED <<acked, proposed>> /\ AuxUnchanged

\* The new files and then the directory are synced.
SyncFiles ==
  /\ pc = "written"
  /\ stable' = disk
  /\ currentMay' = currentMay \ {NoFile}
  /\ data' = [f \in disk |-> data[f]]
  /\ pc' = "synced"
  /\ UNCHANGED <<disk, current, memVars, op>> /\ OpUnchanged

NewMeta == OpenMeta(op.meta)

\* Under the write lock: the filter is applied to the new meta file and to
\* the loaded ones, superseded meta files are dropped, and one more sequence
\* number is taken when there is something to delete.
Publish ==
  LET all == Append(metas, NewMeta)
      filtered == FilterAll(all)
      removed == Removed(filtered, Filters(all)[1].obsolete)
      metaDel == {m.seq : m \in removed}
      hasDelete == op.sstDel \cup op.blobDel \cup metaDel # {}
  IN /\ pc = "synced"
     /\ metas' = Without(filtered, removed)
     /\ op' = [op EXCEPT !.metaDel = metaDel, !.seq = IF hasDelete THEN @ + 1 ELSE @]
     /\ seqNo' = op'.seq
     /\ pc' = IF hasDelete THEN "published" ELSE "delWritten"
     /\ UNCHANGED fsVars /\ OpUnchanged

\* The .del file is written and synced, but not its directory entry.
WriteDel ==
  /\ pc = "published"
  /\ Put({<<"del", op.seq>>}) /\ UNCHANGED stable
  /\ data' = Writing([f \in {<<"del", op.seq>>} |-> op.sstDel \cup op.metaDel \cup op.blobDel])
  /\ pc' = "delWritten"
  /\ UNCHANGED <<current, currentMay, memVars, op>> /\ OpUnchanged

WriteCurrent ==
  /\ pc = "delWritten"
  /\ current' = op.seq /\ currentMay' = currentMay \cup {op.seq}
  /\ pc' = "currentWritten"
  /\ UNCHANGED <<disk, stable, data, memVars, op>> /\ OpUnchanged

SyncCurrent ==
  /\ pc = "currentWritten"
  /\ currentMay' = {current}
  /\ pc' = "currentSynced"
  /\ UNCHANGED <<disk, stable, data, current, memVars, op>> /\ OpUnchanged

OfKind(kind, S) == [i \in DOMAIN Ascending(S) |-> <<kind, Ascending(S)[i]>>]
Superseded ==
  OfKind("sst", op.sstDel) \o OfKind("meta", op.metaDel) \o OfKind("blob", op.blobDel)

\* The superseded files are removed and the operation ends: active_write_
\* operation is reset and the caller is told.
RemoveAndFinish ==
  /\ pc = "currentSynced"
  /\ disk' = disk \ ToSet(Superseded)
  /\ acked' = proposed
  /\ pc' = "idle" /\ op' = NoOp
  /\ UNCHANGED <<stable, data, current, currentMay, memVars, proposed>> /\ AuxUnchanged

\* Any step of a commit may return an error, the removals after some of them:
\* active_write_operation is never reset, so the process can only read until
\* it exits.
Fail ==
  /\ pc \in {"written", "synced", "published", "delWritten", "currentWritten", "currentSynced"}
  /\ \E n \in IF pc = "currentSynced" THEN 0..Len(Superseded) ELSE {0} :
       disk' = disk \ ToSet(SubSeq(Superseded, 1, n))
  /\ pc' = "failed"
  /\ UNCHANGED <<stable, data, current, currentMay, memVars, op>> /\ OpUnchanged

\* The sets of at most MaxOdd elements of S.
Few(S) == {{}} \cup {ToSet(t) : t \in [1..MaxOdd -> S]}
Unstable == (disk \cup stable) \ (disk \cap stable)

\* The process exits or the machine loses power.  Bound: of the files that may
\* be there or not afterwards, at most MaxOdd are, or at most MaxOdd are not.
\* Assumption: a file system that loses the creation of CURRENT, the first file,
\* has lost the later ones too; init_directory would not clean them up.
Crash ==
  /\ pc # "down" /\ crashes < MaxCrashes
  /\ \E odd \in Few(Unstable) :
       \/ disk' = (disk \cap stable) \cup odd
       \/ disk' = (disk \cup stable) \ odd
  /\ stable' = disk' /\ data' = Forget(data)
  /\ current' \in currentMay /\ currentMay' = {current'}
  /\ current' = NoFile => disk' = {}
  /\ metas' = <<>> /\ seqNo' = 0
  /\ pc' = "down" /\ op' = NoOp /\ crashes' = crashes + 1
  /\ UNCHANGED <<acked, proposed, readOnlyOpens, batches, compactions>>

Commit == SyncFiles \/ Publish \/ WriteDel \/ WriteCurrent \/ SyncCurrent \/ RemoveAndFinish

Next ==
  \/ CreateCurrent \/ WriteZero \/ Open
  \/ \E b \in Batches : WriteBatch(b)
  \/ pc = "idle" /\ \E segs \in MergeJobs(LiveSsts(metas)) : Compact(segs)
  \/ Commit \/ Fail \/ Crash

Spec == Init /\ [][Next]_vars

\* The same with a process that opens the directory read-only.
SpecWithReader == Init /\ [][Next \/ OpenReadOnly]_vars

-----------------------------------------------------------------------------
(* Properties.                                                             *)

\* Types; inner.meta_files is in the order of the sequence numbers.
TypeOK ==
  /\ disk \subseteq Files /\ stable \subseteq Files
  /\ DOMAIN data = disk \cup stable
  /\ current \in Nat \cup {NoFile, EmptyFile} /\ current \in currentMay
  /\ seqNo \in 0..MaxSeq
  /\ op.files \subseteq Files /\ op.seq \in 0..MaxSeq
  /\ \A i, j \in DOMAIN metas : i < j => metas[i].seq < metas[j].seq

Up == pc \notin {"down", "initializing"}

\* Readers see a commit exactly from the moment the write lock publishes it,
\* whole, and never see a compaction at all.
ReadersSeeCommits ==
  (Up /\ pc # "failed") =>
    Content(metas, Dir) = IF pc \in {"idle", "written", "synced"} THEN acked ELSE proposed

\* What a reader follows is there: the SST of every live entry, and the
\* blob of every entry a lookup can return.
NoDanglingReference ==
  Up => /\ \A s \in ToSet(LiveSsts(metas)) : <<"sst", s>> \in disk
        /\ \A k \in Keys : LET e == Newest(LiveSsts(metas), k, Dir)
                           IN e[1] = "blob" => <<"blob", e[2]>> \in disk

\* Atomic and durable commits: opening the directory after any crash finds
\* what the last acknowledged commit left, or all of the one under way.
RecoveredIsCommitted ==
  [][(pc \in {"down", "initializing"} /\ pc' = "idle") => Content(metas', Dir') \in {acked, proposed}]_vars

\* "If true ... no modification on the database is performed."
ReadOnlyOpenModifiesNothing ==
  [][readOnlyOpens' # readOnlyOpens => disk' = disk]_vars

=============================================================================
