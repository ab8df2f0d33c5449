------------------------------ MODULE Migration ------------------------------
(***************************************************************************)
(* The offline import of historical trips (scripts/migration_v1): an       *)
(* inventory of the read-only sources, a backfill in independently         *)
(* committed batches that resumes from a cursor file, and a verification.  *)
(* The target database is live: owners work on imported trips while the    *)
(* import goes on, and the operator's process may die between any two      *)
(* writes.                                                                 *)
(*                                                                         *)
(* A record is its cursor, 1 .. Records in the order of its source key; a  *)
(* checksum is the public projection it is computed from.  The four rows   *)
(* of a record are inserted in one transaction and are one target entry.   *)
(***************************************************************************)
EXTENDS Integers, FiniteSets

CONSTANTS
  Records,          \* number of legacy records
  Copies,           \* configured sources (snapshot files, source database)
  Contents,         \* public projections a record may have
  Owners,           \* tenant/owner decisions a mapping may make
  BatchSize,        \* --batch-size
  MaxInventories,   \* bound on inventories made
  MaxChanges,       \* bound on writes to the sources and to the mapping
  MaxEdits,         \* bound on changes owners make to imported trips
  MaxCrashes,       \* bound on deaths of the backfill process
  Absent            \* no record, row, file or job

VARIABLES
  source,           \* copy -> cursor -> content, or Absent
  mapping,          \* the owner mapping file
  inventory,        \* the inventory file
  target,           \* cursor -> the target rows, or Absent
  manifest,         \* the archive manifest file: cursor -> entry, or Absent
  progress,         \* the state file, or Absent
  job,              \* the running backfill, or Absent
  report,           \* the verdict of the last verification of the inventory
  inventories, changes, edits, crashes

vars == <<source, mapping, inventory, target, manifest, progress, job, report,
          inventories, changes, edits, crashes>>

inputs == <<source, mapping, inventory, inventories, changes>>

Cursors == 1 .. Records

-----------------------------------------------------------------------------
(* Reading the sources. *)

\* All contents some copy has of a record.
Versions(k) == {source[c][k] : c \in Copies} \ {Absent}

\* _merge_records refuses copies that differ.
Mergeable == \A k \in Cursors : Cardinality(Versions(k)) <= 1

\* load_sources: the merged records.
Loaded == [k \in {k \in Cursors : Versions(k) # {}} |->
             CHOOSE c \in Contents : c \in Versions(k)]

\* _validate_source_snapshot: every inventoried record is still there with
\* its checksum; newer records are left to a later inventory.  Mutant: the
\* checksums are not compared.
SnapshotStandsByKeys == DOMAIN inventory.records \subseteq DOMAIN Loaded
SnapshotStands ==
  /\ DOMAIN inventory.records \subseteq DOMAIN Loaded
  /\ \A k \in DOMAIN inventory.records : Loaded[k] = inventory.records[k]

\* The remaining refusals of backfill before it touches anything: a mapping
\* that changed or is incomplete, a state file of another request.
Admissible ==
  /\ inventory # Absent
  /\ Mergeable
  /\ SnapshotStands
  /\ mapping = inventory.mapping
  /\ \A k \in DOMAIN inventory.records : mapping[k] # Absent
  /\ progress # Absent => progress.request = inventory.id

-----------------------------------------------------------------------------
(* The steps of a backfill. *)

\* The records after the state file's cursor, and the next batch of them.
Pending(selected, cursor) == {k \in selected : k > cursor}
Batch(pending) == {k \in pending : Cardinality({j \in pending : j <= k}) <= BatchSize}
Last(batch) == CHOOSE k \in batch : \A j \in batch : j <= k

\* _target_rows.
Rows(k) == [owner |-> mapping[k], content |-> Loaded[k], edit |-> "none"]

\* _insert_or_validate of the four rows: an existing row must be identical,
\* else the batch is refused.  Mutant: it is replaced.
ConflictsNever(k) == FALSE
Conflicts(k) == target[k] # Absent /\ target[k] # Rows(k)

\* The order in which a committed batch is recorded: the manifest's entries,
\* then the cursor.  Mutant: the cursor first.
CursorFirst == <<"progress", "manifest">>
RecordingOrder == <<"manifest", "progress">>

\* backfill up to its first batch; the job keeps the manifest and the state
\* it has read.
Backfill ==
  /\ job = Absent
  /\ Admissible
  /\ job' = [selected |-> DOMAIN inventory.records,
             cursor |-> IF progress = Absent THEN 0 ELSE progress.cursor,
             manifest |-> manifest, request |-> inventory.id, stage |-> "batch"]
  /\ UNCHANGED <<inputs, target, manifest, progress, report, edits, crashes>>

\* One batch in one serializable transaction; a conflict rolls it back and
\* ends the command.
CommitBatch ==
  LET batch == Batch(Pending(job.selected, job.cursor)) IN
  /\ job # Absent
  /\ job.stage = "batch"
  /\ batch # {}
  /\ IF \E k \in batch : Conflicts(k)
       THEN job' = Absent /\ UNCHANGED target
       ELSE /\ target' = [k \in Cursors |->
                            IF k \in batch THEN Rows(k) ELSE target[k]]
            /\ job' = [job EXCEPT
                         !.cursor = Last(batch), !.stage = RecordingOrder[1],
                         !.manifest = [k \in Cursors |->
                            IF k \in batch THEN [source |-> Loaded[k], target |-> Loaded[k]]
                            ELSE @[k]]]
  /\ UNCHANGED <<inputs, manifest, progress, report, edits, crashes>>

\* What follows the recording of a batch in one of the two files.
After(stage) == IF stage = RecordingOrder[1] THEN RecordingOrder[2] ELSE "batch"

\* write_json_atomic of the archive manifest.
WriteManifest ==
  /\ job # Absent
  /\ job.stage = "manifest"
  /\ manifest' = job.manifest
  /\ job' = [job EXCEPT !.stage = After("manifest")]
  /\ UNCHANGED <<inputs, target, progress, report, edits, crashes>>

\* write_json_atomic of the state file.
WriteProgress ==
  /\ job # Absent
  /\ job.stage = "progress"
  /\ progress' = [request |-> job.request, cursor |-> job.cursor, status |-> "in_progress"]
  /\ job' = [job EXCEPT !.stage = After("progress")]
  /\ UNCHANGED <<inputs, target, manifest, report, edits, crashes>>

\* No batch is left: the state file says so, then the manifest.
Complete ==
  /\ job # Absent
  /\ job.stage = "batch"
  /\ Pending(job.selected, job.cursor) = {}
  /\ progress' = [request |-> job.request, cursor |-> job.cursor, status |-> "complete"]
  /\ job' = [job EXCEPT !.stage = "close"]
  /\ UNCHANGED <<inputs, target, manifest, report, edits, crashes>>

Close ==
  /\ job # Absent
  /\ job.stage = "close"
  /\ manifest' = job.manifest
  /\ job' = Absent
  /\ UNCHANGED <<inputs, target, progress, report, edits, crashes>>

\* The process dies; its files and committed batches stay.
Crash ==
  /\ job # Absent
  /\ crashes < MaxCrashes
  /\ crashes' = crashes + 1
  /\ job' = Absent
  /\ UNCHANGED <<inputs, target, manifest, progress, report, edits>>

-----------------------------------------------------------------------------
(* Verification. *)

\* The issues verify finds for an inventoried record: its manifest entry, its
\* rows, their owner and tenant, the trip's current artifact and the three
\* checksums.  (The counts over the whole target, of rows that refer to nothing
\* or to another tenant, are left out: verify refuses more than this.)
\* Mutant: the manifest is believed.
EntryAgrees(k) ==
  manifest[k] # Absent /\ manifest[k].source = Loaded[k] /\ manifest[k].target = Loaded[k]
ReconciledByManifest(k) == EntryAgrees(k)
Reconciled(k) ==
  /\ EntryAgrees(k)
  /\ target[k] # Absent
  /\ target[k].owner = mapping[k]
  /\ target[k].content = Loaded[k]
  /\ target[k].edit # "replanned"

\* verify: refused like a backfill if the inventory no longer stands, else a
\* report; an entry without a record in the inventory is an issue too.
Verify ==
  /\ job = Absent
  /\ inventory # Absent
  /\ Mergeable /\ SnapshotStands /\ mapping = inventory.mapping
  /\ report' = IF /\ \A k \in DOMAIN inventory.records : Reconciled(k)
                  /\ \A k \in Cursors \ DOMAIN inventory.records : manifest[k] = Absent
               THEN "passed" ELSE "issues"
  /\ UNCHANGED <<inputs, target, manifest, progress, job, edits, crashes>>

-----------------------------------------------------------------------------
(* The operator, the sources and the owners. *)

\* build_inventory; as the runbook has it, a new inventory comes with a new
\* state file, so a backfill never meets the state file of another request.
Inventory ==
  /\ job = Absent
  /\ inventories < MaxInventories
  /\ Mergeable
  /\ inventories' = inventories + 1
  /\ inventory' = [id |-> inventories + 1, records |-> Loaded, mapping |-> mapping]
  /\ progress' = Absent
  /\ report' = "none"
  /\ UNCHANGED <<source, mapping, target, manifest, job, changes, edits, crashes>>

\* A source is written although the import expects a frozen copy.  The running
\* job has loaded its records: it is only affected when it starts.
SourceChanges ==
  /\ changes < MaxChanges
  /\ changes' = changes + 1
  /\ job = Absent
  /\ \E c \in Copies, k \in Cursors, x \in Contents \union {Absent} :
       source[c][k] # x /\ source' = [source EXCEPT ![c][k] = x]
  /\ UNCHANGED <<mapping, inventory, inventories, target, manifest, progress, job,
                 report, edits, crashes>>

\* The operator decides on an owner, or on another one.
MappingChanges ==
  /\ changes < MaxChanges
  /\ changes' = changes + 1
  /\ job = Absent
  /\ \E k \in Cursors, o \in Owners :
       mapping[k] # o /\ mapping' = [mapping EXCEPT ![k] = o]
  /\ UNCHANGED <<source, inventory, inventories, target, manifest, progress, job,
                 report, edits, crashes>>

\* An owner renames an imported trip, or replans it, which moves its current
\* artifact: its row changes.
OwnerEdits ==
  /\ edits < MaxEdits
  /\ edits' = edits + 1
  /\ \E k \in Cursors :
       /\ target[k] # Absent
       /\ \E edit \in {"renamed", "replanned"} :
            target' = [target EXCEPT ![k].edit = edit]
  /\ UNCHANGED <<inputs, manifest, progress, job, report, crashes>>

Init ==
  /\ \E c \in Contents : source = [copy \in Copies |-> [k \in Cursors |->
       IF k = 1 THEN Absent ELSE c]]
  /\ \E o \in Owners : mapping = [k \in Cursors |-> IF k = 1 THEN Absent ELSE o]
  /\ inventory = Absent
  /\ target = [k \in Cursors |-> Absent]
  /\ manifest = [k \in Cursors |-> Absent]
  /\ progress = Absent /\ job = Absent /\ report = "none"
  /\ inventories = 0 /\ changes = 0 /\ edits = 0 /\ crashes = 0

Next ==
  \/ Inventory \/ Backfill \/ CommitBatch \/ WriteManifest \/ WriteProgress
  \/ Complete \/ Close \/ Crash \/ Verify \/ SourceChanges \/ MappingChanges \/ OwnerEdits

Spec == Init /\ [][Next]_vars

-----------------------------------------------------------------------------
(* Properties. *)

\* Whatever the state file counts as committed for the present inventory is in
\* the target and has its manifest entry, so a resumed backfill that skips it
\* skips nothing: a crash between the transaction, the manifest and the state
\* file loses no record.
CursorIsCovered ==
  progress # Absent => \A k \in DOMAIN inventory.records :
    k <= progress.cursor => target[k] # Absent /\ manifest[k] # Absent

\* What was imported for the present inventory is what it recorded, and for
\* the owner it recorded, whatever became of the sources in between.
ImportedAsInventoried ==
  progress # Absent => \A k \in DOMAIN inventory.records :
    k <= progress.cursor /\ target[k] # Absent =>
      /\ target[k].content = inventory.records[k]
      /\ target[k].owner = inventory.mapping[k]

\* A verification passes only when every record of the inventory has its trip,
\* with the inventoried content and for the inventoried owner, although the
\* manifest may stem from several inventories and interrupted runs.
PassedMeansImported ==
  [][report # "passed" /\ report' = "passed" =>
       \A k \in DOMAIN inventory.records :
         /\ target[k] # Absent
         /\ target[k].content = inventory.records[k]
         /\ target[k].owner = inventory.mapping[k]]_vars

\* "Conflicting target rows are reported instead of being overwritten": what
\* an owner did to an imported trip survives every later run of the import.
EditsSurvive ==
  [][\A k \in Cursors : target[k] # Absent =>
       target'[k] # Absent /\ (target[k].edit # "none" => target'[k].edit # "none")]_vars

\* The import's promises together: nothing is skipped after a crash, what is imported and
\* verified is what was inventoried, and nobody's work on it is lost.
ImportIsFaithful ==
  /\ [](CursorIsCovered /\ ImportedAsInventoried)
  /\ PassedMeansImported
  /\ EditsSurvive

-----------------------------------------------------------------------------
(* The inductive invariant: what the promises rest on. *)

Trips   == [owner : Owners, content : Contents, edit : {"none", "renamed", "replanned"}]
Entries == [source : Contents, target : Contents]
Stages  == {"batch", "manifest", "progress", "close"}

ImportAssumption ==
  /\ Records \in Nat /\ BatchSize \in Nat \ {0}
  /\ Absent \notin Trips /\ Absent \notin Entries

TypeOK ==
  /\ source \in [Copies -> [Cursors -> Contents \cup {Absent}]]
  /\ mapping \in [Cursors -> Owners \cup {Absent}]
  /\ target \in [Cursors -> Trips \cup {Absent}]
  /\ manifest \in [Cursors -> Entries \cup {Absent}]
  /\ inventory # Absent => DOMAIN inventory.records \subseteq Cursors
  /\ progress # Absent => progress.cursor \in Nat /\ inventory # Absent
  /\ job # Absent =>
       /\ job \in [selected : SUBSET Cursors, cursor : Nat, request : {inventory.id},
                   manifest : [Cursors -> Entries \cup {Absent}], stage : Stages]
       /\ inventory # Absent /\ job.selected = DOMAIN inventory.records

\* A running backfill works on the inventory as it stood when it started: the sources are read,
\* and the mapping is complete.
JobInv ==
  job # Absent =>
    /\ SnapshotStands /\ mapping = inventory.mapping
    /\ \A k \in job.selected : mapping[k] # Absent
\* Up to its cursor everything is imported as inventoried, and in the manifest it keeps.
DoneInv ==
  job # Absent =>
    \A k \in job.selected : k <= job.cursor =>
      /\ target[k] # Absent /\ job.manifest[k] # Absent
      /\ target[k].content = inventory.records[k] /\ target[k].owner = inventory.mapping[k]
\* Its manifest extends the file's, and has been written when the cursor is.
FilesInv ==
  job # Absent =>
    /\ \A k \in Cursors : manifest[k] # Absent => job.manifest[k] # Absent
    /\ job.stage # "manifest" => manifest = job.manifest

IndInv == TypeOK /\ JobInv /\ DoneInv /\ FilesInv /\ CursorIsCovered /\ ImportedAsInventoried
=============================================================================
