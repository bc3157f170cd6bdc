-------------------------- MODULE TranscriptStore --------------------------
(***************************************************************************)
(* wire-storage: the bounded queue of gameplay writes, its drain into the  *)
(* SQLite transcript table with its full-text index, and the versioned     *)
(* migrations that create them.  SQLite commits every statement on its     *)
(* own; a statement may fail, and the process may crash between any two.   *)
(***************************************************************************)
EXTENDS Integers, Sequences, FiniteSets

CONSTANTS
  Migrations,     \* sequence of [version, script], a script being the
                  \* sequence of the schema objects its statements create
  Strict,         \* the objects created without IF NOT EXISTS
  Table,          \* the table transcripts, and
  InsertTrigger,  \* its triggers transcripts_ai and transcripts_ad
  DeleteTrigger,
  Profiles,
  QueueMax,       \* WriteQueue.max
  MaxOps,         \* bound: transcript lines offered
  MaxFaults,      \* bound: statements that fail for a reason outside (I/O)
  MaxCrashes      \* bound: crashes of the process

ObjectsOf(i) == {Migrations[i].script[k] : k \in DOMAIN Migrations[i].script}

Versions == {Migrations[i].version : i \in DOMAIN Migrations}

(* The lists the repository passes are in ascending order of version, and  *)
(* the first one creates the table, the index and its triggers.            *)
ASSUME StoreAssumption ==
  /\ Migrations \in Seq([version : Nat \ {0}, script : Seq(STRING)])
  /\ Len(Migrations) > 0
  /\ \A i, j \in DOMAIN Migrations :
       i < j => Migrations[i].version < Migrations[j].version
  /\ {Table, InsertTrigger, DeleteTrigger} \subseteq ObjectsOf(1)
  /\ QueueMax \in Nat
  /\ MaxOps \in Nat
  /\ MaxFaults \in Nat
  /\ MaxCrashes \in Nat

VARIABLES
  objects,        \* durable: schema objects that exist
  versions,       \* durable: rows of wire_schema_version
  rows,           \* durable: the rows of the transcripts table
  index,          \* durable: row numbers in transcripts_fts
  lastSeq,        \* durable: the AUTOINCREMENT counter
  unrecorded,     \* history: lastSeq as it was when the first version was
                  \* recorded
  pc,             \* what the process is doing with the store
  at,             \* migrate: migration, statement, and the version at start
  queue,          \* WriteQueue.ops
  nextOp,         \* history: lines are numbered as they are offered
  accepted,       \* history: lines that enqueue took
  deleted,        \* history: lines that delete_profile removed
  errors,         \* history: appends that failed in drain_into
  crashLost,      \* history: lines that were queued when the process crashed
  faults,         \* faults and crashes so far
  crashes

durable == <<objects, versions, rows, index, lastSeq, unrecorded>>
history == <<nextOp, accepted, deleted, errors, crashLost, faults, crashes>>
vars == <<durable, pc, at, queue, history>>

(* A line: its number, whether its direction passes the table's CHECK, and *)
(* whether it is appended directly, not by way of the queue.               *)
Ops == [id : 1..MaxOps, profile : Profiles, valid : BOOLEAN, direct : BOOLEAN]

(* "down": no process; "open": the store is open and no call is running. *)
Phases == {"down", "open", "migrating", "draining"}

TypeOK ==
  /\ objects \subseteq UNION {ObjectsOf(i) : i \in DOMAIN Migrations}
  /\ versions \subseteq Versions
  /\ rows \subseteq [seq : Nat, op : Ops]
  /\ index \subseteq Nat
  /\ lastSeq \in Nat
  /\ unrecorded \in Nat
  /\ pc \in Phases
  /\ at \in [migration : Nat, statement : Nat, current : Nat]
  /\ queue \in Seq(Ops)
  /\ Len(queue) <= QueueMax
  /\ nextOp \in 1..(MaxOps + 1)
  /\ accepted \subseteq 1..MaxOps
  /\ deleted \subseteq 1..MaxOps
  /\ errors \in Nat
  /\ crashLost \in Nat
  /\ faults \in 0..MaxFaults
  /\ crashes \in 0..MaxCrashes

Nowhere == [migration |-> 0, statement |-> 0, current |-> 0]

Init ==
  /\ objects = {} /\ versions = {} /\ rows = {} /\ index = {} /\ lastSeq = 0
  /\ unrecorded = 0
  /\ pc = "down" /\ at = Nowhere /\ queue = <<>>
  /\ nextOp = 1 /\ accepted = {} /\ deleted = {}
  /\ errors = 0 /\ crashLost = 0 /\ faults = 0 /\ crashes = 0

-----------------------------------------------------------------------------
(* Opening and migrating. *)

Open ==
  /\ pc = "down"
  /\ pc' = "open"
  /\ UNCHANGED <<durable, at, queue, history>>

(* migrate returns, with its result or an error. *)
Return == pc' = "open" /\ at' = Nowhere

(* COALESCE(MAX(version), 0); 0 as well while the table does not exist. *)
CurrentVersion ==
  IF versions = {} THEN 0
                   ELSE CHOOSE v \in versions : \A w \in versions : w <= v

(* What current_version returns: any error of the query counts as 0. *)
ReadVersion(v) ==
  \/ v = CurrentVersion /\ UNCHANGED faults
  \/ v = 0 /\ faults < MaxFaults /\ faults' = faults + 1

BeginMigrate ==
  /\ pc = "open"
  /\ pc' = "migrating"
  /\ \E v \in {0, CurrentVersion} :
       /\ ReadVersion(v)
       /\ at' = [migration |-> 1, statement |-> 1, current |-> v]
  /\ UNCHANGED <<durable, queue, nextOp, accepted, deleted, errors, crashLost,
                 crashes>>

Migrating == pc = "migrating" /\ at.migration \in DOMAIN Migrations

(* Mutant: the migration that was applied last is applied again. *)
AppliedBefore == Migrations[at.migration].version < at.current

AlreadyApplied == Migrations[at.migration].version <= at.current

NextMigration == at' = [at EXCEPT !.migration = @ + 1, !.statement = 1]

SkipMigration ==
  /\ Migrating
  /\ AlreadyApplied
  /\ NextMigration
  /\ UNCHANGED <<durable, pc, queue, history>>

Script == Migrations[at.migration].script

(* One statement of exec_batch; CREATE without IF NOT EXISTS fails if the  *)
(* object exists, and migrate returns the error.                           *)
RunStatement ==
  /\ Migrating
  /\ ~AlreadyApplied
  /\ at.statement \in DOMAIN Script
  /\ LET o == Script[at.statement] IN
       \/ /\ ~(o \in Strict /\ o \in objects)
          /\ objects' = objects \cup {o}
          /\ at' = [at EXCEPT !.statement = @ + 1]
          /\ UNCHANGED pc
       \/ /\ o \in Strict /\ o \in objects
          /\ Return
          /\ UNCHANGED objects
  /\ UNCHANGED <<versions, rows, index, lastSeq, unrecorded, queue, history>>

(* Mutant: the version is recorded before the script ran. *)
RecordVersionFirst ==
  /\ Migrating
  /\ ~AlreadyApplied
  /\ versions' = versions \cup {Migrations[at.migration].version}
  /\ NextMigration
  /\ UNCHANGED <<objects, rows, index, lastSeq, unrecorded, pc, queue,
                 history>>

(* The version is inserted after its script; version is a PRIMARY KEY. *)
RecordVersion ==
  /\ Migrating
  /\ ~AlreadyApplied
  /\ at.statement = Len(Script) + 1
  /\ LET v == Migrations[at.migration].version IN
       IF v \in versions
         THEN Return /\ UNCHANGED versions
         ELSE versions' = versions \cup {v} /\ NextMigration /\ UNCHANGED pc
  /\ UNCHANGED <<objects, rows, index, lastSeq, unrecorded, queue, history>>

EndMigrate ==
  /\ pc = "migrating"
  /\ at.migration = Len(Migrations) + 1
  /\ Return
  /\ UNCHANGED <<durable, queue, history>>

(* A statement of migrate fails for a reason outside, and leaves nothing. *)
MigrateFault ==
  /\ pc = "migrating"
  /\ faults < MaxFaults
  /\ faults' = faults + 1
  /\ Return
  /\ UNCHANGED <<durable, queue, nextOp, accepted, deleted, errors, crashLost,
                 crashes>>

-----------------------------------------------------------------------------
(* Writing. *)

NewOps(direct) ==
  [id : {nextOp}, profile : Profiles, valid : BOOLEAN, direct : {direct}]

(* Mutant: off by one at the limit. *)
QueueHasAlmostRoom == Len(queue) <= QueueMax

QueueHasRoom == Len(queue) < QueueMax

(* drain_into holds the queue for as long as it runs. *)
Enqueue(op) ==
  /\ pc \notin {"down", "draining"}
  /\ nextOp <= MaxOps
  /\ op \in NewOps(FALSE)
  /\ QueueHasRoom
  /\ queue' = Append(queue, op)
  /\ nextOp' = nextOp + 1
  /\ accepted' = accepted \cup {op.id}
  /\ UNCHANGED <<durable, pc, at, deleted, errors, crashLost, faults, crashes>>

(* append_transcript succeeds: the row, and by its trigger, if it has been *)
(* created, the index.                                                     *)
Insertable(op) == Table \in objects /\ op.valid

InsertRow(op) ==
  /\ Insertable(op)
  /\ rows' = rows \cup {[seq |-> lastSeq + 1, op |-> op]}
  /\ index' = IF InsertTrigger \in objects THEN index \cup {lastSeq + 1}
                                           ELSE index
  /\ lastSeq' = lastSeq + 1
  /\ unrecorded' = IF versions = {} THEN lastSeq + 1 ELSE unrecorded
  /\ UNCHANGED <<objects, versions>>

(* Neither this nor what follows asks whether the migrations went through. *)
AppendTranscript(op) ==
  /\ pc = "open"
  /\ nextOp <= MaxOps
  /\ op \in NewOps(TRUE)
  /\ InsertRow(op)
  /\ nextOp' = nextOp + 1
  /\ UNCHANGED <<pc, at, queue, accepted, deleted, errors, crashLost, faults,
                 crashes>>

(* Draining an empty queue changes nothing. *)
BeginDrain ==
  /\ pc = "open"
  /\ queue # <<>>
  /\ pc' = "draining"
  /\ UNCHANGED <<durable, at, queue, history>>

(* drain_into takes the oldest line off and appends it. *)
DrainNext ==
  /\ pc = "draining"
  /\ queue # <<>>
  /\ InsertRow(Head(queue))
  /\ queue' = Tail(queue)
  /\ UNCHANGED <<pc, at, history>>

(* Mutant: a failing drain gives up everything it was to write. *)
NothingAfterFailure == <<>>

(* Mutant: a line that could not be written is queued again. *)
RequeuedAfterFailure == Append(Tail(queue), Head(queue))

(* What a failing append leaves queued: the line it was about is gone. *)
AfterFailure == Tail(queue)

(* The append fails: drain_into returns the error. *)
DrainFails ==
  /\ pc = "draining"
  /\ queue # <<>>
  /\ IF Insertable(Head(queue))
       THEN faults < MaxFaults /\ faults' = faults + 1
       ELSE UNCHANGED faults
  /\ queue' = AfterFailure
  /\ errors' = errors + 1
  /\ pc' = "open"
  /\ UNCHANGED <<durable, at, nextOp, accepted, deleted, crashLost, crashes>>

EndDrain ==
  /\ pc = "draining"
  /\ queue = <<>>
  /\ pc' = "open"
  /\ UNCHANGED <<durable, at, queue, history>>

(* Mutant: the rows go, the index stays. *)
IndexKept(p) == index

RowsOf(p) == {r \in rows : r.op.profile = p}

(* What the delete trigger leaves in the index. *)
IndexWithout(p) ==
  IF DeleteTrigger \in objects THEN index \ {r.seq : r \in RowsOf(p)}
                               ELSE index

DeleteProfile(p) ==
  /\ pc = "open"
  /\ Table \in objects
  /\ rows' = rows \ RowsOf(p)
  /\ index' = IndexWithout(p)
  /\ deleted' = deleted \cup {r.op.id : r \in RowsOf(p)}
  /\ UNCHANGED <<objects, versions, lastSeq, unrecorded, pc, at, queue, nextOp,
                 accepted, errors, crashLost, faults, crashes>>

(* The process dies; what SQLite committed stays. *)
Crash ==
  /\ pc # "down"
  /\ crashes < MaxCrashes
  /\ crashes' = crashes + 1
  /\ pc' = "down"
  /\ queue' = <<>>
  /\ crashLost' = crashLost + Len(queue)
  /\ at' = Nowhere
  /\ UNCHANGED <<durable, nextOp, accepted, deleted, errors, faults>>

Next ==
  \/ Open
  \/ BeginMigrate \/ SkipMigration \/ RunStatement \/ RecordVersion
  \/ EndMigrate \/ MigrateFault
  \/ \E op \in NewOps(FALSE) : Enqueue(op)
  \/ \E op \in NewOps(TRUE) : AppendTranscript(op)
  \/ BeginDrain \/ DrainNext \/ DrainFails \/ EndDrain
  \/ \E p \in Profiles : DeleteProfile(p)
  \/ Crash

Spec == Init /\ [][Next]_vars

(* The host starts the store and calls migrate until it has gone through;  *)
(* a call that was begun comes to its end.                                 *)
FairSpec ==
  /\ Spec
  /\ WF_vars(Open)
  /\ WF_vars(versions # Versions /\ BeginMigrate)
  /\ WF_vars(SkipMigration \/ RunStatement \/ RecordVersion \/ EndMigrate)
  /\ WF_vars(DrainNext \/ DrainFails \/ EndDrain)

-----------------------------------------------------------------------------
(* Properties. *)

(* A version that counts as applied is applied: every statement of it was  *)
(* executed, whatever failed or crashed in between.  migrate skips every   *)
(* version up to the highest one recorded, so it is about all of these.    *)
VersionMeansApplied ==
  \A i \in DOMAIN Migrations :
    Migrations[i].version <= CurrentVersion => ObjectsOf(i) \subseteq objects

(* Search sees exactly what is stored since the first version was recorded *)
(* (init_schema went through once): no such row is missing from the index, *)
(* none that was deleted is left in it, whatever fails or crashes later.   *)
(* Rows appended before may be missing or left, since append_transcript    *)
(* works with half of the schema.                                          *)
IndexMatchesTable ==
  {n \in index : n > unrecorded} =
    {r.seq : r \in {s \in rows : s.seq > unrecorded}}

(* Queued lines reach the table in the order they were queued, each at     *)
(* most once.                                                              *)
TranscriptInOrder ==
  \A r, s \in rows :
    (r.seq < s.seq /\ ~r.op.direct /\ ~s.op.direct) => r.op.id < s.op.id

(* A line that enqueue accepted is queued, stored or deleted, but for one  *)
(* line per error drain_into reported and those a crash found queued.      *)
LinesAccounted ==
  LET present == {queue[k].id : k \in DOMAIN queue} \cup
                 {r.op.id : r \in rows} \cup deleted
  IN  Cardinality(accepted \ present) = errors + crashLost

(* A migrate that was interrupted left an object that cannot be created    *)
(* again, and did not record its version.                                  *)
StrictLeftBehind ==
  /\ pc # "migrating"
  /\ \E i \in DOMAIN Migrations :
       /\ Migrations[i].version \notin versions
       /\ ObjectsOf(i) \cap Strict \cap objects # {}

(* "resumable migrations": a host that starts the store again and calls    *)
(* migrate again gets through all of them, unless an earlier call was      *)
(* interrupted behind a statement that cannot be repeated.                 *)
MigrationsComplete == <>(versions = Versions \/ StrictLeftBehind)

=============================================================================
