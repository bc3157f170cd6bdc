----------------------- MODULE TranscriptStoreProofs ------------------------
(***************************************************************************)
(* Proofs about the transcript store, for every ascending list of          *)
(* migrations, every capacity of the queue and every number of lines,      *)
(* faults and crashes.                                                     *)
(***************************************************************************)
EXTENDS TranscriptStore, SequenceTheorems, FiniteSetTheorems, TLAPS

N == Len(Migrations)

(* The versions of the first k migrations, and the highest of them. *)
Prefix(k) == {Migrations[i].version : i \in 1..k}
LastOf(k) == IF k = 0 THEN 0 ELSE Migrations[k].version

(* The first k migrations are applied and recorded, and no other recorded. *)
Applied(k) ==
  /\ k \in 0..N
  /\ versions = Prefix(k)
  /\ \A i \in 1..k : ObjectsOf(i) \subseteq objects

(* A running migrate that could not read the version repeats the first     *)
(* migration, whose version it will fail to insert.                        *)
Misread(k) ==
  /\ k # 0
  /\ at.current = 0
  /\ at.migration = 1
  /\ at.statement \in 1..(Len(Script) + 1)

(* Another that found k0 of them applied is skipping these, or is at the   *)
(* next one and has executed its statements up to at.statement.            *)
Resumed(k) ==
  \E k0 \in 0..k :
    /\ at.current = LastOf(k0)
    /\ at.migration <= k0 => k = k0
    /\ at.migration > k0 => k = at.migration - 1
    /\ at.migration \in (k0 + 1)..N =>
         /\ at.statement \in 1..(Len(Script) + 1)
         /\ \A n \in 1..(at.statement - 1) : Script[n] \in objects

MigrationInv ==
  \E k \in 0..N :
    /\ Applied(k)
    /\ pc = "migrating" =>
         at.migration \in 1..(N + 1) /\ (Misread(k) \/ Resumed(k))

(* Row numbers name rows, and lines are numbered in order: those in the    *)
(* table by way of the queue before those in the queue before the next.    *)
LineOrder ==
  /\ \A r \in rows : r.seq <= lastSeq /\ r.op.id < nextOp
  /\ \A r, s \in rows : r.seq = s.seq => r = s
  /\ \A i \in DOMAIN queue : queue[i].id < nextOp /\ ~queue[i].direct
  /\ \A i, j \in DOMAIN queue : i < j => queue[i].id < queue[j].id
  /\ \A r \in rows, i \in DOMAIN queue : ~r.op.direct => r.op.id < queue[i].id

(* The index is about row numbers in use; and before the first version is  *)
(* recorded, when there may be no triggers, no row counts for it.          *)
IndexInv ==
  /\ IndexMatchesTable
  /\ \A n \in index : n <= lastSeq
  /\ unrecorded <= lastSeq
  /\ versions = {} => unrecorded = lastSeq

LinesInv == IndexInv /\ TranscriptInOrder /\ LineOrder

IInv == TypeOK /\ MigrationInv /\ LinesInv

-----------------------------------------------------------------------------
(* Versions and migrations. *)

(* The list is a sequence of migrations. *)
LEMMA MigrationsAreTyped ==
  /\ N \in Nat \ {0} /\ DOMAIN Migrations = 1..N
  /\ \A i \in 1..N : /\ Migrations[i].version \in Nat \ {0}
                     /\ Migrations[i].script \in Seq(STRING)
                     /\ Len(Migrations[i].script) \in Nat
                     /\ DOMAIN Migrations[i].script = 1..Len(Migrations[i].script)
<1> DEFINE M == [version : Nat \ {0}, script : Seq(STRING)]
<1>1. Migrations \in Seq(M) /\ Len(Migrations) > 0
  BY StoreAssumption
<1>2. N \in Nat \ {0} /\ DOMAIN Migrations = 1..N
  BY <1>1, LenProperties DEF N
<1>3. \A i \in 1..N : Migrations[i] \in M
  BY <1>1, <1>2, ElementOfSeq DEF N
<1>4. \A i \in 1..N : /\ Migrations[i].version \in Nat \ {0}
                      /\ Migrations[i].script \in Seq(STRING)
  BY <1>3
<1>5. \A s \in Seq(STRING) : Len(s) \in Nat /\ DOMAIN s = 1..Len(s)
  BY LenProperties
<1> QED
  BY <1>2, <1>4, <1>5

(* Versions ascend with the places in the list. *)
LEMMA VersionsAscend ==
  \A i, j \in 1..N : i < j => Migrations[i].version < Migrations[j].version
BY MigrationsAreTyped, StoreAssumption

(* A version is at most that of the k-th migration if it is one of the     *)
(* first k.                                                                *)
LEMMA UpToLast ==
  ASSUME NEW k \in 0..N, NEW i \in 1..N
  PROVE  /\ LastOf(k) \in Nat
         /\ Migrations[i].version <= LastOf(k) <=> i <= k
<1>1. /\ N \in Nat
      /\ \A j \in 1..N : Migrations[j].version \in Nat \ {0}
  BY MigrationsAreTyped
<1>2. CASE k = 0
  BY <1>1, <1>2 DEF LastOf
<1>3. CASE k # 0
  <2>1. k \in 1..N /\ LastOf(k) = Migrations[k].version
    BY <1>1, <1>3 DEF LastOf
  <2>2. CASE i < k
    BY <1>1, <2>1, <2>2, VersionsAscend
  <2>3. CASE i = k
    BY <1>1, <2>1, <2>3
  <2>4. CASE k < i
    BY <1>1, <2>1, <2>4, VersionsAscend
  <2> QED
    BY <1>1, <2>1, <2>2, <2>3, <2>4
<1> QED
  BY <1>2, <1>3

(* The highest version recorded is that of the last migration applied. *)
LEMMA CurrentIsLast ==
  ASSUME NEW k \in 0..N, Applied(k)
  PROVE  CurrentVersion = LastOf(k)
<1>1. /\ N \in Nat
      /\ \A j \in 1..N : Migrations[j].version \in Nat \ {0}
  BY MigrationsAreTyped
<1>2. versions = Prefix(k)
  BY DEF Applied
<1>3. CASE k = 0
  <2>1. versions = {}
    BY <1>2, <1>3 DEF Prefix
  <2> QED
    BY <1>3, <2>1 DEF CurrentVersion, LastOf
<1>4. CASE k # 0
  <2> DEFINE v == Migrations[k].version
  <2>1. k \in 1..N /\ LastOf(k) = v
    BY <1>1, <1>4 DEF LastOf
  <2>2. v \in versions
    BY <1>1, <1>2, <2>1 DEF Prefix
  <2>3. ASSUME NEW w \in versions PROVE w <= v /\ w \in Nat
    <3>1. PICK i \in 1..k : w = Migrations[i].version
      BY <1>2, <2>3 DEF Prefix
    <3>2. i \in 1..N /\ i <= k
      BY <1>1, <2>1
    <3> QED
      BY <1>1, <2>1, <3>1, <3>2, UpToLast
  <2>4. v \in Nat
    BY <1>1, <2>1
  <2>5. \A u \in versions : (\A w \in versions : w <= u) => u = v
    BY <2>2, <2>3, <2>4
  <2> HIDE DEF v
  <2>6. (CHOOSE u \in versions : \A w \in versions : w <= u) = v
    BY <2>2, <2>3, <2>5
  <2> QED
    BY <2>1, <2>2, <2>6 DEF CurrentVersion
<1> QED
  BY <1>3, <1>4

(* A step that writes neither schema nor versions and does not migrate. *)
LEMMA SchemaUntouched ==
  ASSUME MigrationInv, UNCHANGED <<objects, versions>>,
         UNCHANGED <<pc, at>> \/ pc' # "migrating"
  PROVE  MigrationInv'
<1>1. PICK k \in 0..N :
        /\ Applied(k)
        /\ pc = "migrating" =>
             at.migration \in 1..(N + 1) /\ (Misread(k) \/ Resumed(k))
  BY DEF MigrationInv
<1>2. Applied(k)'
  BY <1>1 DEF Applied
<1>3. CASE UNCHANGED <<pc, at>>
  <2>1. pc' = "migrating" =>
          at'.migration \in 1..(N + 1) /\ (Misread(k)' \/ Resumed(k)')
    BY <1>1, <1>3 DEF Misread, Resumed, Script
  <2> QED
    BY <1>1, <1>2, <1>3, <2>1 DEF MigrationInv
<1>4. CASE pc' # "migrating"
  BY <1>1, <1>2, <1>4 DEF MigrationInv
<1> QED
  BY <1>3, <1>4

(* The number of migrations applied when migrate starts is where it        *)
(* resumes, if it can read the version.                                    *)
LEMMA BeginMigrateKeeps ==
  ASSUME TypeOK, MigrationInv, BeginMigrate
  PROVE  /\ MigrationInv'
         /\ at' \in [migration : Nat, statement : Nat, current : Nat]
         /\ faults' \in 0..MaxFaults
<1>1. PICK k \in 0..N : Applied(k)
  BY DEF MigrationInv
<1>2. /\ N \in Nat \ {0} /\ k \in Nat
      /\ LastOf(k) \in Nat
      /\ Len(Migrations[1].script) \in Nat
  BY MigrationsAreTyped, UpToLast
<1>3. PICK v \in {0, LastOf(k)} :
        /\ at' = [migration |-> 1, statement |-> 1, current |-> v]
        /\ ReadVersion(v)
  BY <1>1, CurrentIsLast DEF BeginMigrate
<1>4. pc' = "migrating" /\ UNCHANGED <<objects, versions>>
  BY DEF BeginMigrate, durable
<1>5. Applied(k)'
  BY <1>1, <1>4 DEF Applied
<1>6. /\ at'.migration = 1 /\ at'.statement = 1 /\ at'.current = v
      /\ at' \in [migration : Nat, statement : Nat, current : Nat]
  BY <1>2, <1>3
<1>7. Script' = Migrations[1].script
  BY <1>6 DEF Script
<1>8. at'.statement \in 1..(Len(Script') + 1)
  BY <1>2, <1>6, <1>7
<1>9. ASSUME v = LastOf(k) PROVE Resumed(k)'
  <2>1. k \in 0..k
    BY <1>2
  <2>2. at'.migration > k => k = at'.migration - 1
    BY <1>2, <1>6
  <2>3. \A n \in 1..(at'.statement - 1) : Script'[n] \in objects'
    BY <1>6
  <2> QED
    BY <1>6, <1>8, <1>9, <2>1, <2>2, <2>3 DEF Resumed
<1>10. ASSUME v # LastOf(k) PROVE Misread(k)'
  <2>1. v = 0 /\ k # 0
    BY <1>3, <1>10 DEF LastOf
  <2> QED
    BY <1>6, <1>8, <2>1 DEF Misread
<1>11. Resumed(k)' \/ Misread(k)'
  BY <1>9, <1>10
<1>12. faults' \in 0..MaxFaults
  BY <1>3, StoreAssumption DEF ReadVersion, TypeOK
<1> QED
  BY <1>2, <1>4, <1>5, <1>6, <1>11, <1>12 DEF MigrationInv

(* Where a running migrate is, in terms of the number of migrations that   *)
(* were applied when it started and are applied now.                       *)
LEMMA MigratingState ==
  ASSUME TypeOK, MigrationInv, Migrating
  PROVE  \E k \in 0..N, k0 \in 0..N :
           /\ Applied(k) /\ k0 <= k
           /\ at.migration \in 1..N
           /\ at.current = LastOf(k0)
           /\ \/ AlreadyApplied /\ at.migration <= k0 /\ k = k0
              \/ ~AlreadyApplied /\ Misread(k)
              \/ /\ ~AlreadyApplied
                 /\ at.migration > k0 /\ k = at.migration - 1
                 /\ at.statement \in 1..(Len(Script) + 1)
                 /\ \A n \in 1..(at.statement - 1) : Script[n] \in objects
<1>1. PICK k \in 0..N : /\ Applied(k) /\ (Misread(k) \/ Resumed(k))
                       /\ at.migration \in 1..N
  BY MigrationsAreTyped DEF MigrationInv, Migrating
<1>2. N \in Nat /\ k \in Nat
  BY MigrationsAreTyped
<1>3. CASE Misread(k)
  <2>1. at.current = 0 /\ 0 \in 0..N
    BY <1>2, <1>3 DEF Misread
  <2>2. LastOf(0) = 0 /\ 0 <= k
    BY <1>2 DEF LastOf
  <2>3. ~AlreadyApplied
    BY <1>1, <2>1, MigrationsAreTyped DEF AlreadyApplied
  <2> QED
    BY <1>1, <1>3, <2>1, <2>2, <2>3
<1>4. CASE Resumed(k)
  <2>1. PICK k0 \in 0..k :
          /\ at.current = LastOf(k0)
          /\ at.migration <= k0 => k = k0
          /\ at.migration > k0 => k = at.migration - 1
          /\ at.migration \in (k0 + 1)..N =>
               /\ at.statement \in 1..(Len(Script) + 1)
               /\ \A n \in 1..(at.statement - 1) : Script[n] \in objects
    BY <1>4 DEF Resumed
  <2>2. k0 \in 0..N /\ k0 <= k
    BY <1>2
  <2>3. AlreadyApplied <=> at.migration <= k0
    BY <1>1, <2>1, <2>2, UpToLast DEF AlreadyApplied
  <2>4. at.migration > k0 => at.migration \in (k0 + 1)..N
    BY <1>1, <1>2, <2>2
  <2>5. at.migration <= k0 \/ at.migration > k0
    BY <1>1, <2>2
  <2> QED
    BY <1>1, <2>1, <2>2, <2>3, <2>4, <2>5
<1> QED
  BY <1>1, <1>3, <1>4

(* Where migrate leaves its place when it returns. *)
LEMMA ReturnLeaves ==
  ASSUME Return
  PROVE  /\ pc' = "open" /\ pc' \in Phases
         /\ at' \in [migration : Nat, statement : Nat, current : Nat]
BY DEF Return, Nowhere, Phases

(* The three fields of at after a step of migrate. *)
LEMMA NextMigrationMoves ==
  ASSUME TypeOK, NextMigration
  PROVE  /\ at'.migration = at.migration + 1
         /\ at'.statement = 1
         /\ at'.current = at.current
         /\ at' \in [migration : Nat, statement : Nat, current : Nat]
<1>1. at \in [migration : Nat, statement : Nat, current : Nat]
  BY DEF TypeOK
<1>2. at' = [migration |-> at.migration + 1, statement |-> 1,
             current |-> at.current]
  BY <1>1 DEF NextMigration
<1> QED
  BY <1>1, <1>2

(* migrate moves on behind a migration that is applied: skipped, or just   *)
(* recorded.                                                               *)
LEMMA MovedOn ==
  ASSUME TypeOK, NEW k \in 0..N, NEW k0 \in 0..N, k0 <= k,
         at.migration \in 1..N, at.current = LastOf(k0),
         Applied(k)', NextMigration, pc' = "migrating",
         \/ at.migration <= k0 /\ k = k0
         \/ at.migration > k0 /\ k = at.migration
  PROVE  MigrationInv'
<1>1. /\ N \in Nat /\ k \in Nat /\ k0 \in 0..k
      /\ \A i \in 1..N : Len(Migrations[i].script) \in Nat
  BY MigrationsAreTyped
<1>2. /\ at'.migration = at.migration + 1
      /\ at'.statement = 1
      /\ at'.current = at.current
  BY NextMigrationMoves
<1>3. /\ at'.migration <= k0 => k = k0
      /\ at'.migration > k0 => k = at'.migration - 1
      /\ at'.migration \in 1..(N + 1)
  BY <1>1, <1>2
<1>4. ASSUME at'.migration \in (k0 + 1)..N
      PROVE  /\ at'.statement \in 1..(Len(Script') + 1)
             /\ \A n \in 1..(at'.statement - 1) : Script'[n] \in objects'
  <2>1. at'.migration \in 1..N /\ Script' = Migrations[at'.migration].script
    BY <1>1, <1>4 DEF Script
  <2> QED
    BY <1>1, <1>2, <2>1
<1>5. Resumed(k)'
  BY <1>1, <1>2, <1>3, <1>4 DEF Resumed
<1> QED
  BY <1>3, <1>5 DEF MigrationInv

(* Skipping a migration that was applied. *)
LEMMA SkipMigrationKeeps ==
  ASSUME TypeOK, MigrationInv, SkipMigration
  PROVE  MigrationInv'
<1>1. /\ Migrating /\ AlreadyApplied /\ NextMigration
      /\ UNCHANGED <<objects, versions, pc>>
  BY DEF SkipMigration, durable
<1>2. PICK k \in 0..N, k0 \in 0..N :
        /\ Applied(k) /\ k0 <= k
        /\ at.migration \in 1..N
        /\ at.current = LastOf(k0)
        /\ at.migration <= k0 /\ k = k0
  BY <1>1, MigratingState
<1>3. Applied(k)' /\ pc' = "migrating"
  BY <1>1, <1>2 DEF Applied, Migrating
<1> QED
  BY <1>1, <1>2, <1>3, MovedOn

(* Executing a statement of the next migration, or failing to. *)
LEMMA RunStatementKeeps ==
  ASSUME TypeOK, MigrationInv, RunStatement
  PROVE  /\ MigrationInv'
         /\ at' \in [migration : Nat, statement : Nat, current : Nat]
         /\ objects' \subseteq UNION {ObjectsOf(i) : i \in DOMAIN Migrations}
         /\ pc' \in Phases
<1> DEFINE o == Script[at.statement]
<1>1. /\ Migrating /\ ~AlreadyApplied /\ at.statement \in DOMAIN Script
      /\ UNCHANGED versions
      /\ \/ /\ objects' = objects \cup {o}
            /\ at' = [at EXCEPT !.statement = @ + 1]
            /\ UNCHANGED pc
         \/ Return /\ UNCHANGED objects
  BY DEF RunStatement
<1>2. PICK k \in 0..N, k0 \in 0..N :
        /\ Applied(k) /\ k0 <= k
        /\ at.migration \in 1..N
        /\ at.current = LastOf(k0)
        /\ \/ Misread(k)
           \/ /\ at.migration > k0 /\ k = at.migration - 1
              /\ at.statement \in 1..(Len(Script) + 1)
              /\ \A n \in 1..(at.statement - 1) : Script[n] \in objects
  BY <1>1, MigratingState
<1>3. at \in [migration : Nat, statement : Nat, current : Nat]
  BY DEF TypeOK
<1>4. CASE Return /\ UNCHANGED objects
  <2>1. MigrationInv'
    BY <1>1, <1>4, ReturnLeaves, SchemaUntouched
  <2> QED
    BY <1>4, <2>1, ReturnLeaves DEF TypeOK
<1>5. CASE /\ objects' = objects \cup {o}
           /\ at' = [at EXCEPT !.statement = @ + 1]
           /\ UNCHANGED pc
  <2>1. /\ N \in Nat /\ DOMAIN Migrations = 1..N
        /\ Script = Migrations[at.migration].script
        /\ Len(Script) \in Nat /\ DOMAIN Script = 1..Len(Script)
    BY <1>2, MigrationsAreTyped DEF Script
  <2>2. at' = [migration |-> at.migration, statement |-> at.statement + 1,
               current |-> at.current]
    BY <1>3, <1>5
  <2>3. /\ at'.migration = at.migration
        /\ at'.statement = at.statement + 1
        /\ at'.current = at.current
        /\ at' \in [migration : Nat, statement : Nat, current : Nat]
    BY <1>3, <2>2
  <2>4. Script' = Script
    BY <2>3 DEF Script
  <2>5. o \in ObjectsOf(at.migration)
    BY <1>1, <2>1 DEF ObjectsOf
  <2>6. objects' \subseteq UNION {ObjectsOf(i) : i \in DOMAIN Migrations}
    <3>1. o \in UNION {ObjectsOf(i) : i \in DOMAIN Migrations}
      BY <1>2, <2>1, <2>5
    <3>2. objects \subseteq UNION {ObjectsOf(i) : i \in DOMAIN Migrations}
      BY DEF TypeOK
    <3> HIDE DEF o
    <3> QED
      BY <1>5, <3>1, <3>2
  <2>7. Applied(k)'
    BY <1>1, <1>2, <1>5 DEF Applied
  <2>b. at.statement \in DOMAIN Script
    BY <1>1
  <2> HIDE DEF o
  <2>8. at'.statement \in 1..(Len(Script) + 1)
    BY <2>b, <2>1, <2>3
  <2>9. Misread(k)' \/ Resumed(k)'
    <3>1. CASE Misread(k)
      BY <2>3, <2>4, <2>8, <3>1 DEF Misread
    <3>2. CASE /\ at.migration > k0 /\ k = at.migration - 1
               /\ at.statement \in 1..(Len(Script) + 1)
               /\ \A n \in 1..(at.statement - 1) : Script[n] \in objects
      <4>1. \A n \in 1..(at'.statement - 1) : Script[n] \in objects'
        <5>1. \A n \in 1..(at'.statement - 1) :
                n \in 1..(at.statement - 1) \/ n = at.statement
          BY <2>3, <3>2
        <5> QED
          BY <1>5, <3>2, <5>1 DEF o
      <4>2. k0 \in 0..k /\ at'.current = LastOf(k0)
        BY <1>2, <2>1, <2>3
      <4>3. /\ at'.migration <= k0 => k = k0
            /\ at'.migration > k0 => k = at'.migration - 1
        BY <1>2, <2>1, <2>3, <3>2
      <4> QED
        BY <2>4, <2>8, <4>1, <4>2, <4>3 DEF Resumed
    <3> QED
      BY <1>2, <3>1, <3>2
  <2>10. pc' = "migrating" /\ at'.migration \in 1..(N + 1)
    BY <1>1, <1>2, <1>5, <2>1, <2>3 DEF Migrating
  <2>11. MigrationInv'
    BY <2>7, <2>9, <2>10 DEF MigrationInv
  <2> QED
    BY <2>3, <2>6, <2>10, <2>11 DEF Phases
<1> QED
  BY <1>1, <1>4, <1>5

(* Recording the version of a migration whose statements were executed. *)
LEMMA RecordVersionKeeps ==
  ASSUME TypeOK, MigrationInv, RecordVersion
  PROVE  /\ MigrationInv'
         /\ at' \in [migration : Nat, statement : Nat, current : Nat]
         /\ versions' \subseteq Versions
         /\ pc' \in Phases
<1> DEFINE v == Migrations[at.migration].version
<1>1. /\ Migrating /\ ~AlreadyApplied /\ at.statement = Len(Script) + 1
      /\ UNCHANGED objects
      /\ \/ Return /\ UNCHANGED versions
         \/ /\ v \notin versions /\ versions' = versions \cup {v}
            /\ NextMigration /\ UNCHANGED pc
  BY DEF RecordVersion
<1>2. PICK k \in 0..N, k0 \in 0..N :
        /\ Applied(k) /\ k0 <= k
        /\ at.migration \in 1..N
        /\ at.current = LastOf(k0)
        /\ \/ Misread(k)
           \/ /\ at.migration > k0 /\ k = at.migration - 1
              /\ \A n \in 1..(at.statement - 1) : Script[n] \in objects
  BY <1>1, MigratingState
<1>3. CASE Return /\ UNCHANGED versions
  <2>1. MigrationInv'
    BY <1>1, <1>3, ReturnLeaves, SchemaUntouched
  <2> QED
    BY <1>3, <2>1, ReturnLeaves DEF TypeOK
<1>4. CASE /\ v \notin versions /\ versions' = versions \cup {v}
           /\ NextMigration /\ UNCHANGED pc
  <2>0. PICK m \in 1..N : m = at.migration
    BY <1>2
  <2>1. /\ N \in Nat /\ DOMAIN Migrations = 1..N
        /\ Script = Migrations[m].script
        /\ Len(Script) \in Nat /\ DOMAIN Script = 1..Len(Script)
    BY <2>0, MigrationsAreTyped DEF Script
  <2>a. /\ at.migration > k0 /\ k = at.migration - 1
        /\ \A n \in 1..(at.statement - 1) : Script[n] \in objects
    <3>1. SUFFICES ASSUME Misread(k) PROVE FALSE
      BY <1>2
    <3>2. m = 1 /\ 1 \in 1..k
      BY <1>2, <2>0, <2>1, <3>1 DEF Misread
    <3>3. v \in Prefix(k)
      BY <2>0, <3>2 DEF Prefix
    <3> QED
      BY <1>2, <1>4, <3>3 DEF Applied
  <2>2. ObjectsOf(m) \subseteq objects
    <3>1. at.statement - 1 = Len(Script)
      BY <1>1, <2>1
    <3> QED
      BY <2>a, <2>1, <3>1 DEF ObjectsOf
  <2>3. m \in 0..N /\ 1..m = (1..k) \cup {m} /\ k0 <= m
    BY <1>2, <2>0, <2>1, <2>a
  <2>4. Applied(m)'
    <3>1. versions' = Prefix(m)
      BY <1>2, <1>4, <2>0, <2>3 DEF Applied, Prefix
    <3>2. \A i \in 1..m : ObjectsOf(i) \subseteq objects'
      BY <1>1, <1>2, <2>2, <2>3 DEF Applied
    <3> QED
      BY <2>3, <3>1, <3>2 DEF Applied
  <2>5. pc' = "migrating"
    BY <1>1, <1>4 DEF Migrating
  <2>6. MigrationInv'
    BY <1>2, <1>4, <2>0, <2>3, <2>4, <2>5, <2>a, MovedOn
  <2>7. versions' \subseteq Versions
    BY <1>2, <1>4, <2>1 DEF TypeOK, Versions
  <2> QED
    BY <1>4, <2>5, <2>6, <2>7, NextMigrationMoves DEF Phases
<1> QED
  BY <1>1, <1>3, <1>4

-----------------------------------------------------------------------------
(* Lines and rows. *)

(* A step that leaves table, index, queue and numbering alone. *)
LEMMA LinesUntouched ==
  ASSUME LinesInv, UNCHANGED <<rows, index, lastSeq, unrecorded, queue, nextOp>>,
         versions \subseteq versions'
  PROVE  LinesInv'
BY DEF LinesInv, IndexInv, IndexMatchesTable, TranscriptInOrder, LineOrder

(* The queue, the rows and the numbering are typed. *)
LEMMA LinesAreTyped ==
  ASSUME TypeOK
  PROVE  /\ queue \in Seq(Ops) /\ Len(queue) \in Nat
         /\ DOMAIN queue = 1..Len(queue)
         /\ \A i \in DOMAIN queue : queue[i] \in Ops /\ queue[i].id \in Nat
         /\ \A r \in rows : /\ r.seq \in Nat /\ r.op \in Ops /\ r.op.id \in Nat
                            /\ r.op.id \in 1..MaxOps
         /\ lastSeq \in Nat /\ nextOp \in Nat /\ unrecorded \in Nat
<1>1. queue \in Seq(Ops) /\ rows \subseteq [seq : Nat, op : Ops]
      /\ lastSeq \in Nat /\ nextOp \in Nat /\ unrecorded \in Nat
  BY StoreAssumption DEF TypeOK
<1>2. \A op \in Ops : op.id \in Nat /\ op.id \in 1..MaxOps
  BY StoreAssumption DEF Ops
<1>3. \A i \in DOMAIN queue : queue[i] \in Ops
  BY <1>1, ElementOfSeq, LenProperties
<1>4. \A r \in rows : r.seq \in Nat /\ r.op \in Ops
  BY <1>1
<1> QED
  BY <1>1, <1>2, <1>3, <1>4, LenProperties

(* A line that is offered is numbered with the next number. *)
LEMMA NewOpsAreOps ==
  ASSUME TypeOK, nextOp <= MaxOps, NEW direct \in BOOLEAN,
         NEW op \in NewOps(direct)
  PROVE  /\ op \in Ops /\ op.id = nextOp /\ op.direct = direct
         /\ op.id \in 1..MaxOps
         /\ nextOp + 1 \in 1..(MaxOps + 1)
<1>1. nextOp \in 1..MaxOps
  BY StoreAssumption DEF TypeOK
<1>2. op \in [id : {nextOp}, profile : Profiles, valid : BOOLEAN,
              direct : {direct}]
  BY DEF NewOps
<1>3. op.id = nextOp /\ op.direct = direct
  BY <1>2
<1>4. op \in Ops
  BY <1>1, <1>2 DEF Ops
<1> QED
  BY <1>1, <1>3, <1>4, StoreAssumption

(* When a version is recorded the schema has the triggers. *)
LEMMA TriggersExist ==
  ASSUME MigrationInv, versions # {}
  PROVE  InsertTrigger \in objects /\ DeleteTrigger \in objects
<1>1. PICK k \in 0..N : Applied(k)
  BY DEF MigrationInv
<1>2. k # 0
  BY <1>1 DEF Applied, Prefix
<1>3. 1 \in 1..k
  BY <1>2, MigrationsAreTyped
<1>4. ObjectsOf(1) \subseteq objects
  BY <1>1, <1>3 DEF Applied
<1> QED
  BY <1>4, StoreAssumption

(* Queueing a line behind the others. *)
LEMMA EnqueueKeeps ==
  ASSUME TypeOK, LinesInv, NEW op \in NewOps(FALSE), Enqueue(op)
  PROVE  /\ LinesInv'
         /\ queue' \in Seq(Ops) /\ Len(queue') <= QueueMax
         /\ nextOp' \in 1..(MaxOps + 1)
         /\ accepted' \subseteq 1..MaxOps
<1>1. /\ nextOp <= MaxOps /\ Len(queue) < QueueMax
      /\ queue' = Append(queue, op) /\ nextOp' = nextOp + 1
      /\ accepted' = accepted \cup {op.id}
      /\ UNCHANGED <<rows, index, lastSeq, unrecorded, versions>>
  BY DEF Enqueue, QueueHasRoom, durable
<1>2. FALSE \in BOOLEAN
  BY Zenon
<1>3. /\ op \in Ops /\ op.id = nextOp /\ op.direct = FALSE
      /\ op.id \in 1..MaxOps /\ nextOp + 1 \in 1..(MaxOps + 1)
  BY <1>1, <1>2, NewOpsAreOps
<1>4. /\ queue \in Seq(Ops) /\ Len(queue) \in Nat
      /\ DOMAIN queue = 1..Len(queue)
      /\ \A i \in DOMAIN queue : queue[i].id \in Nat
      /\ \A r \in rows : r.op.id \in Nat
      /\ nextOp \in Nat
  BY LinesAreTyped
<1>5. /\ queue' \in Seq(Ops)
      /\ Len(queue') = Len(queue) + 1
      /\ DOMAIN queue' = 1..(Len(queue) + 1)
      /\ \A i \in DOMAIN queue : queue'[i] = queue[i]
      /\ queue'[Len(queue) + 1] = op
  BY <1>1, <1>3, <1>4, AppendProperties, LenProperties
<1>6. \A i \in DOMAIN queue' : i \in DOMAIN queue \/ i = Len(queue) + 1
  BY <1>4, <1>5
<1>7. LineOrder
  BY DEF LinesInv
<1>8. \A r \in rows' : r.seq <= lastSeq' /\ r.op.id < nextOp'
  BY <1>1, <1>4, <1>7 DEF LineOrder
<1>9. \A i \in DOMAIN queue' : queue'[i].id < nextOp' /\ ~queue'[i].direct
  BY <1>1, <1>3, <1>4, <1>5, <1>6, <1>7 DEF LineOrder
<1>10. \A i, j \in DOMAIN queue' : i < j => queue'[i].id < queue'[j].id
  BY <1>3, <1>4, <1>5, <1>6, <1>7 DEF LineOrder
<1>11. \A r \in rows', i \in DOMAIN queue' :
         ~r.op.direct => r.op.id < queue'[i].id
  BY <1>1, <1>3, <1>4, <1>5, <1>6, <1>7 DEF LineOrder
<1>12. LineOrder'
  BY <1>1, <1>7, <1>8, <1>9, <1>10, <1>11 DEF LineOrder
<1>13. IndexInv' /\ TranscriptInOrder'
  BY <1>1 DEF LinesInv, IndexInv, IndexMatchesTable, TranscriptInOrder
<1>14. Len(queue') <= QueueMax
  BY <1>1, <1>4, <1>5, StoreAssumption
<1>15. accepted' \subseteq 1..MaxOps
  BY <1>1, <1>3 DEF TypeOK
<1> QED
  BY <1>1, <1>3, <1>5, <1>12, <1>13, <1>14, <1>15 DEF LinesInv

(* A new row is the last one, and indexed if a version is recorded. *)
LEMMA InsertRowKeeps ==
  ASSUME TypeOK, LinesInv, MigrationInv,
         NEW op \in Ops, InsertRow(op),
         ~op.direct => \A r \in rows : ~r.op.direct => r.op.id < op.id
  PROVE  /\ rows' \subseteq [seq : Nat, op : Ops]
         /\ index' \subseteq Nat /\ lastSeq' \in Nat /\ unrecorded' \in Nat
         /\ IndexInv' /\ TranscriptInOrder'
         /\ \A r \in rows' : r.seq <= lastSeq'
         /\ \A r, s \in rows' : r.seq = s.seq => r = s
         /\ \A r \in rows' : r \in rows \/ r.op = op
<1> DEFINE new == [seq |-> lastSeq + 1, op |-> op]
<1>1. /\ index \subseteq index' /\ index' \subseteq index \cup {lastSeq + 1}
      /\ versions # {} => lastSeq + 1 \in index'
  BY TriggersExist DEF InsertRow
<1>2. /\ rows' = rows \cup {new}
      /\ lastSeq' = lastSeq + 1
      /\ versions' = versions
      /\ versions = {} => unrecorded' = lastSeq + 1
      /\ versions # {} => unrecorded' = unrecorded
  BY DEF InsertRow
<1>3. /\ lastSeq \in Nat /\ unrecorded \in Nat
      /\ \A r \in rows : r.seq \in Nat /\ r.op.id \in Nat /\ r.seq <= lastSeq
  BY LinesAreTyped DEF LinesInv, LineOrder
<1>4. /\ new \in [seq : Nat, op : Ops]
      /\ new.seq = lastSeq + 1 /\ new.op = op
  BY <1>3
<1> HIDE DEF new
<1>5. /\ rows' \subseteq [seq : Nat, op : Ops] /\ index' \subseteq Nat
      /\ unrecorded' \in Nat
  BY <1>1, <1>2, <1>3, <1>4 DEF TypeOK
<1>6. IndexInv'
  <2>1. /\ \A n \in index : n \in Nat /\ n <= lastSeq
        /\ unrecorded <= lastSeq
    BY DEF LinesInv, IndexInv, TypeOK
  <2>2. /\ \A n \in index' : n \in Nat /\ n <= lastSeq'
        /\ unrecorded' <= lastSeq'
        /\ versions' = {} => unrecorded' = lastSeq'
    BY <1>1, <1>2, <1>3, <2>1
  <2>3. \A r \in rows' : r.seq \in Nat /\ r.seq <= lastSeq'
    BY <1>2, <1>3, <1>4
  <2>4. CASE versions = {}
    <3>1. {n \in index' : n > unrecorded'} = {}
      BY <1>2, <1>3, <2>2, <2>4
    <3>2. {r \in rows' : r.seq > unrecorded'} = {}
      BY <1>2, <1>3, <2>3, <2>4
    <3> QED
      BY <2>2, <3>1, <3>2 DEF IndexInv, IndexMatchesTable
  <2>5. CASE versions # {}
    <3>1. /\ index' = index \cup {lastSeq + 1}
          /\ unrecorded' = unrecorded /\ lastSeq + 1 > unrecorded
      BY <1>1, <1>2, <1>3, <2>1, <2>5
    <3>2. {n \in index' : n > unrecorded'} =
            {n \in index : n > unrecorded} \cup {lastSeq + 1}
      BY <3>1
    <3>3. {r \in rows' : r.seq > unrecorded'} =
            {r \in rows : r.seq > unrecorded} \cup {new}
      BY <1>2, <1>4, <3>1
    <3>4. {n \in index : n > unrecorded} =
            {r.seq : r \in {s \in rows : s.seq > unrecorded}}
      BY DEF LinesInv, IndexInv, IndexMatchesTable
    <3>5. IndexMatchesTable'
      BY <1>4, <3>2, <3>3, <3>4 DEF IndexMatchesTable
    <3> QED
      BY <2>2, <3>5 DEF IndexInv
  <2> QED
    BY <2>4, <2>5
<1>7. TranscriptInOrder'
  <2>1. \A r, s \in rows : (r.seq < s.seq /\ ~r.op.direct /\ ~s.op.direct)
                             => r.op.id < s.op.id
    BY DEF LinesInv, TranscriptInOrder
  <2>2. \A s \in rows : ~(new.seq < s.seq)
    BY <1>3, <1>4
  <2>3. \A r, s \in rows' : (r.seq < s.seq /\ ~r.op.direct /\ ~s.op.direct)
                              => r.op.id < s.op.id
    BY <1>2, <1>3, <1>4, <2>1, <2>2
  <2> QED
    BY <2>3 DEF TranscriptInOrder
<1>8. \A r \in rows' : r.seq <= lastSeq'
  BY <1>2, <1>3, <1>4
<1>9. \A r, s \in rows' : r.seq = s.seq => r = s
  <2>1. \A r \in rows : r.seq # new.seq
    BY <1>3, <1>4
  <2> QED
    BY <1>2, <2>1 DEF LinesInv, LineOrder
<1> QED
  BY <1>2, <1>3, <1>4, <1>5, <1>6, <1>7, <1>8, <1>9

(* A line that is appended directly. *)
LEMMA AppendTranscriptKeeps ==
  ASSUME TypeOK, LinesInv, MigrationInv, NEW op \in NewOps(TRUE),
         AppendTranscript(op)
  PROVE  /\ LinesInv'
         /\ rows' \subseteq [seq : Nat, op : Ops]
         /\ index' \subseteq Nat /\ lastSeq' \in Nat /\ unrecorded' \in Nat
         /\ nextOp' \in 1..(MaxOps + 1)
<1>1. /\ nextOp <= MaxOps /\ InsertRow(op)
      /\ nextOp' = nextOp + 1 /\ UNCHANGED queue
  BY DEF AppendTranscript
<1>2. TRUE \in BOOLEAN
  BY Zenon
<1>3. /\ op \in Ops /\ op.id = nextOp /\ op.direct = TRUE
      /\ nextOp + 1 \in 1..(MaxOps + 1)
  BY <1>1, <1>2, NewOpsAreOps
<1>4. /\ rows' \subseteq [seq : Nat, op : Ops]
      /\ index' \subseteq Nat /\ lastSeq' \in Nat /\ unrecorded' \in Nat
      /\ IndexInv' /\ TranscriptInOrder'
      /\ \A r \in rows' : r.seq <= lastSeq'
      /\ \A r, s \in rows' : r.seq = s.seq => r = s
      /\ \A r \in rows' : r \in rows \/ r.op = op
  BY <1>1, <1>3, InsertRowKeeps
<1>5. /\ \A i \in DOMAIN queue : queue[i].id \in Nat
      /\ \A r \in rows : r.op.id \in Nat
      /\ nextOp \in Nat
  BY LinesAreTyped
<1>6. LineOrder
  BY DEF LinesInv
<1>7. \A r \in rows' : r.op.id < nextOp'
  BY <1>1, <1>3, <1>4, <1>5, <1>6 DEF LineOrder
<1>8. \A i \in DOMAIN queue' : queue'[i].id < nextOp' /\ ~queue'[i].direct
  BY <1>1, <1>5, <1>6 DEF LineOrder
<1>9. \A r \in rows', i \in DOMAIN queue' :
        ~r.op.direct => r.op.id < queue'[i].id
  BY <1>1, <1>3, <1>4, <1>6 DEF LineOrder
<1>10. LineOrder'
  BY <1>1, <1>4, <1>6, <1>7, <1>8, <1>9 DEF LineOrder
<1> QED
  BY <1>1, <1>3, <1>4, <1>10 DEF LinesInv

(* The queue without its oldest line. *)
LEMMA TailKeepsOrder ==
  ASSUME TypeOK, LineOrder, queue # <<>>
  PROVE  /\ Tail(queue) \in Seq(Ops) /\ Len(Tail(queue)) <= QueueMax
         /\ Head(queue) \in Ops /\ Head(queue) = queue[1]
         /\ 1 \in DOMAIN queue
         /\ \A i \in DOMAIN Tail(queue) :
              /\ i + 1 \in DOMAIN queue /\ Tail(queue)[i] = queue[i + 1]
              /\ i \in Nat
              /\ Head(queue).id < Tail(queue)[i].id
<1>1. /\ queue \in Seq(Ops) /\ Len(queue) \in Nat
      /\ DOMAIN queue = 1..Len(queue) /\ Len(queue) <= QueueMax
  BY LinesAreTyped DEF TypeOK
<1>2. Len(queue) # 0 /\ Head(queue) = queue[1]
  BY <1>1, EmptySeq
<1>3. /\ Head(queue) \in Ops /\ Tail(queue) \in Seq(Ops)
      /\ Len(Tail(queue)) = Len(queue) - 1
      /\ \A i \in 1..Len(Tail(queue)) : Tail(queue)[i] = queue[i + 1]
  BY <1>1, HeadTailProperties
<1>4. DOMAIN Tail(queue) = 1..(Len(queue) - 1)
  BY <1>1, <1>3, LenProperties
<1>5. \A i \in DOMAIN Tail(queue) :
        /\ i + 1 \in DOMAIN queue /\ Tail(queue)[i] = queue[i + 1]
        /\ i \in Nat /\ 1 < i + 1
  BY <1>1, <1>3, <1>4
<1>6. 1 \in DOMAIN queue
  BY <1>1, <1>2
<1>7. \A i \in DOMAIN Tail(queue) : Head(queue).id < Tail(queue)[i].id
  BY <1>2, <1>5, <1>6 DEF LineOrder
<1> QED
  BY <1>1, <1>2, <1>3, <1>5, <1>6, <1>7, StoreAssumption

(* Writing the oldest line of the queue. *)
LEMMA DrainNextKeeps ==
  ASSUME TypeOK, LinesInv, MigrationInv, DrainNext
  PROVE  /\ LinesInv'
         /\ queue' \in Seq(Ops) /\ Len(queue') <= QueueMax
         /\ rows' \subseteq [seq : Nat, op : Ops]
         /\ index' \subseteq Nat /\ lastSeq' \in Nat /\ unrecorded' \in Nat
<1> DEFINE op == Head(queue)
<1>1. /\ pc = "draining" /\ queue # <<>> /\ InsertRow(op)
      /\ queue' = Tail(queue) /\ UNCHANGED nextOp
  BY DEF DrainNext, history
<1>2. LineOrder
  BY DEF LinesInv
<1>3. /\ queue' \in Seq(Ops) /\ Len(queue') <= QueueMax
      /\ op \in Ops /\ op = queue[1] /\ 1 \in DOMAIN queue
      /\ \A i \in DOMAIN queue' :
           /\ i + 1 \in DOMAIN queue /\ queue'[i] = queue[i + 1]
           /\ i \in Nat
           /\ op.id < queue'[i].id
  BY <1>1, <1>2, TailKeepsOrder
<1> HIDE DEF op
<1>4. op.id < nextOp /\ \A r \in rows : ~r.op.direct => r.op.id < op.id
  BY <1>2, <1>3 DEF LineOrder
<1>5. /\ rows' \subseteq [seq : Nat, op : Ops]
      /\ index' \subseteq Nat /\ lastSeq' \in Nat /\ unrecorded' \in Nat
      /\ IndexInv' /\ TranscriptInOrder'
      /\ \A r \in rows' : r.seq <= lastSeq'
      /\ \A r, s \in rows' : r.seq = s.seq => r = s
      /\ \A r \in rows' : r \in rows \/ r.op = op
  BY <1>1, <1>3, <1>4, InsertRowKeeps
<1>6. \A r \in rows' : r.op.id < nextOp'
  BY <1>1, <1>2, <1>4, <1>5 DEF LineOrder
<1>7. \A i \in DOMAIN queue' : queue'[i].id < nextOp' /\ ~queue'[i].direct
  BY <1>1, <1>2, <1>3 DEF LineOrder
<1>8. \A i, j \in DOMAIN queue' : i < j => queue'[i].id < queue'[j].id
  <2>1. \A i, j \in DOMAIN queue' : i < j => i + 1 < j + 1
    BY <1>3
  <2> QED
    BY <1>2, <1>3, <2>1 DEF LineOrder
<1>9. \A r \in rows', i \in DOMAIN queue' :
        ~r.op.direct => r.op.id < queue'[i].id
  BY <1>2, <1>3, <1>5 DEF LineOrder
<1>10. LineOrder'
  BY <1>5, <1>6, <1>7, <1>8, <1>9 DEF LineOrder
<1> QED
  BY <1>3, <1>5, <1>10 DEF LinesInv

(* Losing the oldest line of the queue to a failing append. *)
LEMMA DrainFailsKeeps ==
  ASSUME TypeOK, LinesInv, DrainFails
  PROVE  /\ LinesInv'
         /\ queue' \in Seq(Ops) /\ Len(queue') <= QueueMax
<1>1. /\ queue # <<>> /\ queue' = Tail(queue)
      /\ UNCHANGED <<rows, index, lastSeq, unrecorded, versions, nextOp>>
  BY DEF DrainFails, AfterFailure, durable
<1>2. LineOrder
  BY DEF LinesInv
<1>3. /\ queue' \in Seq(Ops) /\ Len(queue') <= QueueMax
      /\ \A i \in DOMAIN queue' :
           i + 1 \in DOMAIN queue /\ queue'[i] = queue[i + 1] /\ i \in Nat
  BY <1>1, <1>2, TailKeepsOrder
<1>4. \A i, j \in DOMAIN queue' : i < j => i + 1 < j + 1
  BY <1>3
<1>5. /\ \A i \in DOMAIN queue' : queue'[i].id < nextOp' /\ ~queue'[i].direct
      /\ \A i, j \in DOMAIN queue' : i < j => queue'[i].id < queue'[j].id
      /\ \A r \in rows', i \in DOMAIN queue' :
           ~r.op.direct => r.op.id < queue'[i].id
  BY <1>1, <1>2, <1>3, <1>4 DEF LineOrder
<1>6. LineOrder'
  BY <1>1, <1>2, <1>5 DEF LineOrder
<1>7. IndexInv' /\ TranscriptInOrder'
  BY <1>1 DEF LinesInv, IndexInv, IndexMatchesTable, TranscriptInOrder
<1> QED
  BY <1>3, <1>6, <1>7 DEF LinesInv

(* Deleting the rows of a profile, and by the trigger their index entries. *)
LEMMA DeleteProfileKeeps ==
  ASSUME TypeOK, LinesInv, MigrationInv, NEW p \in Profiles, DeleteProfile(p)
  PROVE  /\ LinesInv'
         /\ rows' \subseteq [seq : Nat, op : Ops]
         /\ index' \subseteq Nat
         /\ deleted' \subseteq 1..MaxOps
<1>1. /\ rows' = rows \ RowsOf(p)
      /\ index' = IndexWithout(p)
      /\ deleted' = deleted \cup {r.op.id : r \in RowsOf(p)}
      /\ UNCHANGED <<versions, lastSeq, unrecorded, queue, nextOp>>
  BY DEF DeleteProfile
<1>2. index' \subseteq index
  BY <1>1 DEF IndexWithout
<1>3. versions # {} => index' = index \ {r.seq : r \in RowsOf(p)}
  BY <1>1, TriggersExist DEF IndexWithout
<1>4. RowsOf(p) \subseteq rows /\ rows' \subseteq rows
  BY <1>1 DEF RowsOf
<1>5. /\ {n \in index : n > unrecorded} =
           {r.seq : r \in {s \in rows : s.seq > unrecorded}}
      /\ \A r, s \in rows : r.seq = s.seq => r = s
      /\ \A n \in index : n <= lastSeq
      /\ \A r \in rows : r.seq <= lastSeq
      /\ unrecorded <= lastSeq
      /\ versions = {} => unrecorded = lastSeq
  BY DEF LinesInv, IndexInv, IndexMatchesTable, LineOrder
<1>6. IndexMatchesTable'
  <2>1. CASE versions = {}
    <3>1. {n \in index' : n > unrecorded'} = {}
      BY <1>1, <1>2, <1>5, <2>1, LinesAreTyped DEF TypeOK
    <3>2. {r \in rows' : r.seq > unrecorded'} = {}
      BY <1>1, <1>4, <1>5, <2>1, LinesAreTyped
    <3> QED
      BY <3>1, <3>2 DEF IndexMatchesTable
  <2>2. CASE versions # {}
    <3>1. \A n : n \in index' /\ n > unrecorded <=>
             \E r \in rows' : r.seq > unrecorded /\ n = r.seq
      BY <1>1, <1>3, <1>4, <1>5, <2>2
    <3> QED
      BY <1>1, <3>1 DEF IndexMatchesTable
  <2> QED
    BY <2>1, <2>2
<1>7. IndexInv'
  BY <1>1, <1>2, <1>5, <1>6 DEF IndexInv
<1>8. TranscriptInOrder' /\ LineOrder'
  BY <1>1, <1>4 DEF LinesInv, TranscriptInOrder, LineOrder
<1>9. deleted' \subseteq 1..MaxOps
  BY <1>1, <1>4, LinesAreTyped DEF TypeOK
<1> QED
  BY <1>2, <1>4, <1>7, <1>8, <1>9 DEF LinesInv, TypeOK

(* A crash empties the queue. *)
LEMMA CrashKeeps ==
  ASSUME TypeOK, LinesInv, Crash
  PROVE  /\ LinesInv'
         /\ queue' \in Seq(Ops) /\ Len(queue') <= QueueMax
         /\ crashLost' \in Nat
         /\ at' \in [migration : Nat, statement : Nat, current : Nat]
<1>1. <<>> \in Seq(Ops) /\ Len(<<>>) = 0 /\ DOMAIN <<>> = {}
  BY EmptySeq
<1>2. /\ queue' = <<>>
      /\ UNCHANGED <<rows, index, lastSeq, unrecorded, versions, nextOp>>
      /\ crashLost' = crashLost + Len(queue) /\ at' = Nowhere
  BY DEF Crash, durable
<1>3. LinesInv'
  BY <1>1, <1>2
     DEF LinesInv, IndexInv, IndexMatchesTable, TranscriptInOrder, LineOrder
<1>4. crashLost' \in Nat
  BY <1>2, LinesAreTyped DEF TypeOK
<1>5. Nowhere \in [migration : Nat, statement : Nat, current : Nat]
  BY DEF Nowhere
<1> QED
  BY <1>1, <1>2, <1>3, <1>4, <1>5, StoreAssumption

-----------------------------------------------------------------------------
(* The invariant is inductive. *)

(* An empty database and no process. *)
LEMMA InitIInv == Init => IInv
<1> SUFFICES ASSUME Init PROVE IInv
  OBVIOUS
<1>1. <<>> \in Seq(Ops) /\ Len(<<>>) = 0 /\ DOMAIN <<>> = {}
  BY EmptySeq
<1>2. /\ Nowhere \in [migration : Nat, statement : Nat, current : Nat]
      /\ 1 \in 1..(MaxOps + 1) /\ 0 <= QueueMax
      /\ 0 \in 0..MaxFaults /\ 0 \in 0..MaxCrashes
  BY StoreAssumption DEF Nowhere
<1>3. TypeOK
  BY <1>1, <1>2 DEF Init, TypeOK, Phases
<1>4. MigrationInv
  <2>1. 0 \in 0..N
    BY MigrationsAreTyped
  <2>2. Applied(0)
    BY <2>1 DEF Init, Applied, Prefix
  <2> QED
    BY <2>1, <2>2 DEF Init, MigrationInv
<1>5. LinesInv
  BY <1>1 DEF Init, LinesInv, IndexInv, IndexMatchesTable, TranscriptInOrder,
              LineOrder
<1> QED
  BY <1>3, <1>4, <1>5 DEF IInv

(* Every step keeps the invariant. *)
LEMMA NextIInv == IInv /\ [Next]_vars => IInv'
<1> SUFFICES ASSUME IInv, [Next]_vars PROVE IInv'
  OBVIOUS
<1>1. TypeOK /\ MigrationInv /\ LinesInv
  BY DEF IInv
<1>2. CASE Open
  <2>1. TypeOK'
    BY <1>1, <1>2 DEF TypeOK, Open, durable, history, Phases
  <2>2. MigrationInv'
    BY <1>1, <1>2, SchemaUntouched DEF Open, durable
  <2>3. LinesInv'
    BY <1>1, <1>2, LinesUntouched DEF Open, durable, history
  <2> QED
    BY <2>1, <2>2, <2>3 DEF IInv
<1>3. CASE BeginMigrate
  <2>1. /\ MigrationInv'
        /\ at' \in [migration : Nat, statement : Nat, current : Nat]
        /\ faults' \in 0..MaxFaults
    BY <1>1, <1>3, BeginMigrateKeeps
  <2>2. TypeOK'
    BY <1>1, <1>3, <2>1 DEF TypeOK, BeginMigrate, durable, history, Phases
  <2>3. LinesInv'
    BY <1>1, <1>3, LinesUntouched DEF BeginMigrate, durable
  <2> QED
    BY <2>1, <2>2, <2>3 DEF IInv
<1>4. CASE SkipMigration
  <2>1. MigrationInv' /\ at' \in [migration : Nat, statement : Nat, current : Nat]
    BY <1>1, <1>4, SkipMigrationKeeps, NextMigrationMoves DEF SkipMigration
  <2>2. TypeOK'
    BY <1>1, <1>4, <2>1 DEF TypeOK, SkipMigration, durable, history
  <2>3. LinesInv'
    BY <1>1, <1>4, LinesUntouched DEF SkipMigration, durable, history
  <2> QED
    BY <2>1, <2>2, <2>3 DEF IInv
<1>5. CASE RunStatement
  <2>1. /\ MigrationInv' /\ at' \in [migration : Nat, statement : Nat, current : Nat]
        /\ objects' \subseteq UNION {ObjectsOf(i) : i \in DOMAIN Migrations}
        /\ pc' \in Phases
    BY <1>1, <1>5, RunStatementKeeps
  <2>2. TypeOK'
    BY <1>1, <1>5, <2>1 DEF TypeOK, RunStatement, durable, history, Phases
  <2>3. LinesInv'
    BY <1>1, <1>5, LinesUntouched DEF RunStatement, durable, history
  <2> QED
    BY <2>1, <2>2, <2>3 DEF IInv
<1>6. CASE RecordVersion
  <2>1. /\ MigrationInv' /\ at' \in [migration : Nat, statement : Nat, current : Nat]
        /\ versions' \subseteq Versions /\ pc' \in Phases
    BY <1>1, <1>6, RecordVersionKeeps
  <2>2. TypeOK'
    BY <1>1, <1>6, <2>1 DEF TypeOK, RecordVersion, durable, history, Phases
  <2>3. LinesInv'
    BY <1>1, <1>6, LinesUntouched DEF RecordVersion, durable, history
  <2> QED
    BY <2>1, <2>2, <2>3 DEF IInv
<1>7. CASE EndMigrate
  <2>1. TypeOK'
    BY <1>1, <1>7, ReturnLeaves DEF TypeOK, EndMigrate, durable, history
  <2>2. MigrationInv'
    BY <1>1, <1>7, SchemaUntouched, ReturnLeaves DEF EndMigrate, durable
  <2>3. LinesInv'
    BY <1>1, <1>7, LinesUntouched DEF EndMigrate, durable, history
  <2> QED
    BY <2>1, <2>2, <2>3 DEF IInv
<1>8. CASE MigrateFault
  <2>1. faults' \in 0..MaxFaults
    BY <1>1, <1>8, StoreAssumption DEF TypeOK, MigrateFault
  <2>2. TypeOK'
    BY <1>1, <1>8, <2>1, ReturnLeaves DEF TypeOK, MigrateFault, durable
  <2>3. MigrationInv'
    BY <1>1, <1>8, SchemaUntouched, ReturnLeaves DEF MigrateFault, durable
  <2>4. LinesInv'
    BY <1>1, <1>8, LinesUntouched DEF MigrateFault, durable
  <2> QED
    BY <2>2, <2>3, <2>4 DEF IInv
<1>9. ASSUME NEW op \in NewOps(FALSE), Enqueue(op) PROVE IInv'
  <2>1. /\ LinesInv'
        /\ queue' \in Seq(Ops) /\ Len(queue') <= QueueMax
        /\ nextOp' \in 1..(MaxOps + 1)
        /\ accepted' \subseteq 1..MaxOps
    BY <1>1, <1>9, EnqueueKeeps
  <2>2. TypeOK'
    BY <1>1, <1>9, <2>1 DEF TypeOK, Enqueue, durable, history, Phases
  <2>3. MigrationInv'
    BY <1>1, <1>9, SchemaUntouched DEF Enqueue, durable, InsertRow
  <2> QED
    BY <2>1, <2>2, <2>3 DEF IInv
<1>10. ASSUME NEW op \in NewOps(TRUE), AppendTranscript(op) PROVE IInv'
  <2>1. /\ LinesInv'
        /\ rows' \subseteq [seq : Nat, op : Ops]
        /\ index' \subseteq Nat /\ lastSeq' \in Nat /\ unrecorded' \in Nat
        /\ nextOp' \in 1..(MaxOps + 1)
    BY <1>1, <1>10, AppendTranscriptKeeps
  <2>2. TypeOK'
    BY <1>1, <1>10, <2>1 DEF TypeOK, AppendTranscript, InsertRow, durable, history, Phases
  <2>3. MigrationInv'
    BY <1>1, <1>10, SchemaUntouched DEF AppendTranscript, InsertRow, durable, InsertRow
  <2> QED
    BY <2>1, <2>2, <2>3 DEF IInv
<1>11. CASE BeginDrain
  <2>1. TypeOK'
    BY <1>1, <1>11 DEF TypeOK, BeginDrain, durable, history, Phases
  <2>2. MigrationInv'
    BY <1>1, <1>11, SchemaUntouched DEF BeginDrain, durable
  <2>3. LinesInv'
    BY <1>1, <1>11, LinesUntouched DEF BeginDrain, durable, history
  <2> QED
    BY <2>1, <2>2, <2>3 DEF IInv
<1>12. CASE DrainNext
  <2>1. /\ LinesInv'
        /\ queue' \in Seq(Ops) /\ Len(queue') <= QueueMax
        /\ rows' \subseteq [seq : Nat, op : Ops]
        /\ index' \subseteq Nat /\ lastSeq' \in Nat /\ unrecorded' \in Nat
    BY <1>1, <1>12, DrainNextKeeps
  <2>2. TypeOK'
    BY <1>1, <1>12, <2>1 DEF TypeOK, DrainNext, InsertRow, durable, history, Phases
  <2>3. MigrationInv'
    BY <1>1, <1>12, SchemaUntouched DEF DrainNext, InsertRow, durable, InsertRow
  <2> QED
    BY <2>1, <2>2, <2>3 DEF IInv
<1>13. CASE DrainFails
  <2>1. LinesInv' /\ queue' \in Seq(Ops) /\ Len(queue') <= QueueMax
    BY <1>1, <1>13, DrainFailsKeeps
  <2>2. faults' \in 0..MaxFaults
    <3>1. faults' = faults \/ (faults < MaxFaults /\ faults' = faults + 1)
      BY <1>13 DEF DrainFails
    <3> QED
      BY <1>1, <3>1, StoreAssumption DEF TypeOK
  <2>3. TypeOK'
    BY <1>1, <1>13, <2>1, <2>2 DEF TypeOK, DrainFails, durable, Phases
  <2>4. MigrationInv'
    BY <1>1, <1>13, SchemaUntouched DEF DrainFails, durable
  <2> QED
    BY <2>1, <2>3, <2>4 DEF IInv
<1>14. CASE EndDrain
  <2>1. TypeOK'
    BY <1>1, <1>14 DEF TypeOK, EndDrain, durable, history, Phases
  <2>2. MigrationInv'
    BY <1>1, <1>14, SchemaUntouched DEF EndDrain, durable
  <2>3. LinesInv'
    BY <1>1, <1>14, LinesUntouched DEF EndDrain, durable, history
  <2> QED
    BY <2>1, <2>2, <2>3 DEF IInv
<1>15. ASSUME NEW p \in Profiles, DeleteProfile(p) PROVE IInv'
  <2>1. /\ LinesInv'
        /\ rows' \subseteq [seq : Nat, op : Ops]
        /\ index' \subseteq Nat
        /\ deleted' \subseteq 1..MaxOps
    BY <1>1, <1>15, DeleteProfileKeeps
  <2>2. TypeOK'
    BY <1>1, <1>15, <2>1 DEF TypeOK, DeleteProfile, durable, history, Phases
  <2>3. MigrationInv'
    BY <1>1, <1>15, SchemaUntouched DEF DeleteProfile, durable, InsertRow
  <2> QED
    BY <2>1, <2>2, <2>3 DEF IInv
<1>16. CASE Crash
  <2>1. /\ LinesInv'
        /\ queue' \in Seq(Ops) /\ Len(queue') <= QueueMax
        /\ crashLost' \in Nat
        /\ at' \in [migration : Nat, statement : Nat, current : Nat]
    BY <1>1, <1>16, CrashKeeps
  <2>2. crashes' \in 0..MaxCrashes
    BY <1>1, <1>16, StoreAssumption DEF TypeOK, Crash
  <2>3. TypeOK'
    BY <1>1, <1>16, <2>1, <2>2 DEF TypeOK, Crash, durable, Phases
  <2>4. MigrationInv'
    BY <1>1, <1>16, SchemaUntouched DEF Crash, durable
  <2> QED
    BY <2>1, <2>3, <2>4 DEF IInv
<1>17. CASE UNCHANGED vars
  <2>1. TypeOK'
    BY <1>1, <1>17 DEF TypeOK, vars, durable, history
  <2>2. MigrationInv' /\ LinesInv'
    BY <1>1, <1>17, SchemaUntouched, LinesUntouched DEF vars, durable, history
  <2> QED
    BY <2>1, <2>2 DEF IInv
<1> QED
  BY <1>2, <1>3, <1>4, <1>5, <1>6, <1>7, <1>8, <1>9,
     <1>10, <1>11, <1>12, <1>13, <1>14, <1>15, <1>16, <1>17 DEF Next

-----------------------------------------------------------------------------
(* The theorems. *)

(* The inductive invariant holds in every reachable state. *)
THEOREM InvariantHolds == Spec => []IInv
BY InitIInv, NextIInv, PTL DEF Spec

(* Every variable keeps its type; the queue never outgrows its maximum. *)
THEOREM TypeCorrect == Spec => []TypeOK
<1>1. IInv => TypeOK
  BY DEF IInv
<1> QED
  BY <1>1, InvariantHolds, PTL

(* Whatever fails or crashes, a version that counts as applied has all its *)
(* schema objects.                                                         *)
THEOREM RecordedMeansApplied == Spec => []VersionMeansApplied
<1>1. IInv => VersionMeansApplied
  <2> SUFFICES ASSUME IInv, NEW i \in DOMAIN Migrations,
                      Migrations[i].version <= CurrentVersion
               PROVE  ObjectsOf(i) \subseteq objects
    BY DEF VersionMeansApplied
  <2>1. PICK k \in 0..N : Applied(k)
    BY DEF IInv, MigrationInv
  <2>2. i \in 1..N /\ N \in Nat
    BY MigrationsAreTyped
  <2>3. i <= k
    BY <2>1, <2>2, CurrentIsLast, UpToLast
  <2> QED
    BY <2>1, <2>2, <2>3 DEF Applied
<1> QED
  BY <1>1, InvariantHolds, PTL

(* Since the first version is recorded, the full-text index holds exactly  *)
(* the rows of the table.                                                  *)
THEOREM SearchSeesTheTable == Spec => []IndexMatchesTable
<1>1. IInv => IndexMatchesTable
  BY DEF IInv, LinesInv, IndexInv
<1> QED
  BY <1>1, InvariantHolds, PTL

(* Queued lines are stored in the order they were queued. *)
THEOREM TranscriptKeepsOrder == Spec => []TranscriptInOrder
<1>1. IInv => TranscriptInOrder
  BY DEF IInv, LinesInv
<1> QED
  BY <1>1, InvariantHolds, PTL

-----------------------------------------------------------------------------
(* What becomes of the lines that enqueue accepted.  A queued line was     *)
(* accepted and is queued once; it is neither stored nor deleted yet.      *)

QueuedIds == {queue[k].id : k \in DOMAIN queue}
StoredIds == {r.op.id : r \in rows}
Written == StoredIds \cup deleted
Lost == accepted \ (QueuedIds \cup Written)

AccountInv ==
  /\ QueuedIds \subseteq accepted
  /\ QueuedIds \cap Written = {}
  /\ \A id \in accepted \cup deleted : id < nextOp
  /\ Cardinality(Lost) = errors + crashLost

(* Lost lines are finitely many. *)
LEMMA LostIsFinite ==
  ASSUME TypeOK
  PROVE  /\ IsFiniteSet(Lost) /\ Cardinality(Lost) \in Nat
         /\ errors \in Nat /\ crashLost \in Nat
<1>1. IsFiniteSet(1..MaxOps)
  BY FS_Interval, StoreAssumption
<1>2. Lost \subseteq 1..MaxOps
  BY DEF Lost, TypeOK
<1>3. IsFiniteSet(Lost)
  BY <1>1, <1>2, FS_Subset
<1> QED
  BY <1>3, FS_CardinalityType DEF TypeOK

(* The lines of the queue are as many as the queue is long. *)
LEMMA QueuedLinesDiffer ==
  ASSUME TypeOK, LineOrder
  PROVE  IsFiniteSet(QueuedIds) /\ Cardinality(QueuedIds) = Len(queue)
<1> DEFINE n == Len(queue)
           f == [k \in 1..n |-> queue[k].id]
<1>1. /\ n \in Nat /\ DOMAIN queue = 1..n
      /\ \A k \in 1..n : queue[k].id \in Nat
  BY LinesAreTyped
<1>2. IsFiniteSet(1..n) /\ Cardinality(1..n) = n
  BY <1>1, FS_Interval
<1>3. \A k, l \in 1..n : queue[k].id = queue[l].id => k = l
  <2> SUFFICES ASSUME NEW k \in 1..n, NEW l \in 1..n,
                      queue[k].id = queue[l].id, k # l
               PROVE  FALSE
    OBVIOUS
  <2>1. k < l \/ l < k
    BY <1>1
  <2> QED
    BY <1>1, <2>1 DEF LineOrder
<1>4. QueuedIds = {queue[k].id : k \in 1..n}
  BY <1>1 DEF QueuedIds
<1>5. f \in Surjection(1..n, QueuedIds)
  BY <1>4 DEF Surjection
<1>6. f \in Injection(1..n, QueuedIds)
  BY <1>3, <1>4 DEF Injection, IsInjective
<1> HIDE DEF f, n
<1> QED
  BY <1>2, <1>5, <1>6, FS_Surjection DEF n

(* A step that leaves the lines and the counts alone. *)
LEMMA AccountUntouched ==
  ASSUME AccountInv,
         UNCHANGED <<queue, rows, deleted, accepted, nextOp, errors, crashLost>>
  PROVE  AccountInv'
BY DEF AccountInv, Lost, Written, StoredIds, QueuedIds

(* A row that is added makes its line a stored one. *)
LEMMA RowIsStored ==
  ASSUME NEW n, NEW op, rows' = rows \cup {[seq |-> n, op |-> op]},
         deleted' = deleted
  PROVE  Written' = Written \cup {op.id}
<1> DEFINE new == [seq |-> n, op |-> op]
<1>0. new.op = op
  OBVIOUS
<1> HIDE DEF new
<1>1. \A r \in rows' : r \in rows \/ r.op = op
  BY <1>0 DEF new
<1>2. rows \subseteq rows' /\ \E r \in rows' : r.op = op
  <2>1. rows' = rows \cup {new}
    BY DEF new
  <2> QED
    BY <1>0, <2>1
<1>3. \A id : id \in StoredIds' <=> id \in StoredIds \/ id = op.id
  BY <1>1, <1>2, Zenon DEF StoredIds
<1> QED
  BY <1>3 DEF Written

(* A line that is accepted is queued. *)
LEMMA EnqueueIsAccounted ==
  ASSUME TypeOK, LineOrder, AccountInv, NEW op \in NewOps(FALSE), Enqueue(op)
  PROVE  AccountInv'
<1>1. /\ queue' = Append(queue, op) /\ nextOp' = nextOp + 1
      /\ accepted' = accepted \cup {nextOp}
      /\ op.id = nextOp
      /\ UNCHANGED <<rows, deleted, errors, crashLost>>
  BY DEF Enqueue, NewOps, durable
<1>2. /\ queue \in Seq(Ops) /\ op \in Ops
      /\ nextOp \in Nat /\ DOMAIN queue = 1..Len(queue)
      /\ Len(queue) \in Nat
  BY LinesAreTyped, NewOpsAreOps DEF Enqueue
<1>3. /\ Len(queue') = Len(queue) + 1 /\ queue' \in Seq(Ops)
      /\ \A k \in 1..Len(queue) : queue'[k] = queue[k]
      /\ queue'[Len(queue) + 1] = op
  BY <1>1, <1>2, AppendProperties
<1>4. DOMAIN queue' = 1..(Len(queue) + 1)
  BY <1>3, LenProperties
<1>5. QueuedIds' = QueuedIds \cup {nextOp}
  <2>1. \A k \in DOMAIN queue' :
          \/ k \in DOMAIN queue /\ queue'[k] = queue[k]
          \/ queue'[k] = op
    BY <1>2, <1>3, <1>4
  <2>2. \A k \in DOMAIN queue : k \in DOMAIN queue' /\ queue'[k] = queue[k]
    BY <1>2, <1>3, <1>4
  <2>3. Len(queue) + 1 \in DOMAIN queue'
    BY <1>2, <1>4
  <2> QED
    BY <1>1, <1>3, <2>1, <2>2, <2>3 DEF QueuedIds
<1>6. Written' = Written /\ nextOp \notin Written /\ nextOp \notin accepted
  BY <1>1, <1>2 DEF Written, StoredIds, AccountInv, LineOrder
<1>7. Lost' = Lost
  BY <1>1, <1>5, <1>6 DEF Lost
<1>8. \A id \in accepted' \cup deleted' : id < nextOp'
  <2>1. \A id \in accepted \cup deleted : id \in Nat /\ id < nextOp
    BY StoreAssumption DEF AccountInv, TypeOK
  <2> QED
    BY <1>1, <1>2, <2>1
<1> QED
  BY <1>1, <1>5, <1>6, <1>7, <1>8 DEF AccountInv

(* A line that is appended directly was never accepted. *)
LEMMA AppendIsAccounted ==
  ASSUME TypeOK, LineOrder, AccountInv, NEW op \in NewOps(TRUE),
         AppendTranscript(op)
  PROVE  AccountInv'
<1>1. /\ rows' = rows \cup {[seq |-> lastSeq + 1, op |-> op]}
      /\ nextOp' = nextOp + 1 /\ op.id = nextOp
      /\ UNCHANGED <<queue, accepted, deleted, errors, crashLost>>
  BY DEF AppendTranscript, InsertRow, NewOps
<1>2. nextOp \in Nat /\ \A k \in DOMAIN queue : queue[k].id \in Nat
  BY LinesAreTyped
<1>3. QueuedIds' = QueuedIds /\ Written' = Written \cup {nextOp}
  BY <1>1, RowIsStored DEF QueuedIds
<1>4. nextOp \notin accepted /\ nextOp \notin QueuedIds
  BY <1>2 DEF AccountInv, LineOrder, QueuedIds
<1>5. Lost' = Lost
  BY <1>1, <1>3, <1>4 DEF Lost
<1>6. \A id \in accepted' \cup deleted' : id < nextOp'
  <2>1. \A id \in accepted \cup deleted : id \in Nat /\ id < nextOp
    BY StoreAssumption DEF AccountInv, TypeOK
  <2> QED
    BY <1>1, <1>2, <2>1
<1> QED
  BY <1>1, <1>3, <1>4, <1>5, <1>6 DEF AccountInv

(* What is left of the queue without its oldest line. *)
LEMMA QueuedTail ==
  ASSUME TypeOK, LineOrder, queue # <<>>, queue' = Tail(queue)
  PROVE  /\ Head(queue).id \in QueuedIds
         /\ QueuedIds' = QueuedIds \ {Head(queue).id}
<1>1. /\ Head(queue) = queue[1] /\ 1 \in DOMAIN queue
      /\ \A k \in DOMAIN queue' :
           /\ k + 1 \in DOMAIN queue /\ queue'[k] = queue[k + 1]
           /\ k \in Nat /\ Head(queue).id < queue'[k].id
  BY TailKeepsOrder
<1>2. /\ Len(queue) \in Nat /\ DOMAIN queue = 1..Len(queue)
      /\ DOMAIN queue' = 1..(Len(queue) - 1)
      /\ \A k \in DOMAIN queue : queue[k].id \in Nat
  BY LinesAreTyped, HeadTailProperties, LenProperties
<1>3. \A k \in DOMAIN queue :
        k = 1 \/ (k - 1 \in DOMAIN queue' /\ queue'[k - 1] = queue[k])
  BY <1>1, <1>2
<1>4. \A k \in DOMAIN queue' :
        queue'[k].id \in QueuedIds /\ queue'[k].id # Head(queue).id
  BY <1>1, <1>2 DEF QueuedIds
<1> QED
  BY <1>1, <1>3, <1>4 DEF QueuedIds

(* The oldest line moves from the queue to the table. *)
LEMMA DrainIsAccounted ==
  ASSUME TypeOK, LineOrder, AccountInv, DrainNext
  PROVE  AccountInv'
<1>1. /\ queue # <<>> /\ queue' = Tail(queue)
      /\ rows' = rows \cup {[seq |-> lastSeq + 1, op |-> Head(queue)]}
      /\ UNCHANGED <<accepted, deleted, nextOp, errors, crashLost>>
  BY DEF DrainNext, InsertRow, history
<1>2. Written' = Written \cup {Head(queue).id}
  BY <1>1, RowIsStored, Zenon
<1>3. /\ Head(queue).id \in QueuedIds
      /\ QueuedIds' = QueuedIds \ {Head(queue).id}
  BY <1>1, QueuedTail
<1>4. Lost' = Lost
  BY <1>1, <1>2, <1>3 DEF Lost
<1> QED
  BY <1>1, <1>2, <1>3, <1>4 DEF AccountInv

(* A failing append loses one line and reports one error. *)
LEMMA FailureIsAccounted ==
  ASSUME TypeOK, LineOrder, AccountInv, DrainFails
  PROVE  AccountInv'
<1> DEFINE id == Head(queue).id
<1>1. /\ queue # <<>> /\ queue' = Tail(queue) /\ errors' = errors + 1
      /\ UNCHANGED <<rows, accepted, deleted, nextOp, crashLost>>
  BY DEF DrainFails, AfterFailure, durable
<1>2. id \in QueuedIds /\ QueuedIds' = QueuedIds \ {id}
  BY <1>1, QueuedTail
<1> HIDE DEF id
<1>3. Written' = Written
  BY <1>1 DEF Written, StoredIds
<1>4. Lost' = Lost \cup {id} /\ id \notin Lost
  BY <1>1, <1>2, <1>3 DEF Lost, AccountInv
<1>5. Cardinality(Lost') = Cardinality(Lost) + 1
  BY <1>4, LostIsFinite, FS_AddElement
<1>6. Cardinality(Lost') = errors' + crashLost'
  BY <1>1, <1>5, LostIsFinite DEF AccountInv
<1> QED
  BY <1>1, <1>2, <1>3, <1>6 DEF AccountInv

(* Deleting a profile moves lines from the table to the deleted ones. *)
LEMMA DeleteIsAccounted ==
  ASSUME TypeOK, LineOrder, AccountInv, NEW p \in Profiles, DeleteProfile(p)
  PROVE  AccountInv'
<1>1. /\ rows' = rows \ RowsOf(p) /\ RowsOf(p) \subseteq rows
      /\ deleted' = deleted \cup {r.op.id : r \in RowsOf(p)}
      /\ UNCHANGED <<queue, accepted, nextOp, errors, crashLost>>
  BY DEF DeleteProfile, RowsOf
<1>2. Written' = Written
  BY <1>1 DEF Written, StoredIds
<1>3. QueuedIds' = QueuedIds
  BY <1>1 DEF QueuedIds
<1>4. Lost' = Lost
  BY <1>1, <1>2, <1>3 DEF Lost
<1>5. \A id \in deleted' : id \in deleted \/ \E r \in rows : id = r.op.id
  BY <1>1
<1>6. \A id \in accepted' \cup deleted' : id < nextOp'
  BY <1>1, <1>5 DEF AccountInv, LineOrder
<1> QED
  BY <1>1, <1>2, <1>3, <1>4, <1>6 DEF AccountInv

(* A crash loses the lines of the queue, and counts them. *)
LEMMA CrashIsAccounted ==
  ASSUME TypeOK, LineOrder, AccountInv, Crash
  PROVE  AccountInv'
<1>1. /\ queue' = <<>> /\ crashLost' = crashLost + Len(queue)
      /\ UNCHANGED <<rows, accepted, deleted, nextOp, errors>>
  BY DEF Crash, durable
<1>2. QueuedIds' = {}
  <2>1. DOMAIN queue' = {}
    BY <1>1
  <2> QED
    BY <2>1 DEF QueuedIds
<1>3. Written' = Written
  BY <1>1 DEF Written, StoredIds
<1>4. Lost' = Lost \cup QueuedIds /\ Lost \cap QueuedIds = {}
  BY <1>1, <1>2, <1>3 DEF Lost, AccountInv
<1>5. Cardinality(Lost') = Cardinality(Lost) + Len(queue)
  <2>1. Cardinality(Lost') = Cardinality(Lost) + Len(queue) - Cardinality({})
    <3>1. IsFiniteSet(Lost) /\ IsFiniteSet(QueuedIds)
      BY LostIsFinite, QueuedLinesDiffer
    <3>2. Cardinality(Lost \cup QueuedIds)
            = Cardinality(Lost) + Cardinality(QueuedIds)
                - Cardinality(Lost \cap QueuedIds)
      BY <3>1, FS_Union, Zenon
    <3>3. Cardinality(QueuedIds) = Len(queue)
      BY QueuedLinesDiffer
    <3> QED
      BY <1>4, <3>2, <3>3, Zenon
  <2>2. Cardinality({}) = 0
    BY FS_EmptySet
  <2> QED
    BY <2>1, <2>2, LostIsFinite, LinesAreTyped
<1>6. Cardinality(Lost') = errors' + crashLost'
  BY <1>1, <1>5, LostIsFinite, LinesAreTyped DEF AccountInv
<1> QED
  BY <1>1, <1>2, <1>3, <1>6 DEF AccountInv

LEMMA InitAccount == Init => AccountInv
<1> SUFFICES ASSUME Init PROVE AccountInv
  OBVIOUS
<1>1. DOMAIN <<>> = {}
  OBVIOUS
<1>2. /\ QueuedIds = {} /\ StoredIds = {} /\ deleted = {} /\ accepted = {}
      /\ errors = 0 /\ crashLost = 0
  BY <1>1 DEF Init, QueuedIds, StoredIds
<1>3. Lost = {}
  BY <1>2 DEF Lost
<1> QED
  BY <1>2, <1>3, FS_EmptySet DEF AccountInv

LEMMA NextAccount == IInv /\ AccountInv /\ [Next]_vars => AccountInv'
<1> SUFFICES ASSUME IInv, AccountInv, [Next]_vars PROVE AccountInv'
  OBVIOUS
<1>1. TypeOK /\ LineOrder
  BY DEF IInv, LinesInv
<1>2. CASE Open \/ BeginMigrate \/ SkipMigration \/ RunStatement \/ RecordVersion
  BY <1>2, AccountUntouched
     DEF Open, BeginMigrate, SkipMigration, RunStatement, RecordVersion,
         durable, history
<1>3. CASE EndMigrate \/ MigrateFault \/ BeginDrain \/ EndDrain \/ UNCHANGED vars
  BY <1>3, AccountUntouched
     DEF EndMigrate, MigrateFault, BeginDrain, EndDrain, vars, durable, history
<1>4. ASSUME NEW op \in NewOps(FALSE), Enqueue(op) PROVE AccountInv'
  BY <1>1, <1>4, EnqueueIsAccounted
<1>5. ASSUME NEW op \in NewOps(TRUE), AppendTranscript(op) PROVE AccountInv'
  BY <1>1, <1>5, AppendIsAccounted
<1>6. CASE DrainNext
  BY <1>1, <1>6, DrainIsAccounted
<1>7. CASE DrainFails
  BY <1>1, <1>7, FailureIsAccounted
<1>8. ASSUME NEW p \in Profiles, DeleteProfile(p) PROVE AccountInv'
  BY <1>1, <1>8, DeleteIsAccounted
<1>9. CASE Crash
  BY <1>1, <1>9, CrashIsAccounted
<1> QED
  BY <1>2, <1>3, <1>4, <1>5, <1>6, <1>7, <1>8, <1>9, Zenon DEF Next

(* Every line that enqueue accepted is queued, stored or deleted, but for  *)
(* one per error of drain_into and those that a crash found in the queue.  *)
THEOREM NoLineVanishes == Spec => []LinesAccounted
<1>1. AccountInv => LinesAccounted
  BY DEF AccountInv, LinesAccounted, Lost, Written, StoredIds, QueuedIds
<1>2. Spec => []AccountInv
  BY InitAccount, NextAccount, InvariantHolds, PTL DEF Spec
<1> QED
  BY <1>1, <1>2, PTL

=============================================================================
