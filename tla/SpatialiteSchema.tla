-------------------------- MODULE SpatialiteSchema --------------------------
(***************************************************************************)
(* Opening a spatialite repository (internal/backends/spatialite: Open,    *)
(* runMigrations, ensureGeometryAndIndex) in several processes that share  *)
(* one database file.                                                      *)
(*                                                                         *)
(* A step is one SQL statement, or the rest of a transaction once it holds *)
(* the write lock.  SQLite and mod_spatialite are external: a reader never *)
(* waits (WAL); one transaction writes at a time; a transaction that began *)
(* by reading may go on to write only if nobody committed since and nobody *)
(* is writing, and is refused without waiting otherwise; all other writers *)
(* wait for busy_timeout.  The spatial functions are SELECTs whose failure *)
(* is a 0 in the row that nobody scans, never an error.                    *)
(***************************************************************************)
EXTENDS Naturals, FiniteSets

CONSTANTS
  Proc,          \* processes that open the file
  NoProc,        \* nobody
  SchemaVersion, \* the SchemaVersion of each process's binary
  ReadsFirst     \* migrations whose first statement finds its table there

ASSUME ProcAssumption == IsFiniteSet(Proc) /\ NoProc \notin Proc
ASSUME VersionAssumption ==
  SchemaVersion \in [Proc -> Nat \ {0}] /\ ReadsFirst \subseteq Nat

VARIABLES
  file,   \* what is committed
  writer, \* who holds the write lock
  step,   \* where each process is in Open
  seen,   \* its local variables
  done,   \* processes whose ctx is done
  alone,  \* history: openers that had the file to themselves since they began
  calm    \* history: nothing was killed, cancelled or timed out yet

schemaVars == <<file, writer, step, seen, done, alone, calm>>

Opening == {"connect", "bootstrap", "version", "next", "upgrade", "commit",
            "metadata", "probeGeom", "addColumn", "register",
            "probeIndex", "enableIndex", "buildIndex"}
Steps == Opening \cup {"closed", "failed", "open"}

(* SELECT COALESCE(MAX(version), 0) FROM polystac_schema                   *)
currentSchemaVersion ==
  CHOOSE v \in {0} \cup file.recorded : \A w \in file.recorded : w <= v

NothingSeen == [at |-> 0, current |-> FALSE]

SchemaInit ==
  /\ file = [wal |-> FALSE, boot |-> FALSE, made |-> {}, recorded |-> {}, meta |-> FALSE,
             column |-> FALSE, registered |-> FALSE,
             enabled |-> FALSE, index |-> FALSE]
  /\ writer = NoProc
  /\ step = [p \in Proc |-> "closed"]
  /\ seen = [p \in Proc |-> NothingSeen]
  /\ done = {}
  /\ alone = {}
  /\ calm = TRUE

-----------------------------------------------------------------------------
(* p's next statement; what p keeps; and a commit, after which the read    *)
(* snapshot of every other open transaction is out of date.                *)
Goto(p, s)    == step' = [step EXCEPT ![p] = s]
Keep(p, s)    == seen' = [seen EXCEPT ![p] = s]
Commit(p, f, s) ==
  /\ file' = f
  /\ seen' = [q \in Proc |->
                IF q = p THEN s ELSE [seen[q] EXCEPT !.current = @ /\ f = file]]

Quiet    == UNCHANGED <<done, alone, calm>>
Locked(p) == writer \notin {NoProc, p}

(* openDB: sql.Open connects to nothing yet.                               *)
StartOpen(p) ==
  /\ step[p] = "closed"
  /\ Goto(p, "connect")
  /\ alone' = IF \A q \in Proc : step[q] = "closed" THEN {p} ELSE {}
  /\ UNCHANGED <<file, writer, seen, done, calm>>

(* The first connection, pingExtension's, makes the file a WAL file, which *)
(* it stays: SQLite reads the mode, then asks for the lock without waiting.*)
Connect(p) ==
  /\ step[p] = "connect"
  /\ Commit(p, [file EXCEPT !.wal = TRUE], seen[p])
  /\ Goto(p, "bootstrap")
  /\ UNCHANGED writer /\ Quiet

ConnectRefused(p) ==
  /\ step[p] = "connect" /\ ~file.wal
  /\ \E q \in Proc \ {p} : step[q] = "connect"
  /\ Goto(p, "failed")
  /\ UNCHANGED <<file, writer, seen>> /\ Quiet

(* CREATE TABLE IF NOT EXISTS polystac_schema                              *)
Bootstrap(p) ==
  /\ step[p] = "bootstrap"
  /\ file.boot \/ ~Locked(p)
  /\ Commit(p, [file EXCEPT !.boot = TRUE], seen[p])
  /\ Goto(p, "version")
  /\ UNCHANGED writer /\ Quiet

(* Mutant: one migration too many is skipped.                              *)
ReadVersionAndSkip(p) ==
  /\ step[p] = "version"
  /\ Goto(p, "next")
  /\ Keep(p, [seen[p] EXCEPT !.at = currentSchemaVersion + 2])
  /\ UNCHANGED <<file, writer>> /\ Quiet

(* Mutant: the version of the binary itself is refused as well.            *)
ReadVersionStrictly(p) ==
  /\ step[p] = "version"
  /\ IF currentSchemaVersion >= SchemaVersion[p]
     THEN Goto(p, "failed") /\ UNCHANGED seen
     ELSE /\ Goto(p, "next")
          /\ Keep(p, [seen[p] EXCEPT !.at = currentSchemaVersion + 1])
  /\ UNCHANGED <<file, writer>> /\ Quiet

(* The version is read once; the loop skips the migrations up to it.       *)
ReadVersion(p) ==
  /\ step[p] = "version"
  /\ IF currentSchemaVersion > SchemaVersion[p]
     THEN Goto(p, "failed") /\ UNCHANGED seen
     ELSE /\ Goto(p, "next")
          /\ Keep(p, [seen[p] EXCEPT !.at = currentSchemaVersion + 1])
  /\ UNCHANGED <<file, writer>> /\ Quiet

-----------------------------------------------------------------------------
(* applyMigration.  The body is CREATE ... IF NOT EXISTS throughout: where *)
(* the first of these finds what it would create, it only reads.           *)
BeginReading(p) ==
  /\ step[p] = "next"
  /\ seen[p].at <= SchemaVersion[p]
  /\ seen[p].at \in ReadsFirst \cup file.made
  /\ Goto(p, "upgrade")
  /\ Keep(p, [seen[p] EXCEPT !.current = TRUE])
  /\ UNCHANGED <<file, writer>> /\ Quiet

BeginWriting(p) ==
  /\ step[p] = "next"
  /\ seen[p].at <= SchemaVersion[p]
  /\ seen[p].at \notin ReadsFirst \cup file.made
  /\ writer = NoProc
  /\ writer' = p
  /\ Goto(p, "commit")
  /\ UNCHANGED <<file, seen>> /\ Quiet

(* The next CREATE, or else the INSERT of the version, asks for the lock.  *)
Upgrade(p) ==
  /\ step[p] = "upgrade"
  /\ writer = NoProc /\ seen[p].current
  /\ writer' = p
  /\ Goto(p, "commit")
  /\ UNCHANGED <<file, seen>> /\ Quiet

(* SQLITE_BUSY; the deferred Rollback, and Open returns the error.         *)
UpgradeRefused(p) ==
  /\ step[p] = "upgrade"
  /\ Locked(p) \/ ~seen[p].current
  /\ Goto(p, "failed")
  /\ UNCHANGED <<file, writer, seen>> /\ Quiet

CommitMigration(p) ==
  /\ step[p] = "commit"
  /\ Commit(p, [file EXCEPT !.made = @ \cup {seen[p].at},
                            !.recorded = @ \cup {seen[p].at}],
            [at |-> seen[p].at + 1, current |-> FALSE])
  /\ writer' = NoProc
  /\ Goto(p, "next")
  /\ Quiet

MigrationsDone(p) ==
  /\ step[p] = "next"
  /\ seen[p].at > SchemaVersion[p]
  /\ Goto(p, "metadata")
  /\ UNCHANGED <<file, writer, seen>> /\ Quiet

-----------------------------------------------------------------------------
(* ensureGeometryAndIndex.  InitSpatialMetadata is one transaction;        *)
(* AddGeometryColumn adds the column and then registers it, and            *)
(* CreateSpatialIndex marks the registered column and then builds the      *)
(* R-Tree, in statements that commit one by one.                           *)
InitSpatialMetadata(p) ==
  /\ step[p] = "metadata"
  /\ file.meta \/ ~Locked(p)
  /\ Commit(p, [file EXCEPT !.meta = TRUE], seen[p])
  /\ Goto(p, "probeGeom")
  /\ UNCHANGED writer /\ Quiet

(* SELECT COUNT of geometry_columns: an error while that table is missing. *)
ProbeGeometry(p) ==
  /\ step[p] = "probeGeom"
  /\ Goto(p, IF ~file.meta THEN "failed"
             ELSE IF file.registered THEN "probeIndex" ELSE "addColumn")
  /\ UNCHANGED <<file, writer, seen>> /\ Quiet

AddColumn(p) ==
  /\ step[p] = "addColumn"
  /\ file.column \/ ~Locked(p)
  /\ Commit(p, [file EXCEPT !.column = TRUE], seen[p])
  /\ Goto(p, IF file.column THEN "probeIndex" ELSE "register")
  /\ UNCHANGED writer /\ Quiet

RegisterColumn(p) ==
  /\ step[p] = "register"
  /\ ~Locked(p)
  /\ Commit(p, [file EXCEPT !.registered = TRUE], seen[p])
  /\ Goto(p, "probeIndex")
  /\ UNCHANGED writer /\ Quiet

(* Mutant: the index is taken to be there when the column is.              *)
ProbeIndexByColumn(p) ==
  /\ step[p] = "probeIndex"
  /\ Goto(p, IF file.registered THEN "open" ELSE "enableIndex")
  /\ UNCHANGED <<file, writer, seen>> /\ Quiet

ProbeIndex(p) ==
  /\ step[p] = "probeIndex"
  /\ Goto(p, IF file.index THEN "open" ELSE "enableIndex")
  /\ UNCHANGED <<file, writer, seen>> /\ Quiet

EnableIndex(p) ==
  /\ step[p] = "enableIndex"
  /\ IF file.registered /\ ~file.enabled
     THEN /\ ~Locked(p)
          /\ Commit(p, [file EXCEPT !.enabled = TRUE], seen[p])
          /\ Goto(p, "buildIndex")
     ELSE Goto(p, "open") /\ UNCHANGED <<file, seen>>
  /\ UNCHANGED writer /\ Quiet

(* applyPragmas follows and writes nothing.                                *)
BuildIndex(p) ==
  /\ step[p] = "buildIndex"
  /\ ~Locked(p)
  /\ Commit(p, [file EXCEPT !.index = TRUE], seen[p])
  /\ Goto(p, "open")
  /\ UNCHANGED writer /\ Quiet

-----------------------------------------------------------------------------
(* busy_timeout passes: an error of a statement of the backend, a 0 from a *)
(* spatial function, after which Open goes on.                             *)
BusyFails(p) ==
  /\ Locked(p)
  /\ \/ step[p] = "bootstrap" /\ ~file.boot
     \/ /\ step[p] = "next"
        /\ seen[p].at <= SchemaVersion[p]
        /\ seen[p].at \notin ReadsFirst \cup file.made
  /\ Goto(p, "failed")
  /\ calm' = FALSE
  /\ UNCHANGED <<file, writer, seen, done, alone>>

BusyIgnored(p) ==
  /\ Locked(p)
  /\ \/ step[p] = "metadata" /\ ~file.meta /\ Goto(p, "probeGeom")
     \/ step[p] = "addColumn" /\ ~file.column /\ Goto(p, "probeIndex")
     \/ step[p] = "register" /\ Goto(p, "probeIndex")
     \/ /\ step[p] = "enableIndex" /\ file.registered /\ ~file.enabled
        /\ Goto(p, "open")
     \/ step[p] = "buildIndex" /\ Goto(p, "open")
  /\ calm' = FALSE
  /\ UNCHANGED <<file, writer, seen, done, alone>>

Unlock(p) == writer' = IF writer = p THEN NoProc ELSE writer

(* Mutant: nothing rolls the transaction back, and db stays open.          *)
OpenCancelledHoldingLock(p) ==
  /\ p \in done
  /\ step[p] \in Opening
  /\ Goto(p, "failed")
  /\ calm' = FALSE
  /\ UNCHANGED <<file, writer, seen, done, alone>>

(* A statement whose ctx is done returns an error; an open transaction is  *)
(* rolled back and the database closed.                                    *)
OpenCancelled(p) ==
  /\ p \in done
  /\ step[p] \in Opening
  /\ Goto(p, "failed")
  /\ Unlock(p)
  /\ calm' = FALSE
  /\ UNCHANGED <<file, seen, done, alone>>

(* The process leaves Open, or is killed: its connection is gone, and the  *)
(* open transaction with it.                                               *)
CloseFile(p, killed) ==
  /\ Goto(p, "closed")
  /\ Unlock(p)
  /\ done' = done \ {p}
  /\ alone' = alone \ {p}
  /\ calm' = (calm /\ ~killed)
  /\ Keep(p, NothingSeen)
  /\ UNCHANGED file

(* A write of the open repository outdates the snapshots of the others.    *)
WriteItem(p) ==
  /\ step[p] = "open"
  /\ ~Locked(p)
  /\ seen' = [q \in Proc |->
                IF q = p THEN seen[p] ELSE [seen[q] EXCEPT !.current = FALSE]]
  /\ UNCHANGED <<file, writer, step, done, alone, calm>>

OpenStep(p) ==
  \/ Connect(p) \/ ConnectRefused(p)
  \/ Bootstrap(p) \/ ReadVersion(p)
  \/ BeginReading(p) \/ BeginWriting(p)
  \/ Upgrade(p) \/ UpgradeRefused(p)
  \/ CommitMigration(p) \/ MigrationsDone(p)
  \/ InitSpatialMetadata(p) \/ ProbeGeometry(p)
  \/ AddColumn(p) \/ RegisterColumn(p)
  \/ ProbeIndex(p) \/ EnableIndex(p) \/ BuildIndex(p)
  \/ BusyFails(p) \/ BusyIgnored(p) \/ OpenCancelled(p)

-----------------------------------------------------------------------------
SchemaTypeOK ==
  /\ file \in [wal: BOOLEAN, boot: BOOLEAN, made: SUBSET Nat, recorded: SUBSET Nat,
               meta: BOOLEAN, column: BOOLEAN, registered: BOOLEAN,
               enabled: BOOLEAN, index: BOOLEAN]
  /\ writer \in Proc \cup {NoProc}
  /\ step \in [Proc -> Steps]
  /\ seen \in [Proc -> [at: Nat, current: BOOLEAN]]
  /\ done \subseteq Proc
  /\ alone \subseteq Proc
  /\ calm \in BOOLEAN
  /\ \A p \in Proc : step[p] = "commit" <=> writer = p

(* A version is in polystac_schema only when its migration and all before  *)
(* it were carried out, whatever other processes with older or newer       *)
(* binaries, crashes and refused transactions do (applyMigration records   *)
(* it in the transaction of its body): later starters skip on its word.    *)
RecordedIsApplied == \A v \in file.recorded : 1..v \subseteq file.made

(* An opened repository finds the tables of every migration of its binary, *)
(* although it read the version once and others migrated meanwhile.        *)
OpenHasSchema ==
  \A p \in Proc : step[p] = "open" => 1..SchemaVersion[p] \subseteq file.made

Complete == file.column /\ file.registered /\ file.index

(* What is left when a process stops half way through a spatial function.  *)
Torn == file.column # file.registered \/ file.enabled # file.index

(* A process that has the file to itself opens it, whatever crashes left   *)
(* there, unless its ctx is done or the schema is of a newer binary; and   *)
(* then the schema is complete, unless a process stopped inside            *)
(* AddGeometryColumn or CreateSpatialIndex, which no restart repairs       *)
(* (ensureGeometryAndIndex cannot see that these report failure).          *)
LoneStart ==
  \A p \in alone :
    /\ step[p] = "failed" =>
         p \in done \/ currentSchemaVersion > SchemaVersion[p]
    /\ step[p] = "open" => file.column /\ (Complete \/ Torn)

(* Processes that open one new file together, with nobody killed,          *)
(* cancelled or timed out: once none is at work and one of them got        *)
(* through, the schema is complete, whoever was refused (the checks of     *)
(* ensureGeometryAndIndex and what follows them are not one transaction).  *)
RaceEndsComplete ==
  /\ calm
  /\ \A p \in Proc : step[p] \notin Opening
  /\ \E p \in Proc : step[p] = "open"
  => Complete
=============================================================================
