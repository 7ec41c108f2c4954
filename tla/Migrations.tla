---------------------------- MODULE Migrations ----------------------------
(* The schema migrations of server/migrations.py, as the repositories of     *)
(* server/state_store.py run them at startup, on one SQLite file.  Starters  *)
(* are processes that start on the same database: guide.md speaks of         *)
(* "concurrent first-start races".  The driver opens a transaction at the    *)
(* first row that is written; a DDL statement before that commits by itself  *)
(* (or opens the transaction too: both are allowed here).  Every catalogue   *)
(* lookup and the statement that relies on it are separate steps, and a      *)
(* process may die between any two.                                          *)
EXTENDS Integers, Sequences, FiniteSets, SequencesExt

CONSTANTS
  Starters, NoStarter,
  Current,      \* the schema version this application supports
  InitialDatabases,  \* the databases earlier releases have left behind
  MaxFaults     \* bound on crashes and lock timeouts

ASSUME VersionAssumption == Current = 5 /\ NoStarter \notin Starters

\* The version table has no row.
NoVersion == -1

Tables == {"a2a_schema_version", "claims", "interrupts"}

\* What the metadata of a table declares: columns that later releases added,
\* and indexes.
Columns == [a2a_schema_version |-> {}, claims |-> {"expires_at"},
            interrupts |-> {"details_json", "credential_id"}]
Indexes == [a2a_schema_version |-> {}, claims |-> {"claims_expiry_index"},
            interrupts |-> {"interrupts_identity_index", "interrupts_tombstone_index"}]

\* What each migration brings about; the last one deletes the legacy rows.
DetailsColumn == {"details_json"}
ExpiryColumn == {"expires_at"}
StateIndexes == Indexes.claims \cup Indexes.interrupts
CredentialColumn == {"credential_id"}

Effect == <<DetailsColumn, ExpiryColumn, StateIndexes, CredentialColumn, {}>>

VARIABLES
  db,      \* the committed database
  work,    \* the database as the open transaction sees it
  writer,  \* who holds the write lock, or NoStarter
  pc,      \* starter -> where it is
  todo,    \* starter -> the objects create_all found missing, in order
  step,    \* starter -> the migration it is at
  object,  \* starter -> the object its last lookup did not find
  row,     \* starter -> the version row it read before it writes
  faults

vars == <<db, work, writer, pc, todo, step, object, row, faults>>

Init ==
  /\ db \in InitialDatabases /\ work = db /\ writer = NoStarter
  /\ pc = [p \in Starters |-> "down"]
  /\ todo = [p \in Starters |-> <<>>]
  /\ step = [p \in Starters |-> 0]
  /\ object = [p \in Starters |-> "none"]
  /\ row = [p \in Starters |-> NoVersion]
  /\ faults = 0

\* The database as p sees it, and p's right to write.
View(p) == IF writer = p THEN work ELSE db
MayWrite(p) == writer \in {p, NoStarter}

\* A row is written: the transaction opens, or goes on.
WriteRow(p, after) ==
  /\ MayWrite(p) /\ writer' = p /\ work' = after /\ UNCHANGED db

\* A DDL statement: inside the transaction, or committed by itself.
WriteDdl(p, after) ==
  \/ WriteRow(p, after)
  \/ writer = NoStarter /\ db' = after /\ work' = after /\ UNCHANGED writer

Rollback(p) == /\ writer' = IF writer = p THEN NoStarter ELSE writer
               /\ work' = IF writer = p THEN db ELSE work
               /\ UNCHANGED db

Goto(p, l) == pc' = [pc EXCEPT ![p] = l]

\* An exception leaves engine.begin(): rollback, and the process stops.
Fail(p) == Rollback(p) /\ Goto(p, "failed") /\ UNCHANGED <<todo, step, object, row, faults>>

\* create_all looks at the catalogue once and creates what is missing: a table
\* with all its columns, then its indexes.
Missing(view) ==
  LET tables == SetToSeq(Tables \ view.tables)
  IN  FlattenSeq([i \in DOMAIN tables |-> <<tables[i]>> \o SetToSeq(Indexes[tables[i]])])

Start(p) ==
  /\ pc[p] \in {"down", "failed"}
  /\ todo' = [todo EXCEPT ![p] = Missing(db)]
  /\ Goto(p, "create_all")
  /\ UNCHANGED <<db, work, writer, step, object, row, faults>>

Present(view) == view.tables \cup view.has

Create(p) ==
  /\ pc[p] = "create_all" /\ todo[p] # <<>>
  /\ LET x == Head(todo[p])
         v == View(p)
     IN  \/ x \in Present(v) /\ Fail(p)
         \/ /\ x \notin Present(v)
            /\ WriteDdl(p, IF x \in Tables
                           THEN [v EXCEPT !.tables = @ \cup {x}, !.has = @ \cup Columns[x]]
                           ELSE [v EXCEPT !.has = @ \cup {x}])
            /\ todo' = [todo EXCEPT ![p] = Tail(@)]
            /\ UNCHANGED <<pc, step, object, row, faults>>

\* Defect: a database without a version row counts as current
ReadVersionNoRow(p) ==
  /\ pc[p] = "create_all" /\ todo[p] = <<>>
  /\ LET stored == View(p).version
     IN  step' = [step EXCEPT ![p] = IF stored = NoVersion THEN Current + 1 ELSE stored + 1]
  /\ Goto(p, "migrate")
  /\ UNCHANGED <<db, work, writer, todo, object, row, faults>>

\* _apply_schema_migrations: where to begin, unless the database is newer.
ReadVersion(p) ==
  /\ pc[p] = "create_all" /\ todo[p] = <<>>
  /\ LET stored == View(p).version
     IN  \/ stored > Current /\ Fail(p)
         \/ /\ stored <= Current
            /\ step' = [step EXCEPT ![p] = IF stored = NoVersion THEN 1 ELSE stored + 1]
            /\ Goto(p, "migrate")
            /\ UNCHANGED <<db, work, writer, todo, object, row, faults>>

\* Defect: the version is written before the migration it stands for
LookupAfterVersion(p) ==
  /\ pc[p] = "migrate" /\ step[p] < Current
  /\ Goto(p, "read_row")
  /\ UNCHANGED <<db, work, writer, todo, step, object, row, faults>>

\* The next object of the migration that the catalogue does not have.
Lookup(p) ==
  /\ pc[p] = "migrate" /\ step[p] < Current
  /\ LET missing == Effect[step[p]] \ View(p).has
     IN  \/ /\ missing = {} /\ Goto(p, "read_row") /\ UNCHANGED object
         \/ \E x \in missing : Goto(p, "ddl") /\ object' = [object EXCEPT ![p] = x]
  /\ UNCHANGED <<db, work, writer, todo, step, row, faults>>

\* _add_missing_nullable_column, _create_missing_index: the statement.
Ddl(p) ==
  /\ pc[p] = "ddl"
  /\ LET v == View(p)
     IN  \/ object[p] \in v.has /\ Fail(p)
         \/ /\ object[p] \notin v.has
            /\ WriteDdl(p, [v EXCEPT !.has = @ \cup {object[p]}])
            /\ Goto(p, "migrate")
            /\ UNCHANGED <<todo, step, object, row, faults>>

\* Defect: the migration deletes every pending claim
DropLegacyRowsAll(p) ==
  /\ pc[p] = "migrate" /\ step[p] = Current
  /\ WriteRow(p, [View(p) EXCEPT !.rows = {}])
  /\ Goto(p, "read_row")
  /\ UNCHANGED <<todo, step, object, row, faults>>

\* _migration_5_drop_legacy_pending_claim_rows: a row write like any other.
DropLegacyRows(p) ==
  /\ pc[p] = "migrate" /\ step[p] = Current
  /\ WriteRow(p, [View(p) EXCEPT !.rows = @ \ {"legacy"}])
  /\ Goto(p, "read_row")
  /\ UNCHANGED <<todo, step, object, row, faults>>

\* _write_schema_version reads before it writes.
ReadRow(p) ==
  /\ pc[p] = "read_row"
  /\ row' = [row EXCEPT ![p] = View(p).version]
  /\ Goto(p, "write_row")
  /\ UNCHANGED <<db, work, writer, todo, step, object, faults>>

\* Defect: the insert of a row somebody else has inserted is an error
WriteRowStrict(p) ==
  /\ pc[p] = "write_row" /\ MayWrite(p)
  /\ \/ row[p] = NoVersion /\ View(p).version # NoVersion /\ Fail(p)
     \/ /\ row[p] # NoVersion \/ View(p).version = NoVersion
        /\ WriteRow(p, [View(p) EXCEPT !.version = step[p]])
        /\ step' = [step EXCEPT ![p] = @ + 1]
        /\ Goto(p, "migrate")
        /\ UNCHANGED <<todo, object, row, faults>>

\* Defect: every migration is committed by itself
WriteVersionCommits(p) ==
  /\ pc[p] = "write_row" /\ MayWrite(p)
  /\ LET after == [View(p) EXCEPT !.version = step[p]]
     IN  db' = after /\ work' = after /\ writer' = NoStarter
  /\ step' = [step EXCEPT ![p] = @ + 1]
  /\ Goto(p, "migrate")
  /\ UNCHANGED <<todo, object, row, faults>>

\* Update, or insert, or update after a conflict: the row holds the step.
WriteVersion(p) ==
  /\ pc[p] = "write_row"
  /\ WriteRow(p, [View(p) EXCEPT !.version = step[p]])
  /\ step' = [step EXCEPT ![p] = @ + 1]
  /\ Goto(p, "migrate")
  /\ UNCHANGED <<todo, object, row, faults>>

\* Defect: the connection goes back to the pool with its transaction open
CommitKeepsLock(p) ==
  /\ pc[p] = "migrate" /\ step[p] > Current
  /\ db' = View(p)
  /\ Goto(p, "up")
  /\ UNCHANGED <<work, writer, todo, step, object, row, faults>>

\* engine.begin() ends: commit, and the repository is initialized.
Commit(p) ==
  /\ pc[p] = "migrate" /\ step[p] > Current
  /\ db' = View(p)
  /\ writer' = IF writer = p THEN NoStarter ELSE writer
  /\ Goto(p, "up")
  /\ UNCHANGED <<work, todo, step, object, row, faults>>

\* The process dies, or a statement waits longer than busy_timeout.
Crash(p) ==
  /\ pc[p] \notin {"down", "failed", "up"} /\ faults < MaxFaults
  /\ faults' = faults + 1
  /\ Rollback(p) /\ Goto(p, "down")
  /\ UNCHANGED <<todo, step, object, row>>

\* An application that is up and stops leaves the database as it is.
Stop(p) == /\ pc[p] = "up" /\ faults < MaxFaults
           /\ faults' = faults + 1
           /\ Goto(p, "down")
           /\ UNCHANGED <<db, work, writer, todo, step, object, row>>

Step(p) == \/ Start(p) \/ Create(p) \/ ReadVersion(p) \/ Lookup(p) \/ Ddl(p)
           \/ DropLegacyRows(p) \/ ReadRow(p) \/ WriteVersion(p) \/ Commit(p)

Next == \E p \in Starters : Step(p) \/ Crash(p) \/ Stop(p)

Spec == Init /\ [][Next]_vars

\* A supervisor restarts what failed; the write lock is granted in the end.
Fairness == \A p \in Starters : SF_vars(Step(p))

FairSpec == Spec /\ Fairness

-----------------------------------------------------------------------------
(* Properties *)

Catalogue(tables) == UNION {Columns[t] \cup Indexes[t] : t \in tables}
Databases ==
  [tables : SUBSET Tables, has : SUBSET Catalogue(Tables), version : Nat \cup {NoVersion},
   rows : SUBSET {"legacy", "current"}]

\* Columns, indexes and the version row are those of tables that are there.
Coherent(d) ==
  /\ d.has \subseteq Catalogue(d.tables)
  /\ d.version # NoVersion => "a2a_schema_version" \in d.tables

\* A recorded version means that every migration up to it has taken effect.
Truthful(d) ==
  d.version # NoVersion =>
    /\ \A k \in 1 .. Current : k <= d.version => Effect[k] \subseteq d.has
    /\ d.version >= Current => "legacy" \notin d.rows

\* Earlier releases left no database that lies about its schema.
ASSUME DatabasesAssumption ==
  /\ MaxFaults \in Nat
  /\ \A d \in InitialDatabases : d \in Databases /\ Coherent(d) /\ Truthful(d)

Migrating == {"migrate", "ddl", "read_row", "write_row"}
Starting == {"create_all"} \cup Migrating

\* The database is one the schema knows, and only the lock's holder differs.
TypeOK ==
  /\ {db, work} \subseteq Databases /\ Coherent(db) /\ Coherent(work)
  /\ writer \in Starters \cup {NoStarter}
  /\ pc \in [Starters -> {"down", "failed", "up"} \cup Starting]
  /\ todo \in [Starters -> Seq(Tables \cup UNION {Indexes[t] : t \in Tables})]
  /\ step \in [Starters -> 0 .. Current + 1]
  /\ object \in [Starters -> Catalogue(Tables) \cup {"none"}]
  /\ row \in [Starters -> Nat \cup {NoVersion}] /\ faults \in 0 .. MaxFaults
  /\ writer = NoStarter => work = db
  /\ \A p \in Starters : pc[p] = "up" => writer # p

\* migrations.py: a version in the database means that every migration up to
\* it has taken effect, whoever ran it and wherever the others died.
VersionTellsTruth == Truthful(db)

\* An application is up only on a database with the whole current schema.
UpMeansMigrated ==
  \A p \in Starters :
    pc[p] = "up" => /\ db.version = Current /\ db.tables = Tables
                    /\ UNION {Effect[k] : k \in 1 .. Current} \subseteq db.has
                    /\ "legacy" \notin db.rows

\* A starter that comes late and begins again at the first migration never
\* shows the others an older version, and a newer database is not touched by
\* the migrations.
VersionNeverRegresses ==
  [][db.version # NoVersion =>
       /\ db'.version # NoVersion /\ db'.version >= db.version
       /\ db.version > Current => db'.version = db.version /\ db'.rows = db.rows]_vars

\* Nothing is lost: what the catalogue has stays, and of the pending claims
\* only those without an expiry are deleted.
NothingLost ==
  [][/\ db.tables \subseteq db'.tables /\ db.has \subseteq db'.has
     /\ db.rows \ {"legacy"} = db'.rows \ {"legacy"}]_vars

\* guide.md: schema-version writes are idempotent across concurrent first
\* starts - a starter never fails because another one wrote the row first.
VersionWritesSucceed ==
  [][\A p \in Starters : pc[p] = "write_row" => pc'[p] # "failed"]_vars

\* Whatever dies on the way, a starter of a database that is not newer is up
\* in the end, with the others still starting.
StartsInTheEnd ==
  \A p \in Starters :
    db.version <= Current ~> pc[p] = "up"

\* The recorded version and a process that is up both tell the truth about the
\* committed schema, whoever crashed or started meanwhile (migrations.py).
SchemaTrue == TypeOK /\ VersionTellsTruth /\ UpMeansMigrated

\* Starters that race do not undo each other's work: no version goes back, no row
\* that can still be of use is lost, and the version write of a process that got there
\* second does not fail (migrations.py).
SchemaKept == VersionNeverRegresses /\ NothingLost /\ VersionWritesSucceed

-----------------------------------------------------------------------------
(* What makes these properties inductive.                                    *)

\* The lock's holder is starting, and its transaction takes nothing away.
WorkTrue ==
  /\ writer # NoStarter => pc[writer] \in Starting
  /\ db.tables \subseteq work.tables /\ db.has \subseteq work.has
  /\ work.rows \subseteq db.rows /\ db.rows \ {"legacy"} \subseteq work.rows
  /\ Truthful(work)

\* What create_all has still to do makes the tables complete, and an index comes
\* after its table; nobody has written the version row yet.
CreateTrue ==
  \A p \in Starters : pc[p] = "create_all" =>
    /\ Tables \subseteq View(p).tables \cup Range(todo[p])
    /\ \A i \in DOMAIN todo[p], t \in Tables :
         todo[p][i] \in Indexes[t] =>
           t \in View(p).tables \/ \E j \in 1 .. i - 1 : todo[p][j] = t
    /\ View(p).version = db.version

\* Where a starter is in the migrations, the ones before are in force as it sees
\* the database, the recorded version is not behind, and the database is not newer.
StepTrue ==
  \A p \in Starters : pc[p] \in Migrating =>
    /\ View(p).tables = Tables /\ View(p).version <= Current /\ db.version <= Current
    /\ step[p] >= 1 /\ (step[p] > 1 => View(p).version >= step[p] - 1)
    /\ \A k \in 1 .. Current : k < step[p] => Effect[k] \subseteq View(p).has
    /\ pc[p] = "ddl" => step[p] < Current /\ object[p] \in Effect[step[p]]
    /\ pc[p] \in {"read_row", "write_row"} =>
         /\ step[p] <= Current /\ Effect[step[p]] \subseteq View(p).has
         /\ step[p] = Current => "legacy" \notin View(p).rows

MigrationInv == SchemaTrue /\ WorkTrue /\ CreateTrue /\ StepTrue

=============================================================================
