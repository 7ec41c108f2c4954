----------------------------- MODULE MCStartup -----------------------------
(* Starting and stopping the application for TLC.  A behaviour is about one   *)
(* part, the others stand still: processes that migrate the schema, processes *)
(* that open the database file, or the lifespan of one application.           *)
EXTENDS Startup

CONSTANTS p1, p2

VARIABLE part

-----------------------------------------------------------------------------
(* Two starters on every database an earlier release may have left: none,     *)
(* each version complete, a complete schema without a version row, and one a  *)
(* newer release has migrated.                                                *)

MCStarters == {p1, p2}

Upto(k) == UNION {Effect[i] : i \in 1 .. k}
Database(tables, has, version, rows) ==
  [tables |-> tables, has |-> has, version |-> version, rows |-> rows]

NoDatabase == Database({}, {}, NoVersion, {})
OldTables == Tables \ {"a2a_schema_version"}

MCInitialDatabases ==
  {NoDatabase, Database(OldTables, {}, NoVersion, {"legacy"}),
   Database(OldTables, Upto(2), NoVersion, {"legacy", "current"}),
   Database(OldTables, Upto(5), NoVersion, {"current"})}
    \cup {Database(Tables, Upto(k), k, {"legacy", "current"}) : k \in {2, 4}}
    \cup {Database(Tables, Upto(5), k, {"current"}) : k \in {5, 6}}

\* Files of every kind, owner and mode; of links and directories one is enough.
MCProcesses == {p1, p2}
MCInitialFiles ==
  [kind : {"regular"}, ours : {TRUE}, private : BOOLEAN]
    \cup [kind : {"regular"}, ours : {FALSE}, private : {FALSE}]
    \cup [kind : {"symlink", "directory"}, ours : {TRUE}, private : {FALSE}]
    \cup {[kind |-> "none", ours |-> FALSE, private |-> FALSE]}

-----------------------------------------------------------------------------
\* A database everybody is up on.
Migrated ==
  /\ db = Database(Tables, Upto(Current), Current, {}) /\ work = db /\ writer = NoStarter
  /\ pc = [p \in Starters |-> "up"] /\ todo = [p \in Starters |-> <<>>]
  /\ step = [p \in Starters |-> 0] /\ object = [p \in Starters |-> "none"]
  /\ row = [p \in Starters |-> NoVersion] /\ faults = 0

Untouched ==
  /\ node = [x \in File!Places |-> File!NoFile] /\ replaced = 0
  /\ opener = [p \in Processes |-> "down"] /\ check = [p \in Processes |-> "build"]
  /\ at = [p \in Processes |-> 0] /\ touched = [p \in Processes |-> {}]

Ended == database = FALSE /\ phase = "ended" /\ live = {} /\ stack = <<>> /\ raised = {}

MCInit ==
  /\ part \in {"migrations", "file", "lifespan"}
  /\ IF part = "migrations" THEN Init ELSE Migrated
  /\ IF part = "file" THEN File!Init ELSE Untouched
  /\ IF part = "lifespan" THEN Life!Init ELSE Ended

MCNext ==
  /\ UNCHANGED part
  /\ \/ part = "migrations" /\ Next /\ UNCHANGED <<files, application>>
     \/ part = "file" /\ File!Next /\ UNCHANGED <<vars, application>>
     \/ part = "lifespan" /\ Life!Next /\ UNCHANGED <<vars, files>>

MCSpec ==
  MCInit /\ [][MCNext]_<<part, vars, files, application>> /\ Fairness
=============================================================================
