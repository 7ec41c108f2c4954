--------------------------- MODULE DatabaseFile ---------------------------
(* The hardening of the SQLite file in server/database.py: before the engine *)
(* is built, before each connection and on each connection, the process      *)
(* makes sure that the file and the sidecars beside it (-wal, -shm,          *)
(* -journal) are private regular files of its own.  Each system call of the  *)
(* check is a step, and between two of them other processes run the same     *)
(* check, SQLite makes and deletes sidecars, and somebody may put anything   *)
(* in the place of a file.                                                   *)
EXTENDS Integers, FiniteSets

CONSTANTS
  Processes,
  Sidecars,      \* how many sidecars a database may have
  InitialFiles,  \* what may be at a path before the first start, or be put there
  MaxReplaced    \* bound on how often somebody puts something in a file's place

Places == 0 .. Sidecars   \* 0 is the database, the others are its sidecars

VARIABLES
  node,      \* place -> what is there: its kind, owner and mode
  pc,        \* process -> where it is
  check,     \* process -> which of the three checks it is in
  at,        \* process -> the place its check has come to
  touched,   \* process -> places replaced after its check had looked at them
  replaced

vars == <<node, pc, check, at, touched, replaced>>

NoFile == [kind |-> "none", ours |-> FALSE, private |-> FALSE]
Created == [kind |-> "regular", ours |-> TRUE, private |-> TRUE]
Kinds == {"none", "regular", "symlink", "directory"}
Files == [kind : Kinds \ {"none"}, ours : BOOLEAN, private : BOOLEAN] \cup {NoFile}

Init == /\ node \in [Places -> InitialFiles]
        /\ node[0].kind = "regular" \/ \A x \in Places \ {0} : node[x] = NoFile
        /\ pc = [p \in Processes |-> "down"]
        /\ check = [p \in Processes |-> "build"]
        /\ at = [p \in Processes |-> 0]
        /\ touched = [p \in Processes |-> {}]
        /\ replaced = 0

Goto(p, l) == pc' = [pc EXCEPT ![p] = l]

\* The process goes on, and what its check has seen so far no longer counts.
Leave(p, l) == /\ Goto(p, l)
               /\ at' = [at EXCEPT ![p] = 0] /\ touched' = [touched EXCEPT ![p] = {}]

Begin(p, c) == Leave(p, "look") /\ check' = [check EXCEPT ![p] = c]

Start(p) == /\ pc[p] \in {"down", "refused"}
            /\ Begin(p, "build")
            /\ UNCHANGED <<node, replaced>>

\* The pool makes a connection, again after one that was refused: do_connect
\* checks first.
Connect(p) == /\ \/ pc[p] \in {"connect", "ready"}
                 \/ pc[p] = "refused" /\ check[p] # "build"
              /\ Begin(p, "do_connect")
              /\ UNCHANGED <<node, replaced>>

AfterCheck == [build |-> "connect", do_connect |-> "open", connect |-> "ready"]

\* The database is followed by its sidecars.
NextPlace(p) ==
  IF at[p] < Sidecars
  THEN Goto(p, "look") /\ at' = [at EXCEPT ![p] = @ + 1] /\ UNCHANGED touched
  ELSE Leave(p, AfterCheck[check[p]])

\* _verify_sqlite_file_stat: a regular file of this user, no link.
Acceptable(f) == f.kind = "regular" /\ f.ours

\* lstat, and the verdict on what it returned: a missing database is created
\* next, a missing sidecar is passed over.
Look(p) ==
  /\ pc[p] = "look"
  /\ LET f == node[at[p]]
     IN  \/ Acceptable(f) /\ Goto(p, "chmod") /\ UNCHANGED <<at, touched>>
         \/ f.kind # "none" /\ ~Acceptable(f) /\ Leave(p, "refused")
         \/ f.kind = "none" /\ at[p] = 0 /\ Goto(p, "create") /\ UNCHANGED <<at, touched>>
         \/ f.kind = "none" /\ at[p] # 0 /\ NextPlace(p)
  /\ UNCHANGED <<node, check, replaced>>

\* Defect: a file that appeared since the lstat is an error
CreateStrict(p) ==
  /\ pc[p] = "create"
  /\ \/ /\ node[0].kind = "none" /\ node' = [node EXCEPT ![0] = Created]
        /\ Goto(p, "relook") /\ UNCHANGED <<at, touched>>
     \/ node[0].kind # "none" /\ Leave(p, "refused") /\ UNCHANGED node
  /\ UNCHANGED <<check, replaced>>

\* O_EXCL: created private, or somebody else was faster, which is no error.
Create(p) ==
  /\ pc[p] = "create"
  /\ node' = [node EXCEPT ![0] = IF @.kind = "none" THEN Created ELSE @]
  /\ Goto(p, "relook")
  /\ UNCHANGED <<check, at, touched, replaced>>

\* lstat of what was created; it may be gone again.
Relook(p) ==
  /\ pc[p] = "relook"
  /\ Leave(p, IF Acceptable(node[0]) THEN "chmod" ELSE "refused")
  /\ UNCHANGED <<node, check, replaced>>

\* Defect: a file that was there before keeps its mode
ChmodSkipped(p) ==
  /\ pc[p] = "chmod"
  /\ \/ node[at[p]].ours /\ NextPlace(p)
     \/ ~node[at[p]].ours /\ Leave(p, "refused")
  /\ UNCHANGED <<node, check, replaced>>

\* os.chmod makes a file of this user private; one that is gone or, for an ordinary
\* user, belongs to another is an error.  It follows a link, which stays as it
\* is, and succeeds or not on what the link leads to.
Chmod(p) ==
  LET f == node[at[p]] IN
  /\ pc[p] = "chmod"
  /\ \/ /\ f.kind \notin {"none", "symlink"} /\ f.ours
        /\ node' = [node EXCEPT ![at[p]].private = TRUE] /\ NextPlace(p)
     \/ f.kind = "symlink" /\ UNCHANGED node /\ NextPlace(p)
     \/ (f.kind = "symlink" \/ ~f.ours) /\ UNCHANGED node /\ Leave(p, "refused")
  /\ UNCHANGED <<check, replaced>>

\* SQLite opens the file, a missing one with the process's umask, and fails at
\* most on what the check would refuse; the connect listener checks once more.
Open(p) ==
  /\ pc[p] = "open"
  /\ node' = [node EXCEPT ![0] = IF @.kind = "none" THEN [Created EXCEPT !.private = FALSE]
                                 ELSE @]
  /\ \/ Begin(p, "connect")
     \/ ~Acceptable(node'[0]) /\ Leave(p, "refused") /\ UNCHANGED check
  /\ UNCHANGED replaced

\* SQLite at work: it makes a sidecar with the mode of the database, and
\* deletes one after a transaction or with the last connection.
Use(p) ==
  /\ pc[p] = "ready"
  /\ \E x \in Places \ {0} :
       \/ /\ node[x].kind = "none" /\ node[0].kind = "regular"
          /\ node' = [node EXCEPT ![x] = [Created EXCEPT !.private = node[0].private]]
       \/ Acceptable(node[x]) /\ node' = [node EXCEPT ![x] = NoFile]
  /\ UNCHANGED <<pc, check, at, touched, replaced>>

\* The process ends, or crashes in the middle of a check.
Stop(p) == pc[p] # "down" /\ Leave(p, "down") /\ UNCHANGED <<node, check, replaced>>

\* The places whose lstat is behind the process's check.
Looked(p) == {x \in Places : \/ x < at[p]
                             \/ x = at[p] /\ pc[p] \in {"create", "relook", "chmod"}}

\* Somebody removes a file, or puts a link, a directory or another file there.
Replace(x, f) ==
  /\ replaced < MaxReplaced /\ replaced' = replaced + 1
  /\ f # node[x] /\ node' = [node EXCEPT ![x] = f]
  /\ touched' = [p \in Processes |-> touched[p] \cup ({x} \cap Looked(p))]
  /\ UNCHANGED <<pc, check, at>>

Next ==
  \/ \E p \in Processes :
       \/ Start(p) \/ Connect(p) \/ Look(p) \/ Create(p) \/ Relook(p) \/ Chmod(p)
       \/ Open(p) \/ Use(p) \/ Stop(p)
  \/ \E x \in Places, f \in InitialFiles \cup {NoFile} : Replace(x, f)

Spec == Init /\ [][Next]_vars

-----------------------------------------------------------------------------
(* Properties *)

\* _configure_sqlite_connection, guide.md ("SQLite Persistence Hardening"): when
\* a connection comes into use, the database is a private regular file of this
\* user unless it was replaced after this last check had looked at it, and so
\* is each sidecar that is there and was not replaced, whatever was replaced
\* before that, other processes did meanwhile or SQLite made.  In
\* particular a link, a directory or a foreign file put there earlier keeps the
\* next connection out.
ReadyIsPrivate ==
  [][\A p \in Processes :
       pc[p] # "ready" /\ pc'[p] = "ready" /\ 0 \notin touched[p] =>
         /\ node'[0] = Created
         /\ \A x \in Places \ ({0} \cup touched[p]) : node'[x] \in {NoFile, Created}]_vars

\* _harden_sqlite_file: processes that start on an empty path do not refuse each
\* other's file.  A check fails for a file of another kind or another user, for
\* a database that somebody took away in the middle of the check, and for a
\* sidecar that goes between its lstat and its chmod, be it that SQLite deleted
\* it.
RefusedForCause ==
  [][\A p \in Processes : pc[p] # "refused" /\ pc'[p] = "refused" =>
       LET x == at[p]
       IN  \/ node[x].kind # "none" /\ ~(node[x].kind = "regular" /\ node[x].ours)
           \/ node[x].kind = "none" /\ x \in touched[p]
           \/ node[x].kind = "none" /\ x # 0 /\ pc[p] = "chmod"]_vars
=============================================================================
