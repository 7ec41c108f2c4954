------------------------------ MODULE Startup ------------------------------
(* Starting and stopping the application: processes that migrate the schema   *)
(* (Migrations), processes that open the file of the database (DatabaseFile), *)
(* and the lifespan of one application around them (Lifespan).                *)
EXTENDS Migrations

CONSTANTS Processes, Sidecars, InitialFiles, MaxReplaced   \* of DatabaseFile

VARIABLES
  node, opener, check, at, touched, replaced,  \* DatabaseFile
  database, phase, live, stack, raised         \* Lifespan

files == <<node, opener, check, at, touched, replaced>>
application == <<database, phase, live, stack, raised>>

File == INSTANCE DatabaseFile WITH pc <- opener
Life == INSTANCE Lifespan

\* Whatever may be at a path: a link or a directory too, of any owner and mode.
ASSUME FilesAssumption ==
  InitialFiles \subseteq File!Files /\ Sidecars \in Nat /\ MaxReplaced \in Nat

StartupInit == Init /\ File!Init /\ Life!Init

StartupNext ==
  \/ Next /\ UNCHANGED <<files, application>>
  \/ File!Next /\ UNCHANGED <<vars, application>>
  \/ Life!Next /\ UNCHANGED <<vars, files>>

StartupSpec == StartupInit /\ [][StartupNext]_<<vars, files, application>> /\ Fairness

-----------------------------------------------------------------------------
\* Start and stop of the application in good order, whatever fails on the way:
\* an application that has ended has closed all it had opened, nothing is closed
\* while something that its closing may use is gone, and a store that did not
\* start is not shut down (lifespan.py).
ClosedInOrder ==
  /\ []Life!EverythingClosed
  /\ Life!UsersCloseFirst
  /\ []Life!OnlyStartedIsClosed

\* A connection comes into use only when the last check has made the database
\* file and its sidecars private, unless somebody replaced one behind that check,
\* and a file is refused only for a reason (database.py).
FileIsPrivate == File!ReadyIsPrivate /\ File!RefusedForCause
=============================================================================
