--------------------------- MODULE StartupProofs ---------------------------
(* Theorems about Startup, for every set of starters and processes, every    *)
(* database an earlier release may have left, every kind of file and any     *)
(* number of crashes.  Migrations: what the version row and a started        *)
(* application say of the schema is true, and racing starters undo nothing;  *)
(* MigrationInv is the inductive invariant.  A step changes the database in  *)
(* one of four ways (a write in a transaction, a DDL statement that commits  *)
(* by itself, rollback, commit), and to every other starter the database     *)
(* only grows.  DatabaseFile: between a check and the use of its result the  *)
(* file can only vanish or be made anew.  Lifespan: what is left on the      *)
(* stack is what is open, in the order of its use.                           *)
EXTENDS Startup, FlattenLemmas, SequenceTheorems

----------------------------------------------------------------------------
(* The schema.                                                               *)

Objects == Tables \cup UNION {Indexes[t] : t \in Tables}

LEMMA SchemaFacts ==
  /\ \A t \in Tables : Indexes[t] \subseteq Catalogue(Tables) /\ Columns[t] \subseteq Catalogue(Tables)
  /\ \A t \in Tables : Indexes[t] \cap Tables = {}
  /\ \A t, u \in Tables : t # u => Indexes[t] \cap Indexes[u] = {}
  <1>1. \A t \in Tables : Indexes[t] \subseteq Catalogue(Tables) /\ Columns[t] \subseteq Catalogue(Tables)
    BY DEF Catalogue
  <1>2. /\ Indexes["a2a_schema_version"] = {} /\ Indexes["claims"] = {"claims_expiry_index"}
        /\ Indexes["interrupts"] = {"interrupts_identity_index", "interrupts_tombstone_index"}
    BY DEF Indexes
  <1>3. \A t \in Tables : t = "a2a_schema_version" \/ t = "claims" \/ t = "interrupts"
    BY DEF Tables
  <1>4. \A t \in Tables : Indexes[t] \cap Tables = {}
    BY <1>2, <1>3 DEF Tables
  <1>5. \A t, u \in Tables : t # u => Indexes[t] \cap Indexes[u] = {}
    BY <1>2, <1>3
  <1> QED BY <1>1, <1>4, <1>5

LEMMA EffectFacts ==
  /\ Current = 5 /\ \A k \in 1 .. Current : Effect[k] \subseteq Catalogue(Tables)
  <1>1. Current = 5 BY VersionAssumption
  <1>2. /\ Columns["claims"] = {"expires_at"} /\ Columns["interrupts"] = {"details_json", "credential_id"}
        /\ {"claims", "interrupts"} \subseteq Tables
    BY DEF Columns, Tables
  <1>3. Columns["claims"] \cup Columns["interrupts"] \cup Indexes["claims"]
          \cup Indexes["interrupts"] \subseteq Catalogue(Tables)
    BY <1>2, SchemaFacts
  <1>4. StateIndexes = Indexes["claims"] \cup Indexes["interrupts"]
    BY DEF StateIndexes
  <1>5. \A k \in 1 .. 5 : Effect[k] \subseteq Catalogue(Tables)
    BY <1>2, <1>3, <1>4 DEF Effect, DetailsColumn, ExpiryColumn, CredentialColumn
  <1> QED BY <1>1, <1>5

LEMMA FiniteSchema ==
  /\ \A X : IsFiniteSet(Tables \ X)
  /\ \A t \in Tables : IsFiniteSet(Indexes[t])
  <1>1. \A x, y, z : IsFiniteSet({x, y, z})
    <2> TAKE x, y, z
    <2>1. IsFiniteSet({x}) BY FS_Singleton
    <2>2. IsFiniteSet({x} \cup {y}) BY <2>1, FS_AddElement
    <2>3. IsFiniteSet(({x} \cup {y}) \cup {z}) BY <2>2, FS_AddElement
    <2>4. ({x} \cup {y}) \cup {z} = {x, y, z} OBVIOUS
    <2> QED BY <2>3, <2>4
  <1>2. IsFiniteSet(Tables) BY <1>1 DEF Tables
  <1>3. \A X : IsFiniteSet(Tables \ X) BY <1>2, FS_Difference
  <1>4. \A t \in Tables : Indexes[t] \subseteq {"claims_expiry_index",
                             "interrupts_identity_index", "interrupts_tombstone_index"}
    BY DEF Tables, Indexes
  <1>5. \A t \in Tables : IsFiniteSet(Indexes[t]) BY <1>1, <1>4, FS_Subset
  <1> QED BY <1>3, <1>5

\* create_all's list: every missing table is on it, and an index is behind its table.
LEMMA MissingFacts ==
  ASSUME NEW view
  PROVE  /\ Missing(view) \in Seq(Objects)
         /\ Tables \subseteq view.tables \cup Range(Missing(view))
         /\ \A m \in DOMAIN Missing(view), t \in Tables :
              Missing(view)[m] \in Indexes[t] => \E l \in 1 .. m - 1 : Missing(view)[l] = t
  <1> DEFINE ts == SetToSeq(Tables \ view.tables)
             ix(t) == SetToSeq(Indexes[t])
             parts == [i \in DOMAIN ts |-> <<ts[i]>> \o ix(ts[i])]
             flat == FlattenSeq(parts)
  <1>1. /\ ts \in Seq(Tables \ view.tables)
        /\ \A t \in Tables \ view.tables : \E i \in DOMAIN ts : ts[i] = t
    BY FiniteSchema, SetToSeqElements
  <1>2. \A t \in Tables : ix(t) \in Seq(Indexes[t]) BY FiniteSchema, SetToSeqElements
  <1>3. Missing(view) = flat BY DEF Missing
  <1> HIDE DEF ts, ix
  <1>4. \A i \in DOMAIN ts : ts[i] \in Tables BY <1>1
  <1>5. ASSUME NEW i \in DOMAIN ts
        PROVE  /\ parts[i] \in Seq(Objects) /\ 1 \in DOMAIN parts[i] /\ parts[i][1] = ts[i]
               /\ \A n \in DOMAIN parts[i] : n # 1 => parts[i][n] \in Indexes[ts[i]]
    <2> DEFINE q == ix(ts[i])
    <2>1. q \in Seq(Indexes[ts[i]]) /\ ts[i] \in Tables BY <1>2, <1>4
    <2> HIDE DEF q
    <2>2. Indexes[ts[i]] \subseteq Objects /\ ts[i] \in Objects BY <2>1 DEF Objects
    <2>3. q \in Seq(Objects) BY <2>1, <2>2
    <2>4. /\ <<ts[i]>> \o q \in Seq(Objects) /\ 1 \in DOMAIN (<<ts[i]>> \o q)
          /\ (<<ts[i]>> \o q)[1] = ts[i]
      BY <2>2, <2>3
    <2>5. \A n \in DOMAIN (<<ts[i]>> \o q) : n # 1 => (<<ts[i]>> \o q)[n] \in Indexes[ts[i]]
      BY <2>1, <2>2
    <2> QED BY <2>4, <2>5 DEF q
  <1>6. parts \in Seq(Seq(Objects)) /\ DOMAIN parts = DOMAIN ts
    <2>1. DOMAIN ts = 1..Len(ts) /\ Len(ts) \in Nat BY <1>1
    <2>2. \A i \in DOMAIN ts : parts[i] \in Seq(Objects) BY <1>5
    <2> HIDE DEF parts
    <2>3. parts = [i \in DOMAIN ts |-> parts[i]] BY DEF parts
    <2> QED BY <2>1, <2>2, <2>3
  <1> HIDE DEF parts
  <1>7. flat \in Seq(Objects) BY <1>6, FlattenType
  <1>8. ASSUME NEW t \in Tables \ view.tables PROVE t \in Range(flat)
    <2>1. PICK i \in DOMAIN ts : ts[i] = t BY <1>1
    <2>2. Holds(flat, parts, i, 1) BY <1>5, <1>6, FlattenCovers
    <2>3. PICK m \in DOMAIN flat : flat[m] = t BY <1>5, <2>1, <2>2 DEF Holds
    <2> QED BY <2>3 DEF Range
  <1>9. ASSUME NEW m \in DOMAIN flat, NEW t \in Tables, flat[m] \in Indexes[t]
        PROVE  \E l \in 1 .. m - 1 : flat[l] = t
    <2>1. HasPart(flat, m, parts) BY <1>6, FlattenOrigin
    <2> HIDE DEF flat
    <2>2. PICK i \in DOMAIN ts : \E n \in DOMAIN parts[i] : Stems(flat, m, parts, i, n)
      BY <1>6, <2>1 DEF HasPart
    <2>3. PICK n \in DOMAIN parts[i] : Stems(flat, m, parts, i, n) BY <2>2
    <2>4. flat[m] = parts[i][n] BY <2>3 DEF Stems
    <2>5. n # 1 BY <1>4, <1>5, <1>9, <2>4, SchemaFacts
    <2>6. ts[i] = t BY <1>4, <1>5, <1>9, <2>4, <2>5, SchemaFacts
    <2>7. n \in Nat /\ 1 \in 1..n-1
      <3>1. parts[i] \in Seq(Objects) BY <1>5
      <3> QED BY <2>5, <3>1
    <2>8. PICK l \in 1..m-1 : flat[l] = parts[i][1] BY <2>3, <2>7 DEF Stems
    <2> QED BY <1>5, <2>6, <2>8
  <1> QED BY <1>3, <1>7, <1>8, <1>9

----------------------------------------------------------------------------
(* The database: the four ways it changes.                                   *)

DbTrue ==
  /\ db \in Databases /\ work \in Databases /\ Coherent(db) /\ Coherent(work)
  /\ Truthful(db) /\ Truthful(work)
  /\ writer \in Starters \cup {NoStarter} /\ (writer = NoStarter => work = db)
  /\ db.tables \subseteq work.tables /\ db.has \subseteq work.has
  /\ work.rows \subseteq db.rows /\ db.rows \ {"legacy"} \subseteq work.rows

\* e came out of d by starters that added to it.
Grows(d, e) ==
  /\ d.tables \subseteq e.tables /\ d.has \subseteq e.has
  /\ e.rows \subseteq d.rows /\ d.rows \ {"legacy"} \subseteq e.rows
  /\ d.version <= e.version /\ (d.version <= Current => e.version <= Current)

\* To the starters but q the step is that the database grows, if q was alone with
\* the lock; whoever has it sees no change.
OthersSee(q) ==
  /\ db' = db \/ (Grows(db, db') /\ writer \in {q, NoStarter})
  /\ \A p \in Starters \ {q} : /\ writer' = p <=> writer = p
                               /\ writer = p => work' = work /\ db' = db

LEMMA GrowsSame == ASSUME NEW d \in Databases PROVE Grows(d, d)
  <1>1. d.version \in Int BY DEF Databases, NoVersion
  <1> QED BY <1>1 DEF Grows

LEMMA ViewType == DbTrue => \A p \in Starters :
                    View(p) \in Databases /\ Coherent(View(p)) /\ Truthful(View(p))
  BY DEF DbTrue, View

\* A write in the transaction.
LEMMA RowWritten ==
  ASSUME DbTrue, NEW q \in Starters, NEW after, WriteRow(q, after),
         after \in Databases, Coherent(after), Truthful(after),
         View(q).tables \subseteq after.tables, View(q).has \subseteq after.has,
         after.rows \subseteq View(q).rows, View(q).rows \ {"legacy"} \subseteq after.rows
  PROVE  DbTrue' /\ View(q)' = after /\ db' = db /\ writer' = q /\ OthersSee(q)
  <1>1. q # NoStarter BY VersionAssumption
  <1>2. /\ db' = db /\ work' = after /\ writer' = q /\ writer \in {q, NoStarter}
    BY DEF WriteRow, MayWrite
  <1>3. View(q)' = after BY <1>2 DEF View
  <1>4. /\ db.tables \subseteq View(q).tables /\ db.has \subseteq View(q).has
        /\ View(q).rows \subseteq db.rows /\ db.rows \ {"legacy"} \subseteq View(q).rows
    BY DEF DbTrue, View
  <1>5. DbTrue' BY <1>1, <1>2, <1>4 DEF DbTrue, Coherent, Truthful
  <1>6. OthersSee(q) BY <1>1, <1>2, VersionAssumption DEF OthersSee
  <1> QED BY <1>2, <1>3, <1>5, <1>6

\* A DDL statement, in the transaction or by itself.
LEMMA DdlWritten ==
  ASSUME DbTrue, NEW q \in Starters, NEW after, WriteDdl(q, after),
         after \in Databases, Coherent(after), Truthful(after),
         View(q).tables \subseteq after.tables, View(q).has \subseteq after.has,
         after.rows = View(q).rows, after.version = View(q).version
  PROVE  /\ DbTrue' /\ View(q)' = after /\ OthersSee(q)
         /\ db'.version = db.version /\ db'.rows = db.rows
         /\ db.tables \subseteq db'.tables /\ db.has \subseteq db'.has
         /\ writer' \in {q, writer}
  <1>1. CASE WriteRow(q, after)
    BY <1>1, RowWritten
  <1>2. CASE writer = NoStarter /\ db' = after /\ work' = after /\ UNCHANGED writer
    <2>1. q # NoStarter BY VersionAssumption
    <2>2. View(q) = db /\ View(q)' = after BY <1>2, <2>1 DEF View
    <2>3. DbTrue' BY <1>2 DEF DbTrue, Coherent, Truthful
    <2>4. db.version \in Int BY DEF DbTrue, Databases, NoVersion
    <2>5. Grows(db, db') BY <1>2, <2>2, <2>4 DEF Grows
    <2>6. OthersSee(q) BY <1>2, <2>1, <2>5, VersionAssumption DEF OthersSee
    <2> QED BY <1>2, <2>2, <2>3, <2>6
  <1> QED BY <1>1, <1>2 DEF WriteDdl

LEMMA RolledBack ==
  ASSUME DbTrue, NEW q \in Starters, Rollback(q)
  PROVE  DbTrue' /\ db' = db /\ writer' # q /\ OthersSee(q)
  <1>1. q # NoStarter BY VersionAssumption
  <1>2. /\ db' = db /\ writer' = (IF writer = q THEN NoStarter ELSE writer)
        /\ work' = IF writer = q THEN db ELSE work
    BY DEF Rollback
  <1>3. DbTrue' BY <1>1, <1>2 DEF DbTrue, Coherent, Truthful
  <1>4. OthersSee(q) BY <1>1, <1>2, VersionAssumption DEF OthersSee
  <1> QED BY <1>1, <1>2, <1>3, <1>4

LEMMA DbSame ==
  ASSUME DbTrue, UNCHANGED <<db, work, writer>>
  PROVE  DbTrue' /\ \A q \in Starters : OthersSee(q) /\ View(q)' = View(q)
  BY DEF DbTrue, OthersSee, View, Coherent, Truthful

LEMMA Committed ==
  ASSUME DbTrue, NEW q \in Starters, db.version <= View(q).version,
         View(q).version <= Current,
         db' = View(q), writer' = (IF writer = q THEN NoStarter ELSE writer), work' = work
  PROVE  DbTrue' /\ Grows(db, db') /\ writer' # q /\ OthersSee(q)
  <1>1. q # NoStarter BY VersionAssumption
  <1>2. CASE writer = q
    <2>1. db' = work /\ writer' = NoStarter BY <1>2 DEF View
    <2>2. DbTrue' BY <2>1 DEF DbTrue, Coherent, Truthful
    <2>3. Grows(db, db') BY <1>2, <2>1 DEF DbTrue, Grows, View
    <2>4. OthersSee(q) BY <1>1, <1>2, <2>1, <2>3, VersionAssumption DEF OthersSee
    <2> QED BY <1>1, <2>1, <2>2, <2>3, <2>4
  <1>3. CASE writer # q
    <2>1. db' = db /\ writer' = writer BY <1>3 DEF View
    <2>2. DbTrue' BY <2>1 DEF DbTrue, Coherent, Truthful
    <2>3. Grows(db, db') BY <2>1, GrowsSame DEF DbTrue
    <2>4. OthersSee(q) BY <2>1 DEF OthersSee
    <2> QED BY <1>3, <2>1, <2>2, <2>3, <2>4
  <1> QED BY <1>2, <1>3

----------------------------------------------------------------------------
(* The invariant, starter by starter.                                        *)

Typed(p) ==
  /\ pc[p] \in {"down", "failed", "up"} \cup Starting
  /\ todo[p] \in Seq(Objects) /\ step[p] \in 0 .. Current + 1
  /\ object[p] \in Catalogue(Tables) \cup {"none"} /\ row[p] \in Nat \cup {NoVersion}

UpTrue(p) ==
  pc[p] = "up" => /\ db.version = Current /\ db.tables = Tables
                  /\ UNION {Effect[k] : k \in 1 .. Current} \subseteq db.has
                  /\ "legacy" \notin db.rows

CreatesTrue(p) ==
  pc[p] = "create_all" =>
    /\ Tables \subseteq View(p).tables \cup Range(todo[p])
    /\ \A i \in DOMAIN todo[p], t \in Tables :
         todo[p][i] \in Indexes[t] =>
           t \in View(p).tables \/ \E j \in 1 .. i - 1 : todo[p][j] = t
    /\ View(p).version = db.version

MigratesTrue(p) ==
  pc[p] \in Migrating =>
    /\ View(p).tables = Tables /\ View(p).version <= Current /\ db.version <= Current
    /\ step[p] >= 1 /\ (step[p] > 1 => View(p).version >= step[p] - 1)
    /\ \A k \in 1 .. Current : k < step[p] => Effect[k] \subseteq View(p).has
    /\ pc[p] = "ddl" => step[p] < Current /\ object[p] \in Effect[step[p]]
    /\ pc[p] \in {"read_row", "write_row"} =>
         /\ step[p] <= Current /\ Effect[step[p]] \subseteq View(p).has
         /\ step[p] = Current => "legacy" \notin View(p).rows

StarterTrue(p) ==
  /\ Typed(p) /\ (writer = p => pc[p] \in Starting)
  /\ UpTrue(p) /\ CreatesTrue(p) /\ MigratesTrue(p)

Shaped ==
  /\ \A f \in {pc, todo, step, object, row} : f = [p \in Starters |-> f[p]]
  /\ faults \in 0 .. MaxFaults

LEMMA InvParts ==
  MigrationInv <=> DbTrue /\ Shaped /\ \A p \in Starters : StarterTrue(p)
  <1>1. ASSUME MigrationInv PROVE DbTrue /\ Shaped /\ \A p \in Starters : StarterTrue(p)
    <2> USE <1>1 DEF MigrationInv, SchemaTrue
    <2>1. DbTrue BY DEF TypeOK, WorkTrue, VersionTellsTruth, DbTrue
    <2>2. Shaped BY DEF TypeOK, Shaped
    <2>3. ASSUME NEW p \in Starters PROVE StarterTrue(p)
      <3>1. Typed(p) BY DEF TypeOK, Typed, Objects
      <3>2. writer = p => pc[p] \in Starting BY VersionAssumption DEF WorkTrue
      <3>3. UpTrue(p) BY DEF UpMeansMigrated, UpTrue
      <3>4. CreatesTrue(p) BY DEF CreateTrue, CreatesTrue
      <3>5. MigratesTrue(p) BY DEF StepTrue, MigratesTrue
      <3> QED BY <3>1, <3>2, <3>3, <3>4, <3>5 DEF StarterTrue
    <2> QED BY <2>1, <2>2, <2>3
  <1>2. ASSUME DbTrue, Shaped, \A p \in Starters : StarterTrue(p) PROVE MigrationInv
    <2> USE <1>2 DEF StarterTrue
    <2>1. TypeOK
      <3>1. /\ pc \in [Starters -> {"down", "failed", "up"} \cup Starting]
            /\ todo \in [Starters -> Seq(Objects)] /\ step \in [Starters -> 0 .. Current + 1]
            /\ object \in [Starters -> Catalogue(Tables) \cup {"none"}]
            /\ row \in [Starters -> Nat \cup {NoVersion}]
        BY DEF Shaped, Typed
      <3>2. \A p \in Starters : pc[p] = "up" => writer # p BY DEF Starting, Migrating
      <3> QED BY <3>1, <3>2 DEF TypeOK, DbTrue, Shaped, Objects
    <2>2. VersionTellsTruth BY DEF DbTrue, VersionTellsTruth
    <2>3. UpMeansMigrated BY DEF UpMeansMigrated, UpTrue
    <2>4. WorkTrue BY DEF DbTrue, WorkTrue
    <2>5. CreateTrue BY DEF CreateTrue, CreatesTrue
    <2>6. StepTrue BY DEF StepTrue, MigratesTrue
    <2> QED BY <2>1, <2>2, <2>3, <2>4, <2>5, <2>6 DEF MigrationInv, SchemaTrue
  <1> QED BY <1>1, <1>2

LEMMA InvPartsNext ==
  DbTrue' /\ Shaped' /\ (\A p \in Starters : StarterTrue(p)') => MigrationInv'
  <1> SUFFICES ASSUME DbTrue', Shaped', \A p \in Starters : StarterTrue(p)'
               PROVE  MigrationInv'
    OBVIOUS
  <1> USE DEF StarterTrue
  <1>1. TypeOK'
    <2>1. /\ pc' \in [Starters -> {"down", "failed", "up"} \cup Starting]
          /\ todo' \in [Starters -> Seq(Objects)] /\ step' \in [Starters -> 0 .. Current + 1]
          /\ object' \in [Starters -> Catalogue(Tables) \cup {"none"}]
          /\ row' \in [Starters -> Nat \cup {NoVersion}]
      BY DEF Shaped, Typed
    <2>2. \A p \in Starters : pc'[p] = "up" => writer' # p BY DEF Starting, Migrating
    <2> QED BY <2>1, <2>2 DEF TypeOK, DbTrue, Shaped, Objects
  <1>2. VersionTellsTruth' BY DEF DbTrue, VersionTellsTruth
  <1>3. UpMeansMigrated' BY DEF UpMeansMigrated, UpTrue
  <1>4. WorkTrue' BY DEF DbTrue, WorkTrue
  <1>5. CreateTrue' BY DEF CreateTrue, CreatesTrue
  <1>6. StepTrue' BY DEF StepTrue, MigratesTrue
  <1> QED BY <1>1, <1>2, <1>3, <1>4, <1>5, <1>6 DEF MigrationInv, SchemaTrue

\* A starter that stands still, while the database grows, stays true.
LEMMA StandsStill ==
  ASSUME MigrationInv, DbTrue', NEW q \in Starters, OthersSee(q), NEW p \in Starters \ {q},
         pc'[p] = pc[p], todo'[p] = todo[p], step'[p] = step[p], object'[p] = object[p],
         row'[p] = row[p]
  PROVE  StarterTrue(p)'
  <1>0. /\ DbTrue /\ StarterTrue(p) /\ Typed(p) /\ Current = 5
        /\ View(p) \in Databases /\ View(p)' \in Databases
    BY InvParts, VersionAssumption DEF StarterTrue, DbTrue, View
  <1>1. Grows(db, db') BY <1>0, GrowsSame DEF OthersSee, DbTrue
  <1>2. Grows(View(p), View(p)')
    <2>1. CASE writer = p
      <3>1. View(p)' = View(p) BY <2>1 DEF OthersSee, View
      <3> QED BY <1>0, <3>1, GrowsSame
    <2>2. CASE writer # p
      <3>1. View(p) = db /\ View(p)' = db' BY <2>2 DEF OthersSee, View
      <3> QED BY <1>1, <3>1
    <2> QED BY <2>1, <2>2
  <1>3. View(p).version = db.version => View(p)'.version = db'.version
    BY DEF OthersSee, View
  <1>4. Typed(p)' BY <1>0 DEF Typed
  <1>5. (writer = p => pc[p] \in Starting)' BY <1>0 DEF StarterTrue, OthersSee
  <1>6. UpTrue(p)'
    <2>1. db' \in Databases /\ db \in Databases BY <1>0 DEF DbTrue
    <2> QED BY <1>0, <1>1, <2>1 DEF StarterTrue, UpTrue, Grows, Databases, NoVersion
  <1>7. CreatesTrue(p)'
    <2> SUFFICES ASSUME pc[p] = "create_all" PROVE CreatesTrue(p)' BY DEF CreatesTrue
    <2> QED BY <1>0, <1>2, <1>3 DEF StarterTrue, CreatesTrue, Grows
  <1>8. MigratesTrue(p)'
    <2> SUFFICES ASSUME pc[p] \in Migrating PROVE MigratesTrue(p)' BY DEF MigratesTrue
    <2>1. MigratesTrue(p) BY <1>0 DEF StarterTrue
    <2>2. View(p)'.tables = Tables BY <1>0, <1>2, <2>1 DEF MigratesTrue, Grows, Databases
    <2>3. View(p)'.version <= Current /\ db'.version <= Current
      BY <1>1, <1>2, <2>1 DEF MigratesTrue, Grows
    <2>4. step[p] > 1 => View(p)'.version >= step[p] - 1
      BY <1>0, <1>2, <2>1 DEF MigratesTrue, Grows, Databases, NoVersion, Typed
    <2>5. \A X : X \subseteq View(p).has => X \subseteq View(p)'.has BY <1>2 DEF Grows
    <2>6. \A x : x \notin View(p).rows => x \notin View(p)'.rows BY <1>2 DEF Grows
    <2> QED BY <2>1, <2>2, <2>3, <2>4, <2>5, <2>6 DEF MigratesTrue
  <1> QED BY <1>4, <1>5, <1>6, <1>7, <1>8 DEF StarterTrue

----------------------------------------------------------------------------
(* The steps.                                                                *)

\* Only q moves.
Only(q) ==
  /\ pc' = [pc EXCEPT ![q] = pc'[q]] /\ todo' = [todo EXCEPT ![q] = todo'[q]]
  /\ step' = [step EXCEPT ![q] = step'[q]] /\ object' = [object EXCEPT ![q] = object'[q]]
  /\ row' = [row EXCEPT ![q] = row'[q]]

LEMMA Moves ==
  ASSUME MigrationInv, NEW q \in Starters, DbTrue', OthersSee(q), Only(q),
         faults' \in 0 .. MaxFaults, StarterTrue(q)'
  PROVE  MigrationInv'
  <1>0. Shaped BY InvParts
  <1>1. Shaped' BY <1>0 DEF Shaped, Only
  <1>2. ASSUME NEW p \in Starters \ {q} PROVE StarterTrue(p)'
    <2>1. /\ pc'[p] = pc[p] /\ todo'[p] = todo[p] /\ step'[p] = step[p]
          /\ object'[p] = object[p] /\ row'[p] = row[p]
      BY <1>0 DEF Shaped, Only
    <2> QED BY <2>1, StandsStill
  <1> QED BY <1>1, <1>2, InvPartsNext

\* What the invariant says of the starter that moves.
LEMMA Mover ==
  ASSUME MigrationInv, NEW q \in Starters
  PROVE  /\ DbTrue /\ StarterTrue(q) /\ Typed(q) /\ Shaped /\ Current = 5
         /\ View(q) \in Databases /\ Coherent(View(q)) /\ Truthful(View(q))
         /\ db \in Databases /\ writer \in Starters \cup {NoStarter} /\ faults \in 0 .. MaxFaults
         /\ q # NoStarter
  BY InvParts, ViewType, VersionAssumption DEF StarterTrue, DbTrue, Shaped

\* A starter that is not starting has nothing to be true of but its types.
LEMMA Stopped ==
  ASSUME NEW q \in Starters, Typed(q)', pc'[q] \in {"down", "failed"}, writer' # q
  PROVE  StarterTrue(q)'
  BY DEF StarterTrue, UpTrue, CreatesTrue, MigratesTrue, Starting, Migrating

LEMMA FailKeeps ==
  ASSUME MigrationInv, NEW q \in Starters, Fail(q)
  PROVE  MigrationInv'
  <1>0. DbTrue /\ Typed(q) /\ Shaped /\ faults \in 0 .. MaxFaults BY Mover
  <1>1. DbTrue' /\ writer' # q /\ OthersSee(q) BY <1>0, RolledBack DEF Fail
  <1>2. pc'[q] = "failed" /\ Only(q) BY <1>0 DEF Fail, Goto, Shaped, Only
  <1>3. Typed(q)' BY <1>0, <1>2 DEF Typed, Fail
  <1>4. StarterTrue(q)' BY <1>1, <1>2, <1>3, Stopped
  <1> QED BY <1>0, <1>1, <1>2, <1>4, Moves DEF Fail

LEMMA CrashKeeps ==
  ASSUME MigrationInv, NEW q \in Starters, Crash(q)
  PROVE  MigrationInv'
  <1>0. DbTrue /\ Typed(q) /\ Shaped /\ faults \in 0 .. MaxFaults BY Mover
  <1>1. DbTrue' /\ writer' # q /\ OthersSee(q) BY <1>0, RolledBack DEF Crash
  <1>2. pc'[q] = "down" /\ Only(q) BY <1>0 DEF Crash, Goto, Shaped, Only
  <1>3. Typed(q)' BY <1>0, <1>2 DEF Typed, Crash
  <1>4. StarterTrue(q)' BY <1>1, <1>2, <1>3, Stopped
  <1>5. faults' \in 0 .. MaxFaults BY <1>0, DatabasesAssumption DEF Crash
  <1> QED BY <1>1, <1>2, <1>4, <1>5, Moves

LEMMA StopKeeps ==
  ASSUME MigrationInv, NEW q \in Starters, Stop(q)
  PROVE  MigrationInv'
  <1>0. DbTrue /\ StarterTrue(q) /\ Typed(q) /\ Shaped /\ faults \in 0 .. MaxFaults BY Mover
  <1>1. DbTrue' /\ OthersSee(q) BY <1>0, DbSame DEF Stop
  <1>2. pc'[q] = "down" /\ Only(q) BY <1>0 DEF Stop, Goto, Shaped, Only
  <1>3. Typed(q)' BY <1>0, <1>2 DEF Typed, Stop
  <1>4. writer' # q BY <1>0 DEF Stop, StarterTrue, Starting, Migrating
  <1>5. StarterTrue(q)' BY <1>2, <1>3, <1>4, Stopped
  <1>6. faults' \in 0 .. MaxFaults BY <1>0, DatabasesAssumption DEF Stop
  <1> QED BY <1>1, <1>2, <1>5, <1>6, Moves

LEMMA StartKeeps ==
  ASSUME MigrationInv, NEW q \in Starters, Start(q)
  PROVE  MigrationInv'
  <1>0. DbTrue /\ StarterTrue(q) /\ Typed(q) /\ Shaped /\ faults \in 0 .. MaxFaults BY Mover
  <1>1. DbTrue' /\ OthersSee(q) /\ View(q)' = View(q) BY <1>0, DbSame DEF Start
  <1>2. pc'[q] = "create_all" /\ todo'[q] = Missing(db) /\ Only(q)
    BY <1>0 DEF Start, Goto, Shaped, Only
  <1>3. writer # q BY <1>0 DEF Start, StarterTrue, Starting, Migrating
  <1>4. View(q)' = db /\ db' = db BY <1>1, <1>3 DEF Start, View
  <1>5. Typed(q)' BY <1>0, <1>2, MissingFacts, SMTT(60) DEF Typed, Start, Starting
  <1>6. CreatesTrue(q)'
    <2> DEFINE m == Missing(db)
    <2>1. /\ Tables \subseteq db.tables \cup Range(m)
          /\ \A i \in DOMAIN m, t \in Tables :
               m[i] \in Indexes[t] => \E j \in 1 .. i - 1 : m[j] = t
      BY MissingFacts
    <2>2. todo'[q] = m BY <1>2
    <2> HIDE DEF m
    <2> QED BY <1>4, <2>1, <2>2 DEF CreatesTrue
  <1>7. StarterTrue(q)'
    BY <1>2, <1>5, <1>6 DEF StarterTrue, UpTrue, MigratesTrue, Starting, Migrating
  <1> QED BY <1>0, <1>1, <1>2, <1>7, Moves DEF Start

\* An object that create_all creates belongs to a table that is there.
LEMMA CreateKeeps ==
  ASSUME MigrationInv, NEW q \in Starters, Create(q)
  PROVE  MigrationInv'
  <1> DEFINE x == Head(todo[q])
             v == View(q)
             grown == [v EXCEPT !.tables = @ \cup {x}, !.has = @ \cup Columns[x]]
             indexed == [v EXCEPT !.has = @ \cup {x}]
             after == IF x \in Tables THEN grown ELSE indexed
  <1>0. /\ DbTrue /\ StarterTrue(q) /\ Typed(q) /\ Shaped /\ faults \in 0 .. MaxFaults
        /\ v \in Databases /\ Coherent(v) /\ Truthful(v)
    BY Mover
  <1>1. CASE Fail(q) BY <1>1, FailKeeps
  <1>2. CASE ~ Fail(q)
    <2>1. /\ pc[q] = "create_all" /\ todo[q] # <<>> /\ WriteDdl(q, after)
          /\ todo' = [todo EXCEPT ![q] = Tail(todo[q])]
          /\ UNCHANGED <<pc, step, object, row, faults>>
      BY <1>0, <1>2 DEF Create, Shaped
    <2>2. todo[q] \in Seq(Objects) /\ x \in Objects /\ Tail(todo[q]) \in Seq(Objects)
      BY <1>0, <2>1 DEF Typed
    <2>3. /\ \A i \in DOMAIN Tail(todo[q]) : /\ i + 1 \in DOMAIN todo[q]
                                             /\ Tail(todo[q])[i] = todo[q][i+1]
          /\ 1 \in DOMAIN todo[q] /\ todo[q][1] = x
          /\ \A i \in DOMAIN todo[q] : i # 1 => /\ i - 1 \in DOMAIN Tail(todo[q])
                                                /\ todo[q][i] = Tail(todo[q])[i-1]
      BY <2>1, <2>2
    <2>4. CreatesTrue(q) BY <1>0 DEF StarterTrue
    <2> HIDE DEF x, v
    <2>5. x \notin Tables => \E t \in v.tables : x \in Indexes[t]
      <3> SUFFICES ASSUME x \notin Tables PROVE \E t \in v.tables : x \in Indexes[t] OBVIOUS
      <3>1. PICK t \in Tables : x \in Indexes[t] BY <2>2 DEF Objects
      <3>2. t \in v.tables \/ \E j \in 1 .. 1 - 1 : todo[q][j] = t
        BY <2>1, <2>3, <2>4, <3>1 DEF CreatesTrue, v
      <3> QED BY <3>1, <3>2
    <2>6. /\ after \in Databases /\ after.rows = v.rows /\ after.version = v.version
          /\ v.tables \subseteq after.tables /\ v.has \subseteq after.has
          /\ x \in Tables => after.tables = v.tables \cup {x}
      <3>1. x \in Tables => Columns[x] \subseteq Catalogue(Tables) BY SchemaFacts
      <3>2. x \notin Tables => x \in Catalogue(Tables)
        BY <1>0, <2>5, SchemaFacts DEF Databases
      <3> QED BY <1>0, <3>1, <3>2 DEF Databases
    <2>7. Coherent(after)
      <3>1. CASE x \in Tables
        <4>1. /\ after.tables = v.tables \cup {x} /\ after.has = v.has \cup Columns[x]
              /\ after.version = v.version
          BY <1>0, <3>1 DEF Databases
        <4>2. Catalogue(after.tables) = Catalogue(v.tables) \cup (Columns[x] \cup Indexes[x])
          BY <4>1 DEF Catalogue
        <4> QED BY <1>0, <4>1, <4>2 DEF Coherent
      <3>2. CASE x \notin Tables
        <4>1. after.tables = v.tables /\ after.has = v.has \cup {x} /\ after.version = v.version
          BY <1>0, <3>2 DEF Databases
        <4>2. x \in Catalogue(v.tables) BY <2>5, <3>2 DEF Catalogue
        <4> QED BY <1>0, <4>1, <4>2 DEF Coherent
      <3> QED BY <3>1, <3>2
    <2>8. Truthful(after) BY <1>0, <2>6 DEF Truthful
    <2> HIDE DEF after
    <2>9. DbTrue' /\ View(q)' = after /\ OthersSee(q) /\ db'.version = db.version
          /\ writer' \in {q, writer}
      BY <1>0, <2>1, <2>6, <2>7, <2>8, DdlWritten DEF v
    <2>10. todo'[q] = Tail(todo[q]) /\ Only(q) BY <1>0, <2>1 DEF Shaped, Only
    <2>11. Typed(q)' BY <1>0, <2>1, <2>2, <2>10 DEF Typed
    <2>12. CreatesTrue(q)'
      <3>1. Tables \subseteq after.tables \cup Range(Tail(todo[q]))
        <4> SUFFICES ASSUME NEW t \in Tables, t \notin after.tables
                     PROVE  t \in Range(Tail(todo[q]))
          OBVIOUS
        <4>1. t \notin v.tables /\ t # x BY <2>6
        <4>2. PICK i \in DOMAIN todo[q] : todo[q][i] = t
          BY <2>1, <2>4, <4>1 DEF CreatesTrue, Range, v
        <4>3. i # 1 BY <2>3, <4>1, <4>2
        <4> QED BY <2>3, <4>2, <4>3 DEF Range
      <3>2. ASSUME NEW i \in DOMAIN Tail(todo[q]), NEW t \in Tables,
                   Tail(todo[q])[i] \in Indexes[t], t \notin after.tables
            PROVE  \E j \in 1 .. i - 1 : Tail(todo[q])[j] = t
        <4>1. t \notin v.tables /\ t # x BY <2>6, <3>2
        <4>2. i + 1 \in DOMAIN todo[q] /\ todo[q][i+1] \in Indexes[t] BY <2>3, <3>2
        <4>3. PICK j \in 1 .. (i + 1) - 1 : todo[q][j] = t
          BY <2>1, <2>4, <4>1, <4>2 DEF CreatesTrue, v
        <4>4. i \in Nat /\ j \in DOMAIN todo[q] BY <2>2, <4>2
        <4>5. j # 1 BY <2>3, <4>1, <4>3
        <4>6. j - 1 \in 1 .. i - 1 BY <4>4, <4>5
        <4> QED BY <2>3, <4>3, <4>4, <4>5, <4>6
      <3>3. after.version = db'.version BY <2>1, <2>4, <2>6, <2>9 DEF CreatesTrue, v
      <3> QED BY <2>9, <2>10, <3>1, <3>2, <3>3 DEF CreatesTrue
    <2>13. StarterTrue(q)'
      BY <2>1, <2>11, <2>12 DEF StarterTrue, UpTrue, MigratesTrue, Starting, Migrating
    <2> QED BY <1>0, <2>1, <2>9, <2>10, <2>13, Moves
  <1> QED BY <1>1, <1>2

\* A step that only reads: the mover sees what it saw.
LEMMA ReaderMoves ==
  ASSUME MigrationInv, NEW q \in Starters, UNCHANGED <<db, work, writer, faults>>, Only(q),
         Typed(q)', pc'[q] \in Migrating, MigratesTrue(q)'
  PROVE  MigrationInv'
  <1>1. DbTrue /\ StarterTrue(q) /\ faults \in 0 .. MaxFaults BY Mover
  <1>2. DbTrue' /\ OthersSee(q) BY <1>1, DbSame
  <1>3. StarterTrue(q)'
    BY <1>1 DEF StarterTrue, UpTrue, CreatesTrue, Starting, Migrating
  <1> QED BY <1>1, <1>2, <1>3, Moves

LEMMA ReadVersionKeeps ==
  ASSUME MigrationInv, NEW q \in Starters, ReadVersion(q)
  PROVE  MigrationInv'
  <1> DEFINE v == View(q)
  <1>0. /\ DbTrue /\ StarterTrue(q) /\ Typed(q) /\ Shaped /\ Current = 5
        /\ v \in Databases /\ Truthful(v)
    BY Mover
  <1>1. CASE Fail(q) BY <1>1, FailKeeps
  <1>2. CASE ~ Fail(q)
    <2>1. /\ pc[q] = "create_all" /\ todo[q] = <<>> /\ v.version <= Current
          /\ step' = [step EXCEPT ![q] = IF v.version = NoVersion THEN 1 ELSE v.version + 1]
          /\ pc' = [pc EXCEPT ![q] = "migrate"]
          /\ UNCHANGED <<db, work, writer, todo, object, row, faults>>
      BY <1>2 DEF ReadVersion, Goto
    <2>2. v.tables = Tables /\ v.version = db.version
      <3>1. Range(todo[q]) = {} BY <2>1 DEF Range
      <3>2. CreatesTrue(q) BY <1>0 DEF StarterTrue
      <3>3. Tables \subseteq v.tables \cup Range(todo[q]) /\ v.version = db.version
        BY <2>1, <3>2 DEF CreatesTrue
      <3> QED BY <1>0, <3>1, <3>3 DEF Databases
    <2>3. View(q)' = v /\ db' = db BY <2>1 DEF View
    <2> HIDE DEF v
    <2>4. /\ pc'[q] = "migrate" /\ Only(q)
          /\ step'[q] = IF v.version = NoVersion THEN 1 ELSE v.version + 1
      BY <1>0, <2>1 DEF Shaped, Only
    <2>5. v.version \in Nat \cup {NoVersion} BY <1>0 DEF Databases
    <2>6. step'[q] \in 1 .. Current + 1 /\ (step'[q] > 1 => v.version = step'[q] - 1)
      BY <1>0, <2>1, <2>4, <2>5 DEF NoVersion
    <2>7. Typed(q)'
      <3>1. step'[q] \in 0 .. Current + 1 BY <1>0, <2>6
      <3> QED BY <1>0, <2>1, <2>4, <3>1 DEF Typed, Starting, Migrating
    <2>8. ASSUME NEW k \in 1 .. Current, k < step'[q] PROVE Effect[k] \subseteq v.has
      <3>1. k <= v.version /\ v.version # NoVersion
        BY <1>0, <2>5, <2>6, <2>8 DEF NoVersion
      <3> QED BY <1>0, <3>1 DEF Truthful
    <2>9. MigratesTrue(q)'
      <3>1. step'[q] >= 1 /\ (step'[q] > 1 => v.version >= step'[q] - 1)
        BY <1>0, <2>5, <2>6 DEF NoVersion
      <3> QED BY <2>1, <2>2, <2>3, <2>4, <2>8, <3>1 DEF MigratesTrue
    <2>10. pc'[q] \in Migrating BY <2>4 DEF Migrating
    <2> QED BY <2>1, <2>4, <2>7, <2>9, <2>10, ReaderMoves
  <1> QED BY <1>1, <1>2

LEMMA LookupKeeps ==
  ASSUME MigrationInv, NEW q \in Starters, Lookup(q)
  PROVE  MigrationInv'
  <1>0. /\ DbTrue /\ StarterTrue(q) /\ Typed(q) /\ Shaped /\ Current = 5 BY Mover
  <1>1. /\ pc[q] = "migrate" /\ step[q] < Current
        /\ UNCHANGED <<db, work, writer, todo, step, row, faults>>
        /\ View(q)' = View(q)
    BY DEF Lookup, View
  <1>2. MigratesTrue(q) /\ pc[q] \in Migrating BY <1>0, <1>1 DEF StarterTrue, Migrating
  <1>3. CASE /\ Effect[step[q]] \ View(q).has = {} /\ pc' = [pc EXCEPT ![q] = "read_row"]
             /\ UNCHANGED object
    <2>1. pc'[q] = "read_row" /\ Only(q) BY <1>0, <1>1, <1>3 DEF Shaped, Only
    <2>2. Typed(q)' /\ pc'[q] \in Migrating
      BY <1>0, <1>1, <1>3, <2>1 DEF Typed, Starting, Migrating
    <2>3. step[q] <= Current /\ step[q] # Current BY <1>0, <1>1 DEF Typed
    <2>4. MigratesTrue(q)' BY <1>1, <1>2, <1>3, <2>1, <2>3 DEF MigratesTrue
    <2> QED BY <1>1, <2>1, <2>2, <2>4, ReaderMoves
  <1>4. CASE \E x \in Effect[step[q]] \ View(q).has :
               /\ pc' = [pc EXCEPT ![q] = "ddl"] /\ object' = [object EXCEPT ![q] = x]
    <2>1. PICK x \in Effect[step[q]] : /\ pc' = [pc EXCEPT ![q] = "ddl"]
                                       /\ object' = [object EXCEPT ![q] = x]
      BY <1>4
    <2>2. pc'[q] = "ddl" /\ object'[q] = x /\ Only(q) BY <1>0, <1>1, <2>1 DEF Shaped, Only
    <2>3. x \in Catalogue(Tables)
      <3>1. step[q] \in 1 .. Current BY <1>0, <1>1, <1>2 DEF Typed, MigratesTrue
      <3> QED BY <2>1, <3>1, EffectFacts
    <2>4. Typed(q)' /\ pc'[q] \in Migrating
      BY <1>0, <1>1, <2>2, <2>3 DEF Typed, Starting, Migrating
    <2>5. MigratesTrue(q)' BY <1>1, <1>2, <2>1, <2>2 DEF MigratesTrue
    <2> QED BY <1>1, <2>2, <2>4, <2>5, ReaderMoves
  <1> QED BY <1>3, <1>4 DEF Lookup, Goto

LEMMA ReadRowKeeps ==
  ASSUME MigrationInv, NEW q \in Starters, ReadRow(q)
  PROVE  MigrationInv'
  <1>0. /\ DbTrue /\ StarterTrue(q) /\ Typed(q) /\ Shaped /\ View(q) \in Databases BY Mover
  <1>1. /\ pc[q] = "read_row" /\ row' = [row EXCEPT ![q] = View(q).version]
        /\ pc' = [pc EXCEPT ![q] = "write_row"]
        /\ UNCHANGED <<db, work, writer, todo, step, object, faults>>
        /\ View(q)' = View(q)
    BY DEF ReadRow, View, Goto
  <1>2. pc'[q] = "write_row" /\ row'[q] = View(q).version /\ Only(q)
    BY <1>0, <1>1 DEF Shaped, Only
  <1>3. Typed(q)' /\ pc'[q] \in Migrating
    BY <1>0, <1>1, <1>2 DEF Typed, Starting, Migrating, Databases
  <1>4. MigratesTrue(q)' BY <1>0, <1>1, <1>2 DEF StarterTrue, MigratesTrue, Migrating
  <1> QED BY <1>1, <1>2, <1>3, <1>4, ReaderMoves

\* The statement of a migration: its object is one the catalogue knows.
LEMMA DdlKeeps ==
  ASSUME MigrationInv, NEW q \in Starters, Ddl(q)
  PROVE  MigrationInv'
  <1> DEFINE v == View(q)
             after == [v EXCEPT !.has = @ \cup {object[q]}]
  <1>0. /\ DbTrue /\ StarterTrue(q) /\ Typed(q) /\ Shaped /\ Current = 5
        /\ faults \in 0 .. MaxFaults /\ v \in Databases /\ Coherent(v) /\ Truthful(v)
    BY Mover
  <1>1. CASE Fail(q) BY <1>1, FailKeeps
  <1>2. CASE ~ Fail(q)
    <2>1. /\ pc[q] = "ddl" /\ WriteDdl(q, after) /\ pc' = [pc EXCEPT ![q] = "migrate"]
          /\ UNCHANGED <<todo, step, object, row, faults>>
      BY <1>2 DEF Ddl, Goto
    <2>2. MigratesTrue(q) /\ pc[q] \in Migrating BY <1>0, <2>1 DEF StarterTrue, Migrating
    <2>3. v.tables = Tables /\ object[q] \in Catalogue(Tables)
      <3>1. v.tables = Tables /\ step[q] \in 1 .. Current /\ object[q] \in Effect[step[q]]
        BY <1>0, <2>1, <2>2 DEF MigratesTrue, Typed
      <3> QED BY <3>1, EffectFacts
    <2> HIDE DEF v
    <2>4. /\ after.tables = v.tables /\ after.has = v.has \cup {object[q]}
          /\ after.rows = v.rows /\ after.version = v.version /\ after \in Databases
      BY <1>0, <2>3 DEF Databases
    <2> HIDE DEF after
    <2>5. Coherent(after) /\ Truthful(after)
      BY <1>0, <2>3, <2>4 DEF Coherent, Truthful
    <2>6. DbTrue' /\ View(q)' = after /\ OthersSee(q) /\ db'.version = db.version
      BY <1>0, <2>1, <2>4, <2>5, DdlWritten DEF v
    <2>7. pc'[q] = "migrate" /\ Only(q) BY <1>0, <2>1 DEF Shaped, Only
    <2>8. Typed(q)' BY <1>0, <2>1, <2>7 DEF Typed, Starting, Migrating
    <2>9. MigratesTrue(q)'
      <3>1. /\ v.version <= Current /\ db.version <= Current /\ step[q] >= 1
            /\ step[q] > 1 => v.version >= step[q] - 1
            /\ \A k \in 1 .. Current : k < step[q] => Effect[k] \subseteq v.has
        BY <2>2 DEF MigratesTrue, v
      <3> QED BY <2>1, <2>3, <2>4, <2>6, <2>7, <3>1 DEF MigratesTrue
    <2>10. StarterTrue(q)'
      BY <2>7, <2>8, <2>9 DEF StarterTrue, UpTrue, CreatesTrue, Starting, Migrating
    <2> QED BY <1>0, <2>1, <2>6, <2>7, <2>10, Moves
  <1> QED BY <1>1, <1>2

LEMMA DropLegacyRowsKeeps ==
  ASSUME MigrationInv, NEW q \in Starters, DropLegacyRows(q)
  PROVE  MigrationInv'
  <1> DEFINE v == View(q)
             after == [v EXCEPT !.rows = @ \ {"legacy"}]
  <1>0. /\ DbTrue /\ StarterTrue(q) /\ Typed(q) /\ Shaped /\ Current = 5
        /\ faults \in 0 .. MaxFaults /\ v \in Databases /\ Coherent(v) /\ Truthful(v)
    BY Mover
  <1>1. /\ pc[q] = "migrate" /\ step[q] = Current /\ WriteRow(q, after)
        /\ pc' = [pc EXCEPT ![q] = "read_row"]
        /\ UNCHANGED <<todo, step, object, row, faults>>
    BY DEF DropLegacyRows, Goto
  <1>2. MigratesTrue(q) /\ pc[q] \in Migrating BY <1>0, <1>1 DEF StarterTrue, Migrating
  <1>3. /\ v.tables = Tables /\ v.version <= Current /\ db.version <= Current
        /\ v.version >= step[q] - 1
        /\ \A k \in 1 .. Current : k < step[q] => Effect[k] \subseteq v.has
    BY <1>0, <1>1, <1>2 DEF MigratesTrue
  <1> HIDE DEF v
  <1>4. /\ after.tables = v.tables /\ after.has = v.has /\ after.rows = v.rows \ {"legacy"}
        /\ after.version = v.version /\ after \in Databases
    BY <1>0 DEF Databases
  <1> HIDE DEF after
  <1>5. Coherent(after) /\ Truthful(after) BY <1>0, <1>4 DEF Coherent, Truthful
  <1>6. DbTrue' /\ View(q)' = after /\ OthersSee(q) /\ db' = db
    BY <1>0, <1>1, <1>4, <1>5, RowWritten DEF v
  <1>7. pc'[q] = "read_row" /\ Only(q) BY <1>0, <1>1 DEF Shaped, Only
  <1>8. Typed(q)' BY <1>0, <1>1, <1>7 DEF Typed, Starting, Migrating
  <1>9. Effect[Current] = {} BY <1>0 DEF Effect
  <1>10. MigratesTrue(q)'
    BY <1>0, <1>1, <1>3, <1>4, <1>6, <1>7, <1>9 DEF MigratesTrue
  <1>11. StarterTrue(q)'
    BY <1>7, <1>8, <1>10 DEF StarterTrue, UpTrue, CreatesTrue, Starting, Migrating
  <1> QED BY <1>0, <1>1, <1>6, <1>7, <1>11, Moves

\* The version that is written stands for a migration that has taken effect.
LEMMA WriteVersionKeeps ==
  ASSUME MigrationInv, NEW q \in Starters, WriteVersion(q)
  PROVE  MigrationInv'
  <1> DEFINE v == View(q)
             after == [v EXCEPT !.version = step[q]]
  <1>0. /\ DbTrue /\ StarterTrue(q) /\ Typed(q) /\ Shaped /\ Current = 5
        /\ faults \in 0 .. MaxFaults /\ v \in Databases /\ Coherent(v) /\ Truthful(v)
    BY Mover
  <1>1. /\ pc[q] = "write_row" /\ WriteRow(q, after)
        /\ step' = [step EXCEPT ![q] = step[q] + 1]
        /\ pc' = [pc EXCEPT ![q] = "migrate"]
        /\ UNCHANGED <<todo, object, row, faults>>
    BY <1>0 DEF WriteVersion, Goto, Shaped
  <1>2. MigratesTrue(q) /\ pc[q] \in Migrating BY <1>0, <1>1 DEF StarterTrue, Migrating
  <1>3. /\ v.tables = Tables /\ db.version <= Current /\ step[q] \in 1 .. Current
        /\ \A k \in 1 .. Current : k < step[q] => Effect[k] \subseteq v.has
        /\ Effect[step[q]] \subseteq v.has /\ (step[q] = Current => "legacy" \notin v.rows)
    BY <1>0, <1>1, <1>2 DEF MigratesTrue, Typed
  <1> HIDE DEF v
  <1>4. step[q] \in Nat BY <1>3
  <1>5. /\ after.tables = v.tables /\ after.has = v.has /\ after.rows = v.rows
        /\ after.version = step[q] /\ after \in Databases
    BY <1>0, <1>4 DEF Databases
  <1> HIDE DEF after
  <1>6. \A k \in 1 .. Current : k <= step[q] => Effect[k] \subseteq v.has
    <2> TAKE k \in 1 .. Current
    <2>1. CASE k < step[q] BY <1>3, <2>1
    <2>2. CASE k = step[q] BY <1>3, <2>2
    <2> QED BY <1>4, <2>1, <2>2
  <1>7. step[q] >= Current => "legacy" \notin v.rows BY <1>0, <1>3
  <1>8. Coherent(after) BY <1>0, <1>3, <1>5 DEF Coherent, Tables
  <1>9. Truthful(after) BY <1>5, <1>6, <1>7 DEF Truthful
  <1>10. DbTrue' /\ View(q)' = after /\ OthersSee(q) /\ db' = db
    BY <1>0, <1>1, <1>5, <1>8, <1>9, RowWritten DEF v
  <1>11. pc'[q] = "migrate" /\ step'[q] = step[q] + 1 /\ Only(q)
    BY <1>0, <1>1 DEF Shaped, Only
  <1>12. step'[q] \in 0 .. Current + 1 BY <1>0, <1>3, <1>11
  <1>13. Typed(q)' BY <1>0, <1>1, <1>11, <1>12 DEF Typed, Starting, Migrating
  <1>14. MigratesTrue(q)'
    <2>1. \A k \in 1 .. Current : k < step'[q] => Effect[k] \subseteq v.has
      BY <1>4, <1>6, <1>11
    <2>2. step[q] <= Current /\ step'[q] >= 1 /\ step[q] >= step'[q] - 1
      BY <1>3, <1>4, <1>11
    <2> QED BY <1>3, <1>5, <1>10, <1>11, <2>1, <2>2 DEF MigratesTrue
  <1>15. StarterTrue(q)'
    BY <1>11, <1>13, <1>14 DEF StarterTrue, UpTrue, CreatesTrue, Starting, Migrating
  <1> QED BY <1>0, <1>1, <1>10, <1>11, <1>15, Moves

\* What is committed is the whole schema, at the current version.
LEMMA CommitsWhole ==
  ASSUME MigrationInv, NEW q \in Starters, Commit(q)
  PROVE  /\ View(q).version = Current /\ db.version <= Current
         /\ View(q).tables = Tables /\ "legacy" \notin View(q).rows
         /\ \A k \in 1 .. Current : Effect[k] \subseteq View(q).has
  <1>1. /\ StarterTrue(q) /\ Typed(q) /\ Current = 5 /\ View(q) \in Databases
        /\ Truthful(View(q)) /\ pc[q] = "migrate" /\ step[q] > Current
    BY Mover DEF Commit
  <1>2. MigratesTrue(q) /\ pc[q] \in Migrating BY <1>1 DEF StarterTrue, Migrating
  <1>3. /\ View(q).tables = Tables /\ View(q).version <= Current /\ db.version <= Current
        /\ View(q).version >= step[q] - 1
    BY <1>1, <1>2 DEF MigratesTrue, Typed
  <1>4. View(q).version = Current BY <1>1, <1>3 DEF Databases, NoVersion, Typed
  <1> QED BY <1>1, <1>3, <1>4 DEF Truthful, NoVersion

LEMMA CommitKeeps ==
  ASSUME MigrationInv, NEW q \in Starters, Commit(q)
  PROVE  MigrationInv' /\ Grows(db, db')
  <1>0. DbTrue /\ Typed(q) /\ Shaped /\ faults \in 0 .. MaxFaults BY Mover
  <1>1. /\ db' = View(q) /\ work' = work /\ pc' = [pc EXCEPT ![q] = "up"]
        /\ writer' = (IF writer = q THEN NoStarter ELSE writer)
        /\ UNCHANGED <<todo, step, object, row, faults>>
    BY DEF Commit, Goto
  <1>2. /\ db'.version = Current /\ db'.tables = Tables /\ "legacy" \notin db'.rows
        /\ \A k \in 1 .. Current : Effect[k] \subseteq db'.has
    BY <1>1, CommitsWhole
  <1>3. DbTrue' /\ Grows(db, db') /\ writer' # q /\ OthersSee(q)
    <2>1. db.version <= View(q).version /\ View(q).version <= Current
      BY CommitsWhole, VersionAssumption
    <2> QED BY <1>0, <1>1, <2>1, Committed
  <1>4. pc'[q] = "up" /\ Only(q) BY <1>0, <1>1 DEF Shaped, Only
  <1>5. Typed(q)' BY <1>0, <1>1, <1>4 DEF Typed
  <1>6. UNION {Effect[k] : k \in 1 .. Current} \subseteq db'.has BY <1>2
  <1>7. StarterTrue(q)'
    BY <1>2, <1>3, <1>4, <1>5, <1>6 DEF StarterTrue, UpTrue, CreatesTrue, MigratesTrue, Migrating
  <1> QED BY <1>0, <1>1, <1>3, <1>4, <1>7, Moves

----------------------------------------------------------------------------
(* The theorems.                                                             *)

LEMMA InitTrue == Init => MigrationInv
  <1> SUFFICES ASSUME Init PROVE MigrationInv OBVIOUS
  <1>1. db \in Databases /\ Coherent(db) /\ Truthful(db) BY DatabasesAssumption DEF Init
  <1>2. DbTrue BY <1>1 DEF Init, DbTrue
  <1>3. Shaped BY DatabasesAssumption DEF Init, Shaped
  <1>4. ASSUME NEW p \in Starters PROVE StarterTrue(p)
    <2>1. p # NoStarter /\ Current = 5 BY VersionAssumption
    <2>2. <<>> \in Seq(Objects) OBVIOUS
    <2>3. Typed(p) BY <2>1, <2>2 DEF Init, Typed, NoVersion
    <2> QED BY <2>1, <2>3 DEF Init, StarterTrue, UpTrue, CreatesTrue, MigratesTrue, Migrating
  <1> QED BY <1>2, <1>3, <1>4, InvParts

LEMMA StutterKeeps == MigrationInv /\ UNCHANGED vars => MigrationInv'
  <1> SUFFICES ASSUME MigrationInv, UNCHANGED vars PROVE MigrationInv' OBVIOUS
  <1>1. DbTrue /\ Shaped /\ \A p \in Starters : StarterTrue(p) BY InvParts
  <1>2. DbTrue' BY <1>1, DbSame DEF vars
  <1>3. Shaped' BY <1>1 DEF vars, Shaped
  <1>4. ASSUME NEW p \in Starters PROVE StarterTrue(p)'
    <2>1. View(p)' = View(p) BY DEF vars, View
    <2>2. StarterTrue(p) BY <1>1
    <2> QED BY <2>1, <2>2
         DEF vars, StarterTrue, Typed, UpTrue, CreatesTrue, MigratesTrue
  <1> QED BY <1>2, <1>3, <1>4, InvPartsNext

LEMMA NextKeeps == MigrationInv /\ [Next]_vars => MigrationInv'
  <1> SUFFICES ASSUME MigrationInv, [Next]_vars PROVE MigrationInv' OBVIOUS
  <1>1. ASSUME NEW p \in Starters, Start(p) PROVE MigrationInv' BY <1>1, StartKeeps
  <1>2. ASSUME NEW p \in Starters, Create(p) PROVE MigrationInv' BY <1>2, CreateKeeps
  <1>3. ASSUME NEW p \in Starters, ReadVersion(p) PROVE MigrationInv' BY <1>3, ReadVersionKeeps
  <1>4. ASSUME NEW p \in Starters, Lookup(p) PROVE MigrationInv' BY <1>4, LookupKeeps
  <1>5. ASSUME NEW p \in Starters, Ddl(p) PROVE MigrationInv' BY <1>5, DdlKeeps
  <1>6. ASSUME NEW p \in Starters, DropLegacyRows(p) PROVE MigrationInv'
    BY <1>6, DropLegacyRowsKeeps
  <1>7. ASSUME NEW p \in Starters, ReadRow(p) PROVE MigrationInv' BY <1>7, ReadRowKeeps
  <1>8. ASSUME NEW p \in Starters, WriteVersion(p) PROVE MigrationInv'
    BY <1>8, WriteVersionKeeps
  <1>9. ASSUME NEW p \in Starters, Commit(p) PROVE MigrationInv' BY <1>9, CommitKeeps
  <1>10. ASSUME NEW p \in Starters, Crash(p) PROVE MigrationInv' BY <1>10, CrashKeeps
  <1>11. ASSUME NEW p \in Starters, Stop(p) PROVE MigrationInv' BY <1>11, StopKeeps
  <1>12. CASE UNCHANGED vars BY <1>12, StutterKeeps
  <1> QED BY <1>1, <1>2, <1>3, <1>4, <1>5, <1>6, <1>7, <1>8, <1>9, <1>10, <1>11, <1>12
       DEF Next, Step

LEMMA MigrationsHold == Spec => []MigrationInv
  BY InitTrue, NextKeeps, PTL DEF Spec

\* The recorded version and a process that is up tell the truth about the committed
\* schema, however many starters race and however many of them die on the way
\* (migrations.py).
THEOREM SchemaIsTrue == Spec => []SchemaTrue
  <1>1. MigrationInv => SchemaTrue BY DEF MigrationInv
  <1> QED BY <1>1, MigrationsHold, PTL

\* What a step may do to the committed database.
KeepsVersion ==
  db.version # NoVersion =>
    /\ db'.version # NoVersion /\ db'.version >= db.version
    /\ db.version > Current => db'.version = db.version /\ db'.rows = db.rows

KeepsData ==
  /\ db.tables \subseteq db'.tables /\ db.has \subseteq db'.has
  /\ db.rows \ {"legacy"} = db'.rows \ {"legacy"}

LEMMA SameKept ==
  ASSUME DbTrue, db'.version = db.version, db'.rows = db.rows,
         db.tables \subseteq db'.tables, db.has \subseteq db'.has
  PROVE  KeepsVersion /\ KeepsData
  <1>1. db.version \in Int BY DEF DbTrue, Databases, NoVersion
  <1> QED BY <1>1 DEF KeepsVersion, KeepsData

LEMMA StepKept ==
  MigrationInv /\ [Next]_vars =>
    /\ KeepsVersion /\ KeepsData
    /\ \A p \in Starters : pc[p] = "write_row" => pc'[p] # "failed"
  <1> SUFFICES ASSUME MigrationInv, [Next]_vars
               PROVE  /\ KeepsVersion /\ KeepsData
                      /\ \A p \in Starters : pc[p] = "write_row" => pc'[p] # "failed"
    OBVIOUS
  <1> DEFINE WritesPass == \A p \in Starters : pc[p] = "write_row" => pc'[p] # "failed"
  <1>0. DbTrue /\ Shaped /\ Current = 5 BY InvParts, VersionAssumption
  <1>1. CASE UNCHANGED vars
    <2>1. WritesPass BY <1>1 DEF vars
    <2>2. db' = db BY <1>1 DEF vars
    <2> QED BY <1>0, <2>1, <2>2, SameKept
  <1>2. ASSUME NEW q \in Starters, Step(q) \/ Crash(q) \/ Stop(q)
        PROVE  KeepsVersion /\ KeepsData /\ WritesPass
    <2>0. q # NoStarter /\ View(q) \in Databases BY Mover
    <2>1. WritesPass
      BY <1>0, <1>2 DEF Step, Start, Create, ReadVersion, Lookup, Ddl, DropLegacyRows,
           ReadRow, WriteVersion, Commit, Crash, Stop, Fail, Goto, Shaped
    <2>2. CASE Commit(q)
      <3>1. Grows(db, db') /\ db'.version = Current /\ db.version <= Current
        BY <2>2, CommitKeeps, CommitsWhole DEF Commit
      <3>2. db.version \in Int BY <1>0 DEF DbTrue, Databases, NoVersion
      <3>3. KeepsVersion BY <1>0, <3>1, <3>2 DEF KeepsVersion, NoVersion
      <3>4. KeepsData BY <3>1 DEF KeepsData, Grows
      <3> QED BY <2>1, <3>3, <3>4
    <2>3. CASE /\ ~ Commit(q) /\ ~ (db' = db)
      <3>1. \/ Create(q) /\ pc[q] = "create_all" /\ ~ Fail(q)
            \/ Ddl(q) /\ ~ Fail(q)
        BY <1>2, <2>3 DEF Step, Start, Create, ReadVersion, Lookup, Ddl, DropLegacyRows,
             ReadRow, WriteVersion, Crash, Stop, Fail, Rollback, WriteRow
      <3>2. PICK after : /\ WriteDdl(q, after) /\ after.rows = View(q).rows
                         /\ after.version = View(q).version
                         /\ View(q).tables \subseteq after.tables
                         /\ View(q).has \subseteq after.has
        <4> DEFINE v == View(q)
                   x == Head(todo[q])
                   grown == [v EXCEPT !.tables = @ \cup {x}, !.has = @ \cup Columns[x]]
                   indexed == [v EXCEPT !.has = @ \cup {x}]
                   added == [v EXCEPT !.has = @ \cup {object[q]}]
        <4>1. CASE Create(q) /\ ~ Fail(q)
          <5>1. WriteDdl(q, IF x \in Tables THEN grown ELSE indexed) BY <4>1 DEF Create
          <5>2. WriteDdl(q, grown) \/ WriteDdl(q, indexed) BY <5>1
          <5>3. /\ grown.rows = v.rows /\ grown.version = v.version
                /\ v.tables \subseteq grown.tables /\ v.has \subseteq grown.has
            BY <2>0 DEF Databases
          <5>4. /\ indexed.rows = v.rows /\ indexed.version = v.version
                /\ v.tables \subseteq indexed.tables /\ v.has \subseteq indexed.has
            BY <2>0 DEF Databases
          <5> HIDE DEF grown, indexed
          <5> QED BY <5>2, <5>3, <5>4
        <4>2. CASE Ddl(q) /\ ~ Fail(q)
          <5>1. WriteDdl(q, added) BY <4>2 DEF Ddl
          <5> QED BY <2>0, <5>1 DEF Databases
        <4> QED BY <3>1, <4>1, <4>2
      <3>3. writer = NoStarter /\ db' = after BY <2>3, <3>2 DEF WriteDdl, WriteRow
      <3>4. View(q) = db BY <2>0, <3>3 DEF View
      <3> QED BY <1>0, <2>1, <3>2, <3>3, <3>4, SameKept
    <2>4. CASE db' = db BY <1>0, <2>1, <2>4, SameKept
    <2> QED BY <2>2, <2>3, <2>4
  <1> QED BY <1>1, <1>2 DEF Next

\* Starters that race undo nothing of each other's work: the committed version never
\* goes back, tables, columns, indexes and claims with an expiry stay, a newer
\* database keeps its rows, and no version write fails (state_store.py, migrations.py).
THEOREM SchemaIsKept == Spec => SchemaKept
  <1>1. MigrationInv /\ [Next]_vars =>
          [db.version # NoVersion =>
             /\ db'.version # NoVersion /\ db'.version >= db.version
             /\ db.version > Current => db'.version = db.version /\ db'.rows = db.rows]_vars
    BY StepKept DEF KeepsVersion
  <1>2. MigrationInv /\ [Next]_vars =>
          [/\ db.tables \subseteq db'.tables /\ db.has \subseteq db'.has
           /\ db.rows \ {"legacy"} = db'.rows \ {"legacy"}]_vars
    BY StepKept DEF KeepsData
  <1>3. MigrationInv /\ [Next]_vars =>
          [\A p \in Starters : pc[p] = "write_row" => pc'[p] # "failed"]_vars
    BY StepKept
  <1> QED BY <1>1, <1>2, <1>3, MigrationsHold, PTL
       DEF Spec, SchemaKept, VersionNeverRegresses, NothingLost, VersionWritesSucceed

----------------------------------------------------------------------------
(* The composition: a step is a step of one of the parts.                    *)

LEMMA PartsOfStep ==
  ASSUME [StartupNext]_<<vars, files, application>>
  PROVE  [Next]_vars /\ [File!Next]_files /\ [Life!Next]_application
  BY DEF StartupNext, vars, files, application

LEMMA MigrationsOfStartup == StartupSpec => Spec
  <1>1. StartupInit => Init BY DEF StartupInit
  <1>2. [StartupNext]_<<vars, files, application>> => [Next]_vars BY PartsOfStep
  <1> QED BY <1>1, <1>2, PTL DEF StartupSpec, Spec

----------------------------------------------------------------------------
(* The file of the database.                                                 *)

\* What a check has found and done is still true, except where somebody replaced
\* a file behind it: the database is as it was seen or private by now, and the
\* sidecars it has passed are private or gone.
CheckTrue(p) ==
  0 \notin touched[p] =>
    /\ opener[p] = "relook" => node[0].kind # "none"
    /\ opener[p] = "chmod" /\ at[p] = 0 => File!Acceptable(node[0])
    /\ opener[p] \in {"look", "chmod"} /\ at[p] # 0 =>
         /\ node[0] = File!Created
         /\ \A x \in File!Places \ {0} :
              x < at[p] /\ x \notin touched[p] => node[x] \in {File!NoFile, File!Created}
         /\ opener[p] = "chmod" /\ at[p] \notin touched[p] =>
              node[at[p]] = File!NoFile \/ File!Acceptable(node[at[p]])

FileTypeOK ==
  /\ node \in [File!Places -> File!Files]
  /\ opener \in [Processes -> {"down", "look", "create", "relook", "chmod", "connect",
                               "open", "ready", "refused"}]
  /\ check \in [Processes -> {"build", "do_connect", "connect"}]
  /\ at \in [Processes -> File!Places] /\ touched \in [Processes -> SUBSET File!Places]
  /\ \A p \in Processes : opener[p] \notin {"look", "chmod"} => at[p] = 0

FileInv == FileTypeOK /\ \A p \in Processes : CheckTrue(p)

LEMMA ZeroIsPlace == 0 \in File!Places
  BY FilesAssumption DEF File!Places

LEMMA FileInitially == File!Init => FileInv
  BY FilesAssumption, ZeroIsPlace
     DEF File!Init, FileInv, FileTypeOK, CheckTrue, File!Files, File!NoFile, File!Kinds

LEMMA ModeSet ==
  ASSUME NEW k, NEW o, NEW q, NEW v, NEW f, f = [kind |-> k, ours |-> o, private |-> q]
  PROVE  [f EXCEPT !.private = v] = [kind |-> k, ours |-> o, private |-> v]
  OBVIOUS

LEMMA MadeWith ==
  ASSUME NEW q
  PROVE  [File!Created EXCEPT !.private = q] = [kind |-> "regular", ours |-> TRUE, private |-> q]
  <1> DEFINE o == TRUE
  <1>1. o = TRUE OBVIOUS
  <1>2. File!Created = [kind |-> "regular", ours |-> o, private |-> o]
    BY <1>1 DEF File!Created
  <1> HIDE DEF o
  <1>3. [File!Created EXCEPT !.private = q] = [kind |-> "regular", ours |-> o, private |-> q]
    BY <1>2, ModeSet
  <1> QED BY <1>1, <1>3

LEMMA FileTypes ==
  /\ File!NoFile \in File!Files /\ File!Created \in File!Files
  /\ \A q \in BOOLEAN : /\ [File!Created EXCEPT !.private = q] \in File!Files
                        /\ File!Acceptable([File!Created EXCEPT !.private = q])
                        /\ [File!Created EXCEPT !.private = q].kind # "none"
  /\ [File!Created EXCEPT !.private = TRUE] = File!Created
  /\ File!Acceptable(File!Created)
  /\ File!NoFile.kind = "none" /\ File!Created.kind = "regular" /\ File!Created.private = TRUE
  <1> USE DEF File!Files, File!NoFile, File!Created, File!Kinds
  <1>1. ASSUME NEW q \in BOOLEAN
        PROVE  [File!Created EXCEPT !.private = q] =
                 [kind |-> "regular", ours |-> TRUE, private |-> q]
    BY MadeWith
  <1>2. ASSUME NEW q \in BOOLEAN
        PROVE  LET g == [kind |-> "regular", ours |-> TRUE, private |-> q]
               IN  g \in File!Files /\ File!Acceptable(g) /\ g.kind # "none"
    BY DEF File!Acceptable
  <1> QED BY <1>1, <1>2

LEMMA MadePrivate ==
  ASSUME NEW f \in File!Files
  PROVE  LET g == [f EXCEPT !.private = TRUE]
         IN  /\ f.kind # "none" => g \in File!Files
             /\ g.kind = f.kind
             /\ f.kind = "none" <=> f = File!NoFile
             /\ f.private \in BOOLEAN
             /\ File!Acceptable(f) => g = File!Created /\ f.kind # "none"
  <1> USE DEF File!Files, File!NoFile, File!Created, File!Kinds
  <1>1. CASE f = File!NoFile BY <1>1 DEF File!Acceptable
  <1>2. CASE f # File!NoFile
    <2>1. PICK k \in File!Kinds \ {"none"}, o \in BOOLEAN, q \in BOOLEAN :
            f = [kind |-> k, ours |-> o, private |-> q]
      BY <1>2
    <2>2. [f EXCEPT !.private = TRUE] = [kind |-> k, ours |-> o, private |-> TRUE]
      <3> DEFINE v == TRUE
      <3>1. v = TRUE OBVIOUS
      <3> HIDE DEF v
      <3>2. [f EXCEPT !.private = v] = [kind |-> k, ours |-> o, private |-> v]
        BY <2>1, ModeSet
      <3> QED BY <3>1, <3>2
    <2>3. File!Acceptable(f) => k = "regular" /\ o BY <2>1 DEF File!Acceptable
    <2> QED BY <1>2, <2>1, <2>2, <2>3
  <1> QED BY <1>1, <1>2

\* What the processes and SQLite do to the files takes nothing back.
Harmless ==
  /\ node[0].kind # "none" => node'[0].kind # "none"
  /\ File!Acceptable(node[0]) => File!Acceptable(node'[0])
  /\ node[0] = File!Created =>
       /\ node'[0] = File!Created
       /\ \A x \in File!Places \ {0} :
            /\ node[x] \in {File!NoFile, File!Created} => node'[x] \in {File!NoFile, File!Created}
            /\ node[x] = File!NoFile \/ File!Acceptable(node[x]) =>
                 node'[x] = File!NoFile \/ File!Acceptable(node'[x])

LEMMA CheckStays ==
  ASSUME FileInv, NEW p \in Processes, Harmless,
         opener'[p] = opener[p], at'[p] = at[p], touched'[p] = touched[p]
  PROVE  CheckTrue(p)'
  <1>1. CheckTrue(p) /\ at[p] \in File!Places BY DEF FileInv, FileTypeOK
  <1> QED BY <1>1 DEF CheckTrue, Harmless

LEMMA NodeStays == FileInv /\ node' = node => Harmless
  BY DEF Harmless

\* A file that is made private, made where there was none, or deleted beside the
\* database.
LEMMA WritesAreHarmless ==
  ASSUME FileInv, NEW x \in File!Places, NEW f \in File!Files,
         node' = [node EXCEPT ![x] = f],
         \/ node[x].kind # "none" /\ f = [node[x] EXCEPT !.private = TRUE]
         \/ x = 0 /\ node[x].kind = "none" /\ f.kind = "regular" /\ File!Acceptable(f)
         \/ x # 0 /\ node[x].kind = "none" /\ f = [File!Created EXCEPT !.private = node[0].private]
         \/ x # 0 /\ f = File!NoFile
  PROVE  Harmless /\ node' \in [File!Places -> File!Files]
  <1>0. node \in [File!Places -> File!Files] /\ 0 \in File!Places
    BY ZeroIsPlace DEF FileInv, FileTypeOK
  <1>1. /\ node'[x] = f /\ node' \in [File!Places -> File!Files]
        /\ \A y \in File!Places \ {x} : node'[y] = node[y]
    BY <1>0
  <1>2. CASE node[x].kind # "none" /\ f = [node[x] EXCEPT !.private = TRUE]
    <2>1. /\ f.kind # "none" /\ node[x] # File!NoFile
          /\ File!Acceptable(node[x]) => f = File!Created
      BY <1>0, <1>2, MadePrivate
    <2>2. node[x] = File!Created => f = File!Created BY <2>1, FileTypes
    <2> QED BY <1>0, <1>1, <2>1, <2>2, FileTypes DEF Harmless
  <1>3. CASE x = 0 /\ node[x].kind = "none" /\ f.kind = "regular" /\ File!Acceptable(f)
    <2>1. node[0] # File!Created /\ ~ File!Acceptable(node[0])
      BY <1>0, <1>3, FileTypes DEF File!Acceptable
    <2> QED BY <1>0, <1>1, <1>3, <2>1 DEF Harmless
  <1>4. CASE x # 0 /\ node[x].kind = "none" /\ f = [File!Created EXCEPT !.private = node[0].private]
    <2>1. File!Acceptable(f) BY <1>0, <1>4, FileTypes, MadePrivate
    <2>2. node[0] = File!Created => f = File!Created BY <1>4, FileTypes
    <2> QED BY <1>0, <1>1, <1>4, <2>1, <2>2 DEF Harmless
  <1>5. CASE x # 0 /\ f = File!NoFile
    BY <1>0, <1>1, <1>5 DEF Harmless
  <1> QED BY <1>2, <1>3, <1>4, <1>5

\* A step that leaves the files alone and moves one process.
LEMMA LeaveKeeps ==
  ASSUME FileInv, NEW p \in Processes, NEW l, Harmless, node' \in [File!Places -> File!Files],
         l \in {"down", "look", "connect", "open", "ready", "refused"} \/
           (l = "chmod" /\ File!Acceptable(node[0])),
         File!Leave(p, l), check' \in [Processes -> {"build", "do_connect", "connect"}]
  PROVE  FileInv'
  <1> USE DEF File!Leave, File!Goto
  <1>1. FileTypeOK' BY ZeroIsPlace DEF FileInv, FileTypeOK
  <1>2. ASSUME NEW q \in Processes PROVE CheckTrue(q)'
    <2>1. CASE q = p BY <2>1 DEF FileInv, FileTypeOK, CheckTrue, Harmless
    <2>2. CASE q # p BY <2>2, CheckStays DEF FileInv, FileTypeOK
    <2> QED BY <2>1, <2>2
  <1> QED BY <1>1, <1>2 DEF FileInv

LEMMA StepStays ==
  ASSUME FileInv, NEW p \in Processes, NEW l, Harmless, node' \in [File!Places -> File!Files],
         File!Goto(p, l), UNCHANGED <<check, touched>>,
         l \in {"look", "create", "relook", "chmod"}, at' \in [Processes -> File!Places],
         \A q \in Processes \ {p} : at'[q] = at[q],
         l \notin {"look", "chmod"} => at'[p] = 0,
         CheckTrue(p)'
  PROVE  FileInv'
  <1> USE DEF File!Goto
  <1>1. FileTypeOK' BY DEF FileInv, FileTypeOK
  <1>2. ASSUME NEW q \in Processes, q # p PROVE CheckTrue(q)'
    BY <1>2, CheckStays DEF FileInv, FileTypeOK
  <1> QED BY <1>1, <1>2 DEF FileInv

\* The next place is come to when the one before is private or gone.
Passed(p) ==
  0 \notin touched[p] =>
    /\ node'[0] = File!Created
    /\ \A x \in File!Places \ {0} :
         x <= at[p] /\ x \notin touched[p] => node'[x] \in {File!NoFile, File!Created}

LEMMA NextPlaceKeeps ==
  ASSUME FileInv, NEW p \in Processes, Harmless, node' \in [File!Places -> File!Files],
         File!NextPlace(p), UNCHANGED check, Passed(p)
  PROVE  FileInv'
  <1>0. at[p] \in 0..Sidecars /\ Sidecars \in Nat /\ at \in [Processes -> File!Places]
        /\ check[p] \in {"build", "do_connect", "connect"} /\ touched[p] \subseteq File!Places
    BY FilesAssumption DEF FileInv, FileTypeOK, File!Places
  <1>1. CASE at[p] < Sidecars
    <2>1. /\ File!Goto(p, "look") /\ at' = [at EXCEPT ![p] = at[p] + 1] /\ UNCHANGED touched
      BY <1>0, <1>1 DEF File!NextPlace
    <2>2. at'[p] = at[p] + 1 /\ at'[p] \in File!Places /\ opener'[p] = "look"
      BY <1>0, <1>1, <2>1 DEF File!Places, File!Goto, FileInv, FileTypeOK
    <2>3. \A x \in File!Places : x < at'[p] => x <= at[p]
      BY <1>0, <2>2 DEF File!Places
    <2>4. CheckTrue(p)' BY <2>1, <2>2, <2>3 DEF CheckTrue, Passed
    <2> QED BY <1>0, <2>1, <2>2, <2>4, StepStays
  <1>2. CASE ~ (at[p] < Sidecars)
    <2>1. File!Leave(p, File!AfterCheck[check[p]]) BY <1>2 DEF File!NextPlace
    <2>2. File!AfterCheck[check[p]] \in {"connect", "open", "ready"}
      BY <1>0 DEF File!AfterCheck
    <2>3. check' \in [Processes -> {"build", "do_connect", "connect"}]
      BY DEF FileInv, FileTypeOK
    <2> QED BY <2>1, <2>2, <2>3, LeaveKeeps
  <1> QED BY <1>1, <1>2

LEMMA LookPasses ==
  ASSUME FileInv, NEW p \in Processes, File!Look(p), node[at[p]].kind = "none", at[p] # 0
  PROVE  Passed(p)
  <1>1. /\ CheckTrue(p) /\ UNCHANGED node /\ at[p] \in File!Places
        /\ node[at[p]] = File!NoFile /\ opener[p] = "look"
    BY MadePrivate DEF FileInv, FileTypeOK, File!Look
  <1>2. \A x \in File!Places : x <= at[p] => x < at[p] \/ x = at[p]
    BY <1>1, FilesAssumption DEF File!Places
  <1> QED BY <1>1, <1>2 DEF CheckTrue, Passed

LEMMA LookKeeps ==
  ASSUME FileInv, NEW p \in Processes, File!Look(p)
  PROVE  FileInv'
  <1> DEFINE f == node[at[p]]
  <1>0. /\ FileTypeOK /\ CheckTrue(p) /\ Harmless /\ node' \in [File!Places -> File!Files]
        /\ UNCHANGED <<node, check>> /\ at[p] \in File!Places /\ f \in File!Files
        /\ f.kind = "none" <=> f = File!NoFile /\ opener[p] = "look"
    BY NodeStays, MadePrivate DEF FileInv, FileTypeOK, File!Look
  <1>1. CASE File!Acceptable(f) /\ File!Goto(p, "chmod") /\ UNCHANGED <<at, touched>>
    <2>1. opener'[p] = "chmod" BY <1>0, <1>1 DEF File!Goto, FileTypeOK
    <2>2. CheckTrue(p)' BY <1>0, <1>1, <2>1 DEF CheckTrue, File!Look
    <2> QED BY <1>0, <1>1, <2>2, StepStays DEF FileTypeOK
  <1>2. CASE File!Leave(p, "refused")
    BY <1>0, <1>2, LeaveKeeps DEF FileTypeOK
  <1>3. CASE at[p] = 0 /\ File!Goto(p, "create") /\ UNCHANGED <<at, touched>>
    <2>1. opener'[p] = "create" BY <1>0, <1>3 DEF File!Goto, FileTypeOK
    <2>2. CheckTrue(p)' BY <1>3, <2>1 DEF CheckTrue
    <2> QED BY <1>0, <1>3, <2>2, StepStays DEF FileTypeOK
  <1>4. CASE f.kind = "none" /\ at[p] # 0 /\ File!NextPlace(p)
    <2>1. Passed(p) BY <1>4, LookPasses
    <2> QED BY <1>0, <1>4, <2>1, NextPlaceKeeps
  <1> QED BY <1>1, <1>2, <1>3, <1>4 DEF File!Look

LEMMA FileCreateKeeps ==
  ASSUME FileInv, NEW p \in Processes, File!Create(p)
  PROVE  FileInv'
  <1>0. /\ FileTypeOK /\ node[0] \in File!Files /\ 0 \in File!Places /\ opener[p] = "create"
        /\ UNCHANGED <<check, at, touched>> /\ File!Goto(p, "relook")
    <2>1. File!Goto(p, "relook") /\ opener[p] = "create" /\ UNCHANGED <<check, at, touched>>
      BY DEF File!Create
    <2> QED BY <2>1, ZeroIsPlace DEF FileInv, FileTypeOK
  <1>4. at[p] = 0 BY <1>0 DEF FileTypeOK
  <1>1. Harmless /\ node' \in [File!Places -> File!Files] /\ node'[0].kind # "none"
    <2>1. CASE node[0].kind = "none"
      <3>1. node' = [node EXCEPT ![0] = File!Created] BY <2>1 DEF File!Create
      <3>2. node'[0] = File!Created BY <1>0, <3>1 DEF FileTypeOK
      <3> QED BY <1>0, <2>1, <3>1, <3>2, FileTypes, WritesAreHarmless
    <2>2. CASE node[0].kind # "none"
      BY <1>0, <2>2, NodeStays DEF File!Create, FileTypeOK
    <2> QED BY <2>1, <2>2
  <1>2. opener'[p] = "relook" BY <1>0 DEF File!Goto, FileTypeOK
  <1>3. CheckTrue(p)' BY <1>0, <1>1, <1>2 DEF CheckTrue
  <1>5. /\ at' \in [Processes -> File!Places] /\ at'[p] = 0
        /\ \A q \in Processes \ {p} : at'[q] = at[q]
    BY <1>0, <1>4 DEF FileTypeOK
  <1> QED BY <1>0, <1>1, <1>3, <1>5, StepStays

LEMMA ChmodPasses ==
  ASSUME FileInv, NEW p \in Processes, File!Chmod(p),
         \/ /\ node[at[p]].kind \notin {"none", "symlink"} /\ node[at[p]].ours
            /\ node' = [node EXCEPT ![at[p]].private = TRUE]
         \/ node[at[p]].kind = "symlink" /\ UNCHANGED node
  PROVE  Passed(p) /\ Harmless /\ node' \in [File!Places -> File!Files]
  <1> DEFINE f == node[at[p]]
             g == [f EXCEPT !.private = TRUE]
  <1>0. /\ FileTypeOK /\ CheckTrue(p) /\ at[p] \in File!Places /\ f \in File!Files
        /\ opener[p] = "chmod"
    BY DEF FileInv, FileTypeOK, File!Chmod
  <1>1. /\ f.kind # "none" => g \in File!Files
        /\ f.kind = "none" <=> f = File!NoFile
        /\ File!Acceptable(f) => g = File!Created /\ f.kind = "regular"
    BY <1>0, MadePrivate DEF File!Acceptable
  <1>2. \A x \in File!Places : x <= at[p] => x < at[p] \/ x = at[p]
    BY <1>0, FilesAssumption DEF File!Places
  <1>3. CASE f.kind # "none" /\ node' = [node EXCEPT ![at[p]].private = TRUE]
    <2>1. node' = [node EXCEPT ![at[p]] = g] BY <1>3
    <2>2. Harmless /\ node' \in [File!Places -> File!Files]
      BY <1>0, <1>1, <1>3, <2>1, WritesAreHarmless
    <2>3. node'[at[p]] = g /\ \A x \in File!Places \ {at[p]} : node'[x] = node[x]
      BY <1>0, <2>1 DEF FileTypeOK
    <2>4. CASE at[p] = 0
      <3>1. 0 \notin touched[p] => node'[0] = File!Created
        BY <1>0, <1>1, <2>3, <2>4 DEF CheckTrue
      <3>2. \A x \in File!Places \ {0} : ~ (x <= at[p])
        BY <2>4, FilesAssumption DEF File!Places
      <3> QED BY <2>2, <3>1, <3>2 DEF Passed
    <2>5. CASE at[p] # 0
      <3>1. ASSUME 0 \notin touched[p]
            PROVE  /\ node'[0] = File!Created
                   /\ \A x \in File!Places \ {0} :
                        x < at[p] /\ x \notin touched[p] => node[x] \in {File!NoFile, File!Created}
                   /\ at[p] \notin touched[p] => node'[at[p]] = File!Created
        BY <1>0, <1>1, <1>3, <2>3, <2>5, <3>1, ZeroIsPlace DEF CheckTrue
      <3> QED BY <1>2, <2>2, <2>3, <3>1 DEF Passed
    <2> QED BY <2>4, <2>5
  <1>4. CASE f.kind = "symlink" /\ UNCHANGED node
    <2>1. ~ File!Acceptable(f) /\ f # File!NoFile BY <1>1, <1>4 DEF File!Acceptable
    <2>2. 0 \notin touched[p] => at[p] # 0 /\ at[p] \in touched[p]
      BY <1>0, <2>1 DEF CheckTrue
    <2>3. Passed(p) BY <1>0, <1>2, <1>4, <2>2 DEF CheckTrue, Passed
    <2> QED BY <1>0, <1>4, <2>3, NodeStays DEF FileTypeOK
  <1> QED BY <1>3, <1>4

LEMMA ChmodKeeps ==
  ASSUME FileInv, NEW p \in Processes, File!Chmod(p)
  PROVE  FileInv'
  <1>0. UNCHANGED check /\ check \in [Processes -> {"build", "do_connect", "connect"}]
    BY DEF FileInv, FileTypeOK, File!Chmod
  <1>1. CASE File!NextPlace(p) /\
             \/ /\ node[at[p]].kind \notin {"none", "symlink"} /\ node[at[p]].ours
                /\ node' = [node EXCEPT ![at[p]].private = TRUE]
             \/ node[at[p]].kind = "symlink" /\ UNCHANGED node
    BY <1>0, <1>1, ChmodPasses, NextPlaceKeeps
  <1>2. CASE UNCHANGED node /\ File!Leave(p, "refused")
    <2>1. Harmless /\ node' \in [File!Places -> File!Files]
      BY <1>2, NodeStays DEF FileInv, FileTypeOK
    <2> QED BY <1>0, <1>2, <2>1, LeaveKeeps
  <1> QED BY <1>1, <1>2 DEF File!Chmod

LEMMA OpenKeeps ==
  ASSUME FileInv, NEW p \in Processes, File!Open(p)
  PROVE  FileInv'
  <1>0. /\ FileTypeOK /\ node[0] \in File!Files /\ 0 \in File!Places
    BY ZeroIsPlace DEF FileInv, FileTypeOK
  <1>1. Harmless /\ node' \in [File!Places -> File!Files]
    <2> DEFINE g == [File!Created EXCEPT !.private = FALSE]
    <2>1. CASE node[0].kind = "none"
      <3>1. node' = [node EXCEPT ![0] = g] BY <2>1 DEF File!Open
      <3>2. g \in File!Files /\ File!Acceptable(g) /\ g.kind = "regular"
        BY FileTypes DEF File!Acceptable
      <3> HIDE DEF g
      <3> QED BY <1>0, <2>1, <3>1, <3>2, WritesAreHarmless
    <2>2. CASE node[0].kind # "none"
      BY <1>0, <2>2, NodeStays DEF File!Open, FileTypeOK
    <2> QED BY <2>1, <2>2
  <1>2. CASE File!Begin(p, "connect")
    <2>1. /\ File!Leave(p, "look")
          /\ check' \in [Processes -> {"build", "do_connect", "connect"}]
      BY <1>0, <1>2 DEF File!Begin, FileTypeOK
    <2> QED BY <1>1, <2>1, LeaveKeeps
  <1>3. CASE File!Leave(p, "refused") /\ UNCHANGED check
    BY <1>0, <1>1, <1>3, LeaveKeeps DEF FileTypeOK
  <1> QED BY <1>2, <1>3 DEF File!Open

LEMMA UseKeeps ==
  ASSUME FileInv, NEW p \in Processes, File!Use(p)
  PROVE  FileInv'
  <1>0. /\ FileTypeOK /\ 0 \in File!Places /\ UNCHANGED <<opener, check, at, touched>>
    BY ZeroIsPlace DEF FileInv, File!Use
  <1>1. PICK x \in File!Places \ {0} :
          \/ /\ node[x].kind = "none" /\ node[0].kind = "regular"
             /\ node' = [node EXCEPT ![x] = [File!Created EXCEPT !.private = node[0].private]]
          \/ File!Acceptable(node[x]) /\ node' = [node EXCEPT ![x] = File!NoFile]
    BY DEF File!Use
  <1>2. Harmless /\ node' \in [File!Places -> File!Files]
    <2> DEFINE g == [File!Created EXCEPT !.private = node[0].private]
    <2>1. g \in File!Files BY <1>0, FileTypes, MadePrivate DEF FileTypeOK
    <2>2. CASE node[x].kind = "none" /\ node' = [node EXCEPT ![x] = g]
      BY <1>0, <1>1, <2>1, <2>2, WritesAreHarmless
    <2>3. CASE node' = [node EXCEPT ![x] = File!NoFile]
      BY <1>0, <1>1, <2>3, FileTypes, WritesAreHarmless
    <2> QED BY <1>1, <2>2, <2>3
  <1>3. ASSUME NEW q \in Processes PROVE CheckTrue(q)' BY <1>0, <1>2, CheckStays
  <1> QED BY <1>0, <1>2, <1>3 DEF FileInv, FileTypeOK

LEMMA ReplaceKeeps ==
  ASSUME FileInv, NEW x \in File!Places, NEW f \in InitialFiles \cup {File!NoFile},
         File!Replace(x, f)
  PROVE  FileInv'
  <1>0. /\ FileTypeOK /\ 0 \in File!Places /\ f \in File!Files
        /\ node' = [node EXCEPT ![x] = f] /\ UNCHANGED <<opener, check, at>>
        /\ touched' = [p \in Processes |-> touched[p] \cup ({x} \cap File!Looked(p))]
    BY ZeroIsPlace, FilesAssumption, FileTypes DEF FileInv, File!Replace
  <1>1. \A y \in File!Places \ {x} : node'[y] = node[y] BY <1>0 DEF FileTypeOK
  <1>2. FileTypeOK' BY <1>0 DEF FileTypeOK
  <1>3. ASSUME NEW p \in Processes PROVE CheckTrue(p)'
    <2>1. /\ CheckTrue(p) /\ at[p] \in File!Places /\ touched[p] \subseteq touched'[p]
          /\ x \in File!Looked(p) => x \in touched'[p]
      BY <1>0 DEF FileInv, FileTypeOK
    <2>2. CASE 0 \in touched'[p] BY <2>2 DEF CheckTrue
    <2>3. CASE 0 \notin touched'[p] /\ x = 0
      <3>1. at[p] = 0 /\ opener[p] \notin {"relook", "chmod"}
        BY <1>0, <2>1, <2>3, FilesAssumption DEF File!Looked, File!Places
      <3> QED BY <1>0, <3>1 DEF CheckTrue
    <2>4. CASE 0 \notin touched'[p] /\ x # 0
      <3>1. x < at[p] => x \in touched'[p] BY <2>1 DEF File!Looked
      <3>2. opener[p] = "chmod" /\ x = at[p] => x \in touched'[p] BY <2>1 DEF File!Looked
      <3> QED BY <1>0, <1>1, <2>1, <2>4, <3>1, <3>2 DEF CheckTrue
    <2> QED BY <2>2, <2>3, <2>4
  <1> QED BY <1>2, <1>3 DEF FileInv

LEMMA FileKept == FileInv /\ [File!Next]_files => FileInv'
  <1> SUFFICES ASSUME FileInv, [File!Next]_files PROVE FileInv' OBVIOUS
  <1>1. ASSUME NEW p \in Processes,
               \/ File!Start(p) \/ File!Connect(p) \/ File!Stop(p) \/ File!Relook(p)
        PROVE  FileInv'
    <2>1. PICK l \in {"down", "look", "refused", "chmod"} :
             File!Leave(p, l) /\ (l = "chmod" => File!Acceptable(node[0]))
      BY <1>1 DEF File!Start, File!Connect, File!Stop, File!Relook, File!Begin
    <2>2. /\ node' = node /\ check' \in [Processes -> {"build", "do_connect", "connect"}]
      BY <1>1 DEF File!Start, File!Connect, File!Stop, File!Relook, File!Begin,
                  FileInv, FileTypeOK
    <2>3. Harmless /\ node' \in [File!Places -> File!Files]
      BY <2>2, NodeStays DEF FileInv, FileTypeOK
    <2> QED BY <2>1, <2>2, <2>3, LeaveKeeps
  <1>2. CASE UNCHANGED files
    <2>1. FileTypeOK' BY <1>2 DEF FileInv, FileTypeOK, files
    <2>2. ASSUME NEW p \in Processes PROVE CheckTrue(p)'
      BY <1>2, NodeStays, CheckStays DEF files
    <2> QED BY <2>1, <2>2 DEF FileInv
  <1>3. ASSUME NEW p \in Processes,
               \/ File!Look(p) \/ File!Create(p) \/ File!Chmod(p) \/ File!Open(p) \/ File!Use(p)
        PROVE  FileInv'
    BY <1>3, LookKeeps, FileCreateKeeps, ChmodKeeps, OpenKeeps, UseKeeps
  <1> QED BY <1>1, <1>2, <1>3, ReplaceKeeps DEF File!Next

\* A process is moved by its own steps only.
LEMMA MovedByItself ==
  ASSUME FileInv, [File!Next]_files, NEW p \in Processes, opener'[p] # opener[p]
  PROVE  \/ File!Start(p) \/ File!Connect(p) \/ File!Stop(p) \/ File!Open(p)
         \/ File!Create(p) \/ File!Relook(p) \/ File!Look(p) \/ File!Chmod(p)
  <1>1. ASSUME NEW q \in Processes, q # p, NEW l, File!Goto(q, l) PROVE FALSE
    BY <1>1 DEF File!Goto, FileInv, FileTypeOK
  <1>2. ASSUME NEW q \in Processes, q # p, File!NextPlace(q) PROVE FALSE
    BY <1>1, <1>2 DEF File!NextPlace, File!Leave
  <1>3. ASSUME NEW q \in Processes, q # p,
               \/ File!Start(q) \/ File!Connect(q) \/ File!Stop(q) \/ File!Open(q)
               \/ File!Create(q) \/ File!Relook(q) \/ File!Look(q) \/ File!Chmod(q)
        PROVE  FALSE
    BY <1>1, <1>2, <1>3 DEF File!Start, File!Connect, File!Stop, File!Open, File!Create,
       File!Relook, File!Look, File!Chmod, File!Leave, File!Begin
  <1>4. ASSUME NEW q \in Processes, File!Use(q) PROVE FALSE BY <1>4 DEF File!Use
  <1>5. ASSUME NEW x \in File!Places, NEW f \in InitialFiles \cup {File!NoFile},
               File!Replace(x, f)
        PROVE  FALSE
    BY <1>5 DEF File!Replace
  <1> QED BY <1>3, <1>4, <1>5 DEF File!Next, files

LEMMA ReadyWhenPrivate ==
  ASSUME FileInv, [File!Next]_files, NEW p \in Processes,
         opener[p] # "ready", opener'[p] = "ready", 0 \notin touched[p]
  PROVE  /\ node'[0] = File!Created
         /\ \A x \in File!Places \ ({0} \cup touched[p]) : node'[x] \in {File!NoFile, File!Created}
  <1>0. opener \in [Processes -> {"down", "look", "create", "relook", "chmod", "connect",
                                  "open", "ready", "refused"}]
    BY DEF FileInv, FileTypeOK
  <1>1. \A l : File!Goto(p, l) \/ File!Leave(p, l) => l = "ready"
    BY <1>0 DEF File!Leave, File!Goto
  <1>2. File!Look(p) \/ File!Chmod(p)
    BY <1>1, MovedByItself
       DEF File!Start, File!Connect, File!Stop, File!Open, File!Create, File!Relook, File!Begin
  <1>3. File!NextPlace(p) /\ Passed(p)
    <2>1. CASE File!Look(p)
      <3>1. node[at[p]].kind = "none" /\ at[p] # 0 /\ File!NextPlace(p)
        BY <1>1, <2>1 DEF File!Look
      <3> QED BY <2>1, <3>1, LookPasses
    <2>2. CASE File!Chmod(p)
      BY <1>1, <2>2, ChmodPasses DEF File!Chmod
    <2> QED BY <1>2, <2>1, <2>2
  <1>4. ~ (at[p] < Sidecars) BY <1>1, <1>3 DEF File!NextPlace
  <1>5. \A x \in File!Places : x <= at[p]
    BY <1>4, FilesAssumption DEF FileInv, FileTypeOK, File!Places
  <1> QED BY <1>3, <1>5 DEF Passed

LEMMA RefusedWithCause ==
  ASSUME FileInv, [File!Next]_files, NEW p \in Processes,
         opener[p] # "refused", opener'[p] = "refused"
  PROVE  LET x == at[p]
         IN  \/ node[x].kind # "none" /\ ~ (node[x].kind = "regular" /\ node[x].ours)
             \/ node[x].kind = "none" /\ x \in touched[p]
             \/ node[x].kind = "none" /\ x # 0 /\ opener[p] = "chmod"
  <1> DEFINE f == node[at[p]]
  <1>0. /\ FileTypeOK /\ CheckTrue(p) /\ at[p] \in File!Places /\ f \in File!Files
        /\ check[p] \in {"build", "do_connect", "connect"}
    BY DEF FileInv, FileTypeOK
  <1>1. \A l : File!Goto(p, l) \/ File!Leave(p, l) => l = "refused"
    BY <1>0 DEF File!Leave, File!Goto, FileTypeOK
  <1>2. ~ File!NextPlace(p)
    BY <1>0, <1>1 DEF File!NextPlace, File!AfterCheck
  <1>3. File!Open(p) \/ File!Relook(p) \/ File!Look(p) \/ File!Chmod(p)
    BY <1>1, MovedByItself
       DEF File!Start, File!Connect, File!Stop, File!Create, File!Begin
  <1>4. CASE File!Look(p)
    <2>1. f.kind # "none" /\ ~ File!Acceptable(f) BY <1>1, <1>2, <1>4 DEF File!Look
    <2> QED BY <2>1 DEF File!Acceptable
  <1>5. CASE File!Relook(p)
    <2>1. at[p] = 0 /\ opener[p] = "relook" /\ ~ File!Acceptable(f)
      BY <1>0, <1>1, <1>5 DEF File!Relook, FileTypeOK
    <2>2. f.kind = "none" => 0 \in touched[p] BY <1>0, <2>1 DEF CheckTrue
    <2> QED BY <2>1, <2>2 DEF File!Acceptable
  <1>6. CASE File!Open(p)
    <2>1. at[p] = 0 /\ f.kind # "none" /\ ~ File!Acceptable(f)
      <3>1. opener[p] = "open" /\ ~ File!Acceptable(node'[0])
        BY <1>1, <1>6 DEF File!Open, File!Begin
      <3>2. at[p] = 0 BY <1>0, <3>1 DEF FileTypeOK
      <3>3. node[0].kind = "none" => node'[0] = [File!Created EXCEPT !.private = FALSE]
        BY <1>0, <1>6, ZeroIsPlace DEF File!Open, FileTypeOK
      <3>4. node[0].kind # "none" => node'[0] = node[0]
        BY <1>0, <1>6, ZeroIsPlace DEF File!Open, FileTypeOK
      <3> QED BY <3>1, <3>2, <3>3, <3>4, FileTypes
    <2> QED BY <2>1 DEF File!Acceptable
  <1>7. CASE File!Chmod(p)
    <2>1. opener[p] = "chmod" /\ (f.kind = "symlink" \/ ~ f.ours)
      BY <1>2, <1>7 DEF File!Chmod
    <2>2. CASE f.kind # "none" BY <2>1, <2>2
    <2>3. CASE f.kind = "none"
      <3>1. ~ File!Acceptable(f) BY <2>3 DEF File!Acceptable
      <3>2. at[p] = 0 => 0 \in touched[p] BY <1>0, <2>1, <3>1 DEF CheckTrue
      <3> QED BY <2>1, <2>3, <3>2
    <2> QED BY <2>2, <2>3
  <1> QED BY <1>3, <1>4, <1>5, <1>6, <1>7

\* A connection comes into use only when the last check has made the database a
\* private regular file of this user and its sidecars too, unless somebody replaced
\* one behind that check: what was replaced before, what other processes do
\* between its system calls and what SQLite makes or deletes meanwhile takes
\* none of that back.  A check fails only for what is at the path, for a database
\* taken away in its middle, or for a sidecar that goes between its lstat and its
\* chmod (database.py).
THEOREM FilesArePrivate == StartupSpec => FileIsPrivate
  <1> DEFINE Ready(p) ==
        opener[p] # "ready" /\ opener'[p] = "ready" /\ 0 \notin touched[p] =>
          /\ node'[0] = File!Created
          /\ \A x \in File!Places \ ({0} \cup touched[p]) : node'[x] \in {File!NoFile, File!Created}
      Caused(p) ==
        opener[p] # "refused" /\ opener'[p] = "refused" =>
          LET x == at[p]
          IN  \/ node[x].kind # "none" /\ ~ (node[x].kind = "regular" /\ node[x].ours)
              \/ node[x].kind = "none" /\ x \in touched[p]
              \/ node[x].kind = "none" /\ x # 0 /\ opener[p] = "chmod"
  <1>1. FileInv /\ [File!Next]_files => \A p \in Processes : Ready(p) BY ReadyWhenPrivate
  <1>2. FileInv /\ [File!Next]_files => \A p \in Processes : Caused(p) BY RefusedWithCause
  <1>3. StartupInit => FileInv BY FileInitially DEF StartupInit
  <1>4. [StartupNext]_<<vars, files, application>> => [File!Next]_files BY PartsOfStep
  <1>5. StartupSpec => [][\A p \in Processes : Ready(p)]_files
                       /\ [][\A p \in Processes : Caused(p)]_files
    BY <1>1, <1>2, <1>3, <1>4, FileKept, PTL DEF StartupSpec
  <1> QED BY <1>5
          DEF FileIsPrivate, File!ReadyIsPrivate, File!RefusedForCause, File!vars, files

----------------------------------------------------------------------------
(* The lifespan of the application.                                          *)

Resources == {Life!Order[i] : i \in 1..6}

Rank == [x \in Resources |-> CHOOSE i \in 1..6 : Life!Order[i] = x]

\* Callbacks of different resources, in the order of their use.
Ordered(s) ==
  /\ s \in Seq(Resources)
  /\ \A i, j \in 1..Len(s) : i < j => Rank[s[i]] < Rank[s[j]]

\* Callbacks for the resources among the first n of the order that are open.
PushedUpTo(s, open, n) ==
  /\ Ordered(s)
  /\ \A i \in 1..Len(s) : Rank[s[i]] <= n
  /\ \A x \in Resources : (\E i \in 1..Len(s) : s[i] = x) <=> (x \in open /\ Rank[x] <= n)

LEMMA RankIs ==
  /\ Resources = {"engine", "task_store", "state", "upstream", "clients", "handler"}
  /\ Rank \in [Resources -> 1..6]
  /\ \A i \in 1..6 : Life!Order[i] \in Resources /\ Rank[Life!Order[i]] = i
  /\ \A x \in Resources : Life!Order[Rank[x]] = x
  <1>1. Resources = {"engine", "task_store", "state", "upstream", "clients", "handler"}
    BY DEF Resources, Life!Order
  <1>2. \A i, j \in 1..6 : Life!Order[i] = Life!Order[j] => i = j BY DEF Life!Order
  <1>3. ASSUME NEW i \in 1..6 PROVE Life!Order[i] \in Resources /\ Rank[Life!Order[i]] = i
    <2>1. Life!Order[i] \in Resources BY DEF Resources
    <2> QED BY <1>2, <2>1 DEF Rank
  <1>4. ASSUME NEW x \in Resources PROVE Rank[x] \in 1..6 /\ Life!Order[Rank[x]] = x
    <2>1. PICK i \in 1..6 : Life!Order[i] = x BY DEF Resources
    <2> QED BY <1>3, <2>1
  <1> QED BY <1>1, <1>3, <1>4 DEF Rank

LEMMA PushNext ==
  ASSUME NEW s, NEW open, NEW n \in 0..5, PushedUpTo(s, open, n)
  PROVE  PushedUpTo(s \o Life!Pushed(Life!Order[n + 1], open), open, n + 1)
  <1> DEFINE x == Life!Order[n + 1]
             r == s \o Life!Pushed(x, open)
  <1>1. n + 1 \in 1..6 /\ x \in Resources /\ Rank[x] = n + 1 BY RankIs
  <1>2. \A y \in Resources : Rank[y] \in 1..6 /\ (Rank[y] = n + 1 <=> y = x) BY <1>1, RankIs
  <1>3. s \in Seq(Resources) /\ Len(s) \in Nat /\ \A i \in 1..Len(s) : s[i] \in Resources
    BY DEF PushedUpTo, Ordered
  <1> HIDE DEF x
  <1>4. CASE x \notin open
    <2>1. r = s BY <1>3, <1>4 DEF Life!Pushed
    <2>2. \A i \in 1..Len(s) : Rank[s[i]] <= n + 1 BY <1>2, <1>3 DEF PushedUpTo
    <2>3. \A y \in Resources : y \in open => (Rank[y] <= n + 1 <=> Rank[y] <= n)
      BY <1>2, <1>4
    <2> HIDE DEF r
    <2>4. ASSUME NEW y \in Resources
          PROVE  (\E i \in 1..Len(s) : s[i] = y) <=> (y \in open /\ Rank[y] <= n + 1)
      <3>1. (\E i \in 1..Len(s) : s[i] = y) <=> (y \in open /\ Rank[y] <= n)
        BY DEF PushedUpTo
      <3> QED BY <2>3, <3>1
    <2>5. PushedUpTo(s, open, n + 1) BY <2>2, <2>4 DEF PushedUpTo
    <2> QED BY <2>1, <2>5 DEF r, x
  <1>5. CASE x \in open
    <2>1. r = Append(s, x) BY <1>1, <1>3, <1>5 DEF Life!Pushed
    <2>2. /\ r \in Seq(Resources) /\ Len(r) = Len(s) + 1 /\ r[Len(s) + 1] = x
          /\ \A i \in 1..Len(s) : r[i] = s[i]
      BY <1>1, <1>3, <2>1
    <2> HIDE DEF r
    <2>3. ASSUME NEW i \in 1..Len(r), NEW j \in 1..Len(r), i < j PROVE Rank[r[i]] < Rank[r[j]]
      <3>1. i \in 1..Len(s) /\ Rank[s[i]] <= n BY <1>3, <2>2, <2>3 DEF PushedUpTo
      <3>2. CASE j = Len(s) + 1 BY <1>1, <1>2, <1>3, <2>2, <3>1, <3>2
      <3>3. CASE j \in 1..Len(s) BY <2>2, <2>3, <3>1, <3>3 DEF PushedUpTo, Ordered
      <3> QED BY <1>3, <2>2, <3>2, <3>3
    <2>4. ASSUME NEW i \in 1..Len(r) PROVE Rank[r[i]] <= n + 1
      <3>1. CASE i = Len(s) + 1 BY <1>1, <2>2, <3>1
      <3>2. CASE i \in 1..Len(s) BY <1>2, <1>3, <2>2, <3>2 DEF PushedUpTo
      <3> QED BY <1>3, <2>2, <3>1, <3>2
    <2>5. ASSUME NEW y \in Resources
          PROVE  (\E i \in 1..Len(r) : r[i] = y) <=> (y \in open /\ Rank[y] <= n + 1)
      <3>1. CASE y = x
        <4>1. Len(s) + 1 \in 1..Len(r) BY <1>3, <2>2
        <4> QED BY <1>1, <1>5, <2>2, <3>1, <4>1
      <3>2. CASE y # x
        <4>1. Rank[y] <= n + 1 <=> Rank[y] <= n BY <1>2, <3>2
        <4>2. (\E i \in 1..Len(r) : r[i] = y) <=> (\E i \in 1..Len(s) : s[i] = y)
          BY <1>3, <2>2, <3>2
        <4> QED BY <4>1, <4>2 DEF PushedUpTo
      <3> QED BY <3>1, <3>2
    <2> QED BY <2>2, <2>3, <2>4, <2>5 DEF PushedUpTo, Ordered, r, x
  <1> QED BY <1>4, <1>5 DEF r, x

LEMMA CleanupIs ==
  ASSUME NEW open \in SUBSET Resources
  PROVE  Ordered(Life!Cleanup(open)) /\ Range(Life!Cleanup(open)) = open
  <1> DEFINE P(i) == Life!Pushed(Life!Order[i], open)
  <1>0. PushedUpTo(<<>>, open, 0) BY RankIs DEF PushedUpTo, Ordered
  <1>1. PushedUpTo(<<>> \o P(1), open, 1)
    <2>1. PICK n \in 0..5 : n = 0 OBVIOUS
    <2>2. PICK s : s = <<>> OBVIOUS
    <2>3. PushedUpTo(s \o Life!Pushed(Life!Order[n + 1], open), open, n + 1)
      BY <1>0, <2>1, <2>2, PushNext
    <2> QED BY <2>1, <2>2, <2>3
  <1>2. <<>> \o P(1) = P(1) BY DEF Life!Pushed
  <1>3. PushedUpTo(P(1) \o P(2), open, 2)
    <2>1. PICK n \in 0..5 : n = 1 OBVIOUS
    <2> QED BY <1>1, <1>2, <2>1, PushNext
  <1>4. PushedUpTo(P(1) \o P(2) \o P(3), open, 3)
    <2>1. PICK n \in 0..5 : n = 2 OBVIOUS
    <2> QED BY <1>3, <2>1, PushNext
  <1>5. PushedUpTo(P(1) \o P(2) \o P(3) \o P(4), open, 4)
    <2>1. PICK n \in 0..5 : n = 3 OBVIOUS
    <2> QED BY <1>4, <2>1, PushNext
  <1>6. PushedUpTo(P(1) \o P(2) \o P(3) \o P(4) \o P(5), open, 5)
    <2>1. PICK n \in 0..5 : n = 4 OBVIOUS
    <2> QED BY <1>5, <2>1, PushNext
  <1>7. PushedUpTo(P(1) \o P(2) \o P(3) \o P(4) \o P(5) \o P(6), open, 6)
    <2>1. PICK n \in 0..5 : n = 5 OBVIOUS
    <2> QED BY <1>6, <2>1, PushNext
  <1> DEFINE c == Life!Cleanup(open)
  <1>8. PushedUpTo(c, open, 6) BY <1>7 DEF Life!Cleanup, Life!Push
  <1> HIDE DEF c
  <1>9. c \in Seq(Resources) BY <1>8 DEF PushedUpTo, Ordered
  <1>10. \A x \in Resources : Rank[x] <= 6 BY RankIs
  <1>11. \A x \in Resources : (\E i \in 1..Len(c) : c[i] = x) <=> x \in open
    BY <1>8, <1>10 DEF PushedUpTo
  <1>12. Range(c) = {c[i] : i \in 1..Len(c)} BY <1>9 DEF Range
  <1>13. \A i \in 1..Len(c) : c[i] \in Resources BY <1>9
  <1>14. Range(c) = open BY <1>11, <1>12, <1>13
  <1> QED BY <1>8, <1>14 DEF PushedUpTo, c

\* The callback on top is the one of the resource that was used last.
LEMMA TopIs ==
  ASSUME NEW s, Ordered(s), s # <<>>
  PROVE  /\ Ordered(Front(s)) /\ Last(s) \in Resources
         /\ Range(Front(s)) = Range(s) \ {Last(s)}
         /\ \A x \in Range(s) : Rank[x] <= Rank[Last(s)]
  <1>1. s \in Seq(Resources) /\ Len(s) \in Nat /\ Len(s) >= 1 BY DEF Ordered
  <1>2. /\ Front(s) \in Seq(Resources) /\ Len(Front(s)) = Len(s) - 1
        /\ \A i \in 1..Len(s) - 1 : Front(s)[i] = s[i]
    <2>1. /\ Front(s) \in Seq(Resources)
          /\ Len(Front(s)) = IF 1 <= Len(s) - 1 THEN Len(s) - 1 - 1 + 1 ELSE 0
          /\ \A i \in 1..Len(s) - 1 - 1 + 1 : Front(s)[i] = s[1 + i - 1]
      BY <1>1, SubSeqProperties DEF Front
    <2>2. Len(s) - 1 - 1 + 1 = Len(s) - 1 BY <1>1
    <2>3. Len(Front(s)) = Len(s) - 1
      <3>1. \A n \in Nat : n >= 1 => (IF 1 <= n - 1 THEN n - 1 - 1 + 1 ELSE 0) = n - 1 OBVIOUS
      <3>2. (IF 1 <= Len(s) - 1 THEN Len(s) - 1 - 1 + 1 ELSE 0) = Len(s) - 1 BY <1>1, <3>1
      <3> QED BY <2>1, <3>2
    <2>4. ASSUME NEW i \in 1..Len(s) - 1 PROVE Front(s)[i] = s[i]
      <3>1. 1 + i - 1 = i BY <1>1
      <3> QED BY <2>1, <2>2, <3>1
    <2> QED BY <2>1, <2>3, <2>4
  <1>3. Last(s) = s[Len(s)] /\ Last(s) \in Resources BY <1>1 DEF Last
  <1>4. \A i \in 1..Len(s) : s[i] \in Resources /\ Rank[s[i]] \in 1..6 BY <1>1, RankIs
  <1>5. \A i \in 1..Len(s) - 1 : Rank[s[i]] < Rank[Last(s)] BY <1>1, <1>3 DEF Ordered
  <1>6. Range(s) = {s[i] : i \in 1..Len(s)} BY <1>1 DEF Range
  <1>7. Range(Front(s)) = {s[i] : i \in 1..Len(s) - 1} BY <1>2 DEF Range
  <1>8. ASSUME NEW i \in 1..Len(s) - 1 PROVE s[i] # Last(s) BY <1>1, <1>4, <1>5
  <1>9. Range(Front(s)) = Range(s) \ {Last(s)}
    <2>1. \A i \in 1..Len(s) : i \in 1..Len(s) - 1 \/ i = Len(s) BY <1>1
    <2>2. 1..Len(s) - 1 \subseteq 1..Len(s) BY <1>1
    <2> QED BY <1>3, <1>6, <1>7, <1>8, <2>1, <2>2
  <1>10. \A x \in Range(s) : Rank[x] <= Rank[Last(s)]
    <2> SUFFICES ASSUME NEW i \in 1..Len(s) PROVE Rank[s[i]] <= Rank[Last(s)] BY <1>6
    <2> QED BY <1>1, <1>3, <1>4, <1>5
  <1>11. Ordered(Front(s)) BY <1>1, <1>2 DEF Ordered
  <1> QED BY <1>3, <1>9, <1>10, <1>11

\* What is left on the stack is what is open, in the order of its use.
LifeInv ==
  /\ phase \in {"task_store", "state", "serving", "closing", "ended"}
  /\ live \in SUBSET Resources
  /\ IF phase \in {"closing", "ended"} THEN Ordered(stack) /\ Range(stack) = live
                                      ELSE stack = <<>>
  /\ phase = "ended" => stack = <<>>

LEMMA LifeInitially == Life!Init => LifeInv
  BY RankIs DEF Life!Init, Life!Built, LifeInv

LEMMA LifeKept == LifeInv /\ [Life!Next]_application => LifeInv'
  <1> SUFFICES ASSUME LifeInv, [Life!Next]_application PROVE LifeInv' OBVIOUS
  <1>1. ASSUME NEW x \in {"task_store", "state"}, NEW next \in {"state", "serving"},
               Life!StartStore(x, next)
        PROVE  LifeInv'
    <2>1. CASE phase' = next BY <1>1, <2>1, RankIs DEF LifeInv, Life!StartStore
    <2>2. CASE phase' = "closing" /\ stack' = Life!Cleanup(live) /\ live' = live
      BY <2>2, CleanupIs DEF LifeInv
    <2> QED BY <1>1, <2>1, <2>2 DEF Life!StartStore
  <1>2. CASE Life!Stop BY <1>2, CleanupIs DEF LifeInv, Life!Stop
  <1>3. CASE Life!Close
    <2>1. Ordered(stack) /\ Range(stack) = live /\ stack # <<>> BY <1>3 DEF LifeInv, Life!Close
    <2>2. Ordered(stack') /\ Range(stack') = live' BY <1>3, <2>1, TopIs DEF Life!Close, Life!Front, Life!Last, Front, Last
    <2> QED BY <1>3, <2>2 DEF LifeInv, Life!Close
  <1>4. CASE Life!End BY <1>4 DEF LifeInv, Life!End
  <1>5. CASE UNCHANGED application BY <1>5 DEF LifeInv, application
  <1> QED BY <1>1, <1>2, <1>3, <1>4, <1>5 DEF Life!Next

\* Whatever fails on the way and wherever the server is stopped, an application that
\* has ended has closed all it had opened; nothing is closed while something is open
\* whose closing may use it; and no store that did not start is shut down (lifespan.py).
THEOREM ClosesInOrder == StartupSpec => ClosedInOrder
  <1>1. LifeInv => Life!EverythingClosed
    BY DEF LifeInv, Life!EverythingClosed, Range
  <1>2. LifeInv => Life!OnlyStartedIsClosed
    BY DEF LifeInv, Life!OnlyStartedIsClosed, Life!Range, Range
  <1>3. ASSUME LifeInv, [Life!Next]_application, NEW u \in Life!Uses,
               u[2] \in live \ live'
        PROVE  u[1] \notin live'
    <2>1. Life!Close
      BY <1>3 DEF Life!Next, Life!StartStore, Life!Stop, Life!End, application
    <2>2. Ordered(stack) /\ Range(stack) = live /\ stack # <<>> BY <1>3, <2>1 DEF LifeInv, Life!Close
    <2>3. u[2] = Last(stack) BY <1>3, <2>1 DEF Life!Close, Life!Last, Last
    <2>4. \A x \in live' : x \in Resources /\ Rank[x] <= Rank[u[2]]
      BY <1>3, <2>1, <2>2, <2>3, TopIs DEF Life!Close, LifeInv
    <2>5. u[1] \in Resources /\ u[2] \in Resources /\ Rank[u[2]] < Rank[u[1]]
      <3>1. \A i, j \in 1..6 : i < j => Rank[Life!Order[i]] < Rank[Life!Order[j]] BY RankIs
      <3>2. \E i, j \in 1..6 : i < j /\ u[2] = Life!Order[i] /\ u[1] = Life!Order[j]
        BY DEF Life!Uses, Life!Order
      <3> QED BY <3>1, <3>2, RankIs
    <2> QED BY <2>4, <2>5, RankIs
  <1>4. LifeInv /\ [Life!Next]_application =>
          [\A u \in Life!Uses : u[2] \in live \ live' => u[1] \notin live']_application
    BY <1>3
  <1>5. StartupInit => LifeInv BY LifeInitially DEF StartupInit
  <1>6. [StartupNext]_<<vars, files, application>> => [Life!Next]_application BY PartsOfStep
  <1> QED BY <1>1, <1>2, <1>4, <1>5, <1>6, LifeKept, PTL
       DEF StartupSpec, ClosedInOrder, Life!UsersCloseFirst, Life!vars, application
============================================================================
