------------------------------ MODULE ConfigDb ------------------------------
(***************************************************************************)
(* The configuration database wxbtrv.db, written by the db-config commands,*)
(* the web server's requests and the importer (db-config db/ and commands/,*)
(* btr-import schema.rs).  Each statement commits on its own: an operation *)
(* is the list of its statements, and other processes run theirs between   *)
(* them.  A process may fail or die before any statement.                  *)
(***************************************************************************)
EXTENDS Integers, SequencesExt, FiniteSetsExt, Functions, Calendar

CONSTANTS
    Proc,           \* processes and requests that work on the database
    Key,            \* [name, db, dir]: what a row of btr_tables is unique for
    Databases,      \* the database names set-table may give
    Batches,        \* sequences of INT files an import may meet
    Definitions,    \* a field as add-field defines it
    SegmentLists,   \* the segments add-index may be given
    Numbers,        \* field and index numbers
    Settings,       \* <<section, key>> of the config table
    Values,         \* what a setting may say
    Today,          \* the day, counted from 1970-01-01
    MaxId,          \* bound: row ids of btr_tables and of btr_indexes
    MaxJobs,        \* bound: operations begun
    None

\* An INT file: [key, header, schema, fields, indexes], the last two functions
\* from numbers to definitions and to sequences of segments.

VARIABLES
    tables,     \* btr_tables by id: [key, header, schema, migrated] or None
    fields,     \* btr_fields: for a table id, a function from field numbers
    indexes,    \* btr_indexes by id: [table, number] or None
    segs,       \* btr_index_segs: for an index id, its segments in order
    config,     \* the config table
    job,        \* what a process is doing
    begun,      \* operations begun
    trusted     \* history: the file a table was imported from, since when
                \* nobody else has worked on it

database == <<tables, fields, indexes, segs>>
vars == <<tables, fields, indexes, segs, config, job, begun, trusted>>

Id == 1..MaxId
Nothing == <<>>     \* the function that is defined nowhere
Never   == <<>>     \* no date

Files == UNION {Range(batch) : batch \in Batches}

\* The rows of btr_tables and of btr_indexes.
TableRow == [key : Key, header : {f.header : f \in Files},
             schema : {f.schema : f \in Files} \cup {""}, migrated : {Never, DaysToYmd(Today)}]
IndexRow == [table : Id, number : Numbers \cup UNION {DOMAIN f.indexes : f \in Files}]

ASSUME ConfigAssumption ==
    /\ MaxId \in Nat \ {0}
    /\ Key \subseteq [name : STRING, db : STRING, dir : STRING]
    /\ \A batch \in Batches : batch \in Seq(Range(batch))
    /\ \A f \in Files :
          /\ f.key \in Key
          /\ f.fields \in [DOMAIN f.fields -> Range(f.fields)]
          /\ f.indexes \in [DOMAIN f.indexes -> Range(f.indexes)]
          /\ IsFiniteSet(DOMAIN f.fields) /\ IsFiniteSet(DOMAIN f.indexes)
          /\ \A n \in DOMAIN f.indexes : f.indexes[n] \in Seq(Range(f.indexes[n]))
    /\ \A list \in SegmentLists : list \in Seq(Range(list))
    /\ IsFiniteSet(Settings)
    /\ None \notin Files \cup TableRow \cup IndexRow

-----------------------------------------------------------------------------
(***************************************************************************)
(* Operations, as the statements they consist of.                          *)
(***************************************************************************)
Do(what) == [do |-> what]

SegmentStatements(list) == [k \in DOMAIN list |-> [do |-> "segment", def |-> list[k]]]

IndexStatements(n, list) == <<[do |-> "index", num |-> n]>> \o SegmentStatements(list)

FieldStatements(f, nums) ==
    [k \in DOMAIN nums |-> [do |-> "field", num |-> nums[k], def |-> f.fields[nums[k]]]]

IndexesStatements(f, nums) ==
    FlattenSeq([k \in DOMAIN nums |-> IndexStatements(nums[k], f.indexes[nums[k]])])

\* upsert_table: the row, its id, out with the old, in with the new.
UpsertStatements(f) ==
    <<[do |-> "upsert", file |-> f], Do("find"), Do("clearFields"), Do("clearIndexes")>>
        \o (FieldStatements(f, SetToSeq(DOMAIN f.fields))
              \o IndexesStatements(f, SetToSeq(DOMAIN f.indexes)))

Importing(batch) == FlattenSeq([i \in DOMAIN batch |-> UpsertStatements(batch[i])])

Idle == [todo |-> <<>>, aim |-> {}, file |-> None, id |-> 0, ix |-> 0,
         alone |-> FALSE, stale |-> FALSE]

Begin(p, aim, statements) ==
    /\ job[p] = Idle
    /\ begun < MaxJobs
    /\ begun' = begun + 1
    /\ job' = [job EXCEPT ![p] = [Idle EXCEPT !.aim = aim, !.todo = statements]]
    /\ UNCHANGED <<database, config, trusted>>

Rows(K) == {i \in Id : tables[i] # None /\ tables[i].key \in K}

Called(name) == {k \in Key : k.name = name}
Names == {k.name : k \in Key}

\* The files of a batch one after the other; what cannot be read or parsed is
\* skipped, an error of a statement ends the batch.
ImportInt(p) ==
    \E batch \in Batches : Begin(p, {}, Importing(batch))

\* One table, from the header of a Btrieve file.
AnalyzeB(p) ==
    \E batch \in Batches :
        /\ Len(batch) = 1
        /\ batch[1].key.dir = ""
        /\ Begin(p, {}, Importing(batch))

\* The importer does so for a file whose table it does not find, with the same
\* statements in a function of its own.
SaveSchema(p) ==
    \E batch \in Batches :
        /\ Len(batch) = 1
        /\ batch[1].key.dir = ""
        /\ Rows(Called(batch[1].key.name)) = {}
        /\ Begin(p, {}, Importing(batch))

ByName(p, name, statements) == Begin(p, Called(name), <<Do("find")>> \o statements)

AddField(p) ==
    \E name \in Names, n \in Numbers, d \in Definitions :
        ByName(p, name, <<[do |-> "putField", num |-> n, def |-> d]>>)

RmField(p) ==
    \E name \in Names, n \in Numbers : ByName(p, name, <<[do |-> "dropField", num |-> n]>>)

AddIndex(p) ==
    \E name \in Names, n \in Numbers, list \in SegmentLists :
        ByName(p, name, <<[do |-> "clearIndex", num |-> n]>> \o IndexStatements(n, list))

RmIndex(p) ==
    \E name \in Names, n \in Numbers : ByName(p, name, <<[do |-> "dropIndex", num |-> n]>>)

RmTable(p) == \E name \in Names : Begin(p, Called(name), <<Do("dropTables")>>)

SetTable(p) ==
    \E name \in Names, d \in Databases :
        Begin(p, Called(name), <<[do |-> "setDatabase", db |-> d]>>)

MarkMigrated(p) ==
    \E name \in Names : Begin(p, Called(name), <<Do("upgrade"), Do("mark")>>)

ClearMigrated(p) ==
    \E name \in Names : Begin(p, Called(name), <<Do("upgrade"), Do("unmark")>>)

MigrationStatus(p) == Begin(p, {}, <<Do("upgrade")>>)

SetAll(S, v) == SetToSeq({[do |-> "set", of |-> s, value |-> v] : s \in S})

\* What is given, setting by setting, in the section the driver reads.
SetConnection(p) ==
    \E given \in (SUBSET {s \in Settings : s[1] = "config"}) \ {{}}, v \in Values :
        Begin(p, {}, SetAll(given, v))

\* Every setting of the older section, which only the importer still reads.
ImportMds(p) ==
    \E v \in Values : Begin(p, {}, SetAll({s \in Settings : s[1] = "MDS"}, v))

\* One setting of any section but the driver's: the name is put in capitals.
SetConfig(p) ==
    \E s \in Settings, v \in Values : s[1] # "config" /\ Begin(p, {}, SetAll({s}, v))

-----------------------------------------------------------------------------
(***************************************************************************)
(* Statements.                                                             *)
(***************************************************************************)
Now(p) == Head(job[p].todo)

Doing(p, what) == job[p].todo # <<>> /\ Now(p).do = what

\* p goes on; j is its job with what the statement has told it.
Advance(p, j) ==
    job' = [job EXCEPT ![p] = IF Len(j.todo) = 1 THEN Idle ELSE [j EXCEPT !.todo = Tail(@)]]

\* The statement ends the file p is storing.
FileStored(p) ==
    job[p].file # None /\ (Len(job[p].todo) = 1 \/ job[p].todo[2].do = "upsert")

IndexesOf(t) == {i \in Id : indexes[i] # None /\ indexes[i].table = t}
Numbered(p)  == {i \in IndexesOf(job[p].id) : indexes[i].number = Now(p).num}

\* The indexes p's statement deletes.
Deleted(p) ==
    CASE Doing(p, "clearIndexes")                         -> IndexesOf(job[p].id)
      [] Doing(p, "clearIndex") \/ Doing(p, "dropIndex") -> Numbered(p)
      [] OTHER                                            -> {}

\* History of a statement that writes to the tables p is about, with p's job
\* j.  An id that was looked up before tables were dropped or moved, or the id
\* of an index that was deleted, may be another's now.
Wrote(p, j) ==
    LET met == {q \in Proc \ {p} : job[q].aim \cap j.aim # {} \/ j.stale}
    IN  /\ job' = [q \in Proc |->
                     IF q = p THEN IF Len(j.todo) = 1 THEN Idle ELSE [j EXCEPT !.todo = Tail(@)]
                     ELSE [job[q] EXCEPT !.alone = @ /\ q \notin met,
                                         !.stale = @ \/ job[q].ix \in Deleted(p)]]
        /\ trusted' = [k \in Key |->
                         IF FileStored(p) /\ j.alone /\ k = j.file.key THEN j.file
                         ELSE IF k \in j.aim \/ j.stale THEN None ELSE trusted[k]]

\* History of a statement after which an id may stand for another table.
Unsettled(p) ==
    /\ job' = [q \in Proc |->
                 IF q = p \/ job[q] = Idle THEN Idle
                 ELSE [job[q] EXCEPT !.alone = FALSE, !.stale = TRUE]]
    /\ trusted' = [k \in Key |-> IF k \in job[p].aim THEN None ELSE trusted[k]]

FreshId(rows) == 1 + Max({0} \cup {i \in Id : rows[i] # None})

\* Mutant: INSERT OR REPLACE.
UpsertedAnew(old, f) ==
    [key |-> f.key, header |-> f.header, schema |-> f.schema, migrated |-> Never]

\* ON CONFLICT(table_name, db_name, source_dir) DO UPDATE.
Upserted(old, f) ==
    [key |-> f.key, header |-> f.header, schema |-> f.schema,
     migrated |-> IF old = None THEN Never ELSE old.migrated]

UpsertTable(p) ==
    /\ Doing(p, "upsert")
    /\ LET f == Now(p).file
           old == Rows({f.key})
           i == IF old # {} THEN Max(old) ELSE FreshId(tables)
       IN  /\ i \in Id
           /\ tables' = [tables EXCEPT ![i] = Upserted(@, f)]
           /\ fields' = [fields EXCEPT ![i] = IF old = {} THEN Nothing ELSE @]
           /\ Wrote(p, [job[p] EXCEPT !.aim = {f.key}, !.file = f, !.alone = TRUE,
                                      !.stale = FALSE])
    /\ UNCHANGED <<indexes, segs, config, begun>>

\* By the whole key for a file, else any row of that name.
FindTable(p) ==
    /\ Doing(p, "find")
    /\ \E i \in Rows(job[p].aim) : Advance(p, [job[p] EXCEPT !.id = i, !.stale = FALSE])
    /\ UNCHANGED <<database, config, begun, trusted>>

\* Mutant: the segments stay, under an id the next index gets.
WithoutIndexesAlone(I) ==
    /\ indexes' = [i \in Id |-> IF i \in I THEN None ELSE indexes[i]]
    /\ UNCHANGED segs

WithoutIndexes(I) ==
    /\ indexes' = [i \in Id |-> IF i \in I THEN None ELSE indexes[i]]
    /\ segs' = [i \in Id |-> IF i \in I THEN <<>> ELSE segs[i]]

ClearFields(p) ==
    /\ Doing(p, "clearFields")
    /\ fields' = [fields EXCEPT ![job[p].id] = Nothing]
    /\ Wrote(p, job[p])
    /\ UNCHANGED <<tables, indexes, segs, config, begun>>

ClearIndexes(p) ==
    /\ Doing(p, "clearIndexes")
    /\ WithoutIndexes(Deleted(p))
    /\ Wrote(p, job[p])
    /\ UNCHANGED <<tables, fields, config, begun>>

Defined(g, n, d) == [k \in DOMAIN g \cup {n} |-> IF k = n THEN d ELSE g[k]]

\* UNIQUE(table_id, field_number), and the table has to be there.
InsertField(p) ==
    /\ Doing(p, "field")
    /\ tables[job[p].id] # None
    /\ Now(p).num \notin DOMAIN fields[job[p].id]
    /\ fields' = [fields EXCEPT ![job[p].id] = Defined(@, Now(p).num, Now(p).def)]
    /\ Wrote(p, job[p])
    /\ UNCHANGED <<tables, indexes, segs, config, begun>>

UpsertField(p) ==
    /\ Doing(p, "putField")
    /\ tables[job[p].id] # None
    /\ fields' = [fields EXCEPT ![job[p].id] = Defined(@, Now(p).num, Now(p).def)]
    /\ Wrote(p, job[p])
    /\ UNCHANGED <<tables, indexes, segs, config, begun>>

DeleteField(p) ==
    /\ Doing(p, "dropField")
    /\ Now(p).num \in DOMAIN fields[job[p].id]
    /\ fields' = [fields EXCEPT ![job[p].id] = Restrict(@, DOMAIN @ \ {Now(p).num})]
    /\ Wrote(p, job[p])
    /\ UNCHANGED <<tables, indexes, segs, config, begun>>

\* UNIQUE(table_id, index_number).
InsertIndex(p) ==
    /\ Doing(p, "index")
    /\ tables[job[p].id] # None
    /\ Numbered(p) = {}
    /\ FreshId(indexes) \in Id
    /\ indexes' = [indexes EXCEPT ![FreshId(indexes)] =
                     [table |-> job[p].id, number |-> Now(p).num]]
    /\ Wrote(p, [job[p] EXCEPT !.ix = FreshId(indexes)])
    /\ UNCHANGED <<tables, fields, segs, config, begun>>

\* Under the id the index was given, while it is there.
InsertSegment(p) ==
    /\ Doing(p, "segment")
    /\ indexes[job[p].ix] # None
    /\ segs' = [segs EXCEPT ![job[p].ix] = Append(@, Now(p).def)]
    /\ Wrote(p, job[p])
    /\ UNCHANGED <<tables, fields, indexes, config, begun>>

\* Before an index is put in its place, where there may be none, or for good.
DeleteIndex(p) ==
    /\ Doing(p, "clearIndex") \/ (Doing(p, "dropIndex") /\ Numbered(p) # {})
    /\ WithoutIndexes(Deleted(p))
    /\ Wrote(p, job[p])
    /\ UNCHANGED <<tables, fields, config, begun>>

\* ON DELETE CASCADE takes fields, indexes and segments along.  The ids are
\* free for other rows.
DeleteTables(p) ==
    /\ Doing(p, "dropTables")
    /\ LET gone == Rows(job[p].aim)
       IN  /\ gone # {}
           /\ tables' = [i \in Id |-> IF i \in gone THEN None ELSE tables[i]]
           /\ fields' = [i \in Id |-> IF i \in gone THEN Nothing ELSE fields[i]]
           /\ WithoutIndexes(UNION {IndexesOf(t) : t \in gone})
    /\ Unsettled(p)
    /\ UNCHANGED <<config, begun>>

\* Every row of the name; one of them in the way of another fails the whole.
UpdateTables(p) ==
    /\ Doing(p, "setDatabase")
    /\ LET moved == Rows(job[p].aim)
           To(i) == [tables[i].key EXCEPT !.db = Now(p).db]
       IN  /\ moved # {}
           /\ \A i \in moved : To(i) \in Key
           /\ \A i, j \in moved : i # j => To(i) # To(j)
           /\ tables' = [i \in Id |-> IF i \in moved THEN [tables[i] EXCEPT !.key = To(i)]
                                      ELSE tables[i]]
    /\ Unsettled(p)
    /\ UNCHANGED <<fields, indexes, segs, config, begun>>

\* The ALTERs change nothing in a database of this version.  Schema dbo is
\* taken for the default of older ones unless the connection's schema is dbo.
UpgradeSchema(p) ==
    /\ Doing(p, "upgrade")
    /\ tables' = [i \in Id |->
                    IF tables[i] # None /\ tables[i].schema = "dbo"
                       /\ ~(<<"config", "SCHEMA">> \in Settings /\ config[<<"config", "SCHEMA">>] = "dbo")
                    THEN [tables[i] EXCEPT !.schema = ""] ELSE tables[i]]
    /\ Advance(p, job[p])
    /\ UNCHANGED <<fields, indexes, segs, config, begun, trusted>>

SetMigrated(p, stamp) ==
    /\ Rows(job[p].aim) # {}
    /\ tables' = [i \in Id |-> IF i \in Rows(job[p].aim)
                               THEN [tables[i] EXCEPT !.migrated = stamp] ELSE tables[i]]
    /\ Advance(p, job[p])
    /\ UNCHANGED <<fields, indexes, segs, config, begun, trusted>>

Mark(p)   == Doing(p, "mark") /\ SetMigrated(p, DaysToYmd(Today))
Unmark(p) == Doing(p, "unmark") /\ SetMigrated(p, Never)

UpsertConfig(p) ==
    /\ Doing(p, "set")
    /\ config' = [config EXCEPT ![Now(p).of] = Now(p).value]
    /\ Advance(p, job[p])
    /\ UNCHANGED <<database, begun, trusted>>

\* An error ends the operation, and so does the end of its process; what was
\* written stays.
Fail(p) ==
    /\ job[p] # Idle
    /\ job' = [job EXCEPT ![p] = Idle]
    /\ UNCHANGED <<database, config, begun, trusted>>

-----------------------------------------------------------------------------
\* do_init: create_schema.
Init ==
    /\ tables = [i \in Id |-> None]
    /\ fields = [i \in Id |-> Nothing]
    /\ indexes = [i \in Id |-> None]
    /\ segs = [i \in Id |-> <<>>]
    /\ config = [s \in Settings |-> None]
    /\ job = [p \in Proc |-> Idle]
    /\ begun = 0
    /\ trusted = [k \in Key |-> None]

Operation(p) ==
    \/ ImportInt(p) \/ AnalyzeB(p) \/ SaveSchema(p)
    \/ AddField(p) \/ RmField(p) \/ AddIndex(p) \/ RmIndex(p) \/ RmTable(p) \/ SetTable(p)
    \/ MarkMigrated(p) \/ ClearMigrated(p) \/ MigrationStatus(p)
    \/ SetConnection(p) \/ ImportMds(p) \/ SetConfig(p)

Statement(p) ==
    \/ UpsertTable(p) \/ FindTable(p) \/ ClearFields(p) \/ ClearIndexes(p)
    \/ InsertField(p) \/ UpsertField(p) \/ DeleteField(p)
    \/ InsertIndex(p) \/ InsertSegment(p) \/ DeleteIndex(p)
    \/ DeleteTables(p) \/ UpdateTables(p) \/ UpgradeSchema(p) \/ Mark(p) \/ Unmark(p)
    \/ UpsertConfig(p)

Next == \E p \in Proc : Operation(p) \/ Statement(p) \/ Fail(p)

Spec == Init /\ [][Next]_vars

-----------------------------------------------------------------------------
\* What get_table and the driver's preload put together for a table id.
LoadedFields(t)  == fields[t]
LoadedIndexes(t) ==
    [n \in {indexes[i].number : i \in IndexesOf(t)} |->
        segs[CHOOSE i \in IndexesOf(t) : indexes[i].number = n]]

(***************************************************************************)
(* A table imported to its end while nobody else worked on it is what its  *)
(* INT file says, field by field and segment by segment, whatever an       *)
(* earlier import, cut short or of another version, left behind, and until *)
(* somebody works on it again: operations on other tables, upgrades and    *)
(* failures do not reach it.  A schema dbo may have been taken off.        *)
(***************************************************************************)
ImportedTablesAreComplete ==
    \A k \in Key : trusted[k] # None =>
        \E t \in Rows({k}) :
            /\ tables[t].header = trusted[k].header
            /\ tables[t].schema \in {trusted[k].schema, ""}
            /\ LoadedFields(t) = trusted[k].fields
            /\ LoadedIndexes(t) = trusted[k].indexes

(***************************************************************************)
(* That a table's data has been migrated is forgotten only by clear-       *)
(* migrated for a table of its name, or with the table: neither another    *)
(* import nor an upgrade takes it back.                                    *)
(***************************************************************************)
MigrationIsRemembered ==
    [][\A i \in Id :
          tables[i] # None /\ tables'[i] # None /\ tables'[i].migrated # tables[i].migrated =>
             \E p \in Proc :
                /\ Doing(p, "mark") \/ Doing(p, "unmark")
                /\ tables[i].key \in job[p].aim
                /\ job'[p] = Idle]_vars
=============================================================================
