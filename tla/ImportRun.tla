------------------------------ MODULE ImportRun ------------------------------
(***************************************************************************)
(* The import of Btrieve files into the backend: the command line's import *)
(* and import-dir, the web server's import jobs and the events they stream *)
(* (btr-import runner.rs, main.rs, sqlsrv.rs, bfile.rs, wxbtrv-web         *)
(* bimport.rs, state.rs).  Every statement commits on its own; several     *)
(* jobs run at a time, each with one connection for all of its files.      *)
(***************************************************************************)
EXTENDS Integers, SequencesExt, FiniteSetsExt, Functions

CONSTANTS
    Job,        \* the imports of a behaviour
    Backend,    \* for each project its backend: "mssql", "postgres", "sqlite"
    Home,       \* for each project the database it connects to
    File,       \* for each file: [name, version, pages, chain, declared, readable]
    Requests,   \* [kind, project, files, table, create, truncate, dry, auto, save, batch]
    Saved,      \* for each project the tables wxbtrv.db has: name -> database
    Tables,     \* the tables the backends have at first: [db, name]
    None

\* kind: "cli", "dir" (command line), "web", "stream" (web server)
\* pages: [data, slots], data the page flag, slots a sequence of [id, usage]
\* chain: the ids a version 5 file's chain of deleted records leads to

Project == DOMAIN Backend

ASSUME FileAssumption ==
    \A f \in Range(File) :
        /\ f.pages \in Seq([data : BOOLEAN, slots : Seq([id : Nat, usage : Nat])])
        /\ f.declared \in Nat

ASSUME RequestAssumption ==
    Requests \subseteq
        [kind : {"cli", "dir", "web", "stream"}, project : Project,
         files : Seq(DOMAIN File), table : {r.table : r \in Requests},
         create : BOOLEAN, truncate : BOOLEAN, dry : BOOLEAN,
         auto : BOOLEAN, save : BOOLEAN, batch : Nat]

ASSUME SavedAssumption == DOMAIN Saved = Project

VARIABLES
    known,      \* the tables of wxbtrv.db, for each project
    rows,       \* the backends' tables: [db, name] -> sequence of records
    job,        \* the jobs
    channel,    \* events sent by a streaming job, not yet delivered
    heard,      \* events the client has received
    emptied,    \* history: the job and file that emptied a table and that
                \* nobody else has written to it since
    reported    \* history: the jobs' files that were reported imported

vars == <<known, rows, job, channel, heard, emptied, reported>>
backend == <<rows, emptied>>
stream == <<channel, heard>>

-----------------------------------------------------------------------------
(***************************************************************************)
(* The records a reader finds in a file, and those that are in it.         *)
(***************************************************************************)
Slots(f) == FlattenSeq([p \in DOMAIN f.pages |->
                IF f.pages[p].data THEN f.pages[p].slots ELSE <<>>])

Gone(f, slot) == IF f.version = 6 THEN slot.usage = 0 ELSE slot.id \in Range(f.chain)

\* The ids of the slots at some positions, in order.
Pick(slots, S) ==
    [n \in 1..Cardinality(S) |->
        slots[CHOOSE i \in S : Cardinality({j \in S : j <= i}) = n].id]

\* The iterator stops at the count the header declares, if it declares one.
Records(f) ==
    LET left == Pick(Slots(f), {i \in DOMAIN Slots(f) : ~Gone(f, Slots(f)[i])})
    IN IF f.declared = 0 \/ f.declared > Len(left) THEN left
       ELSE SubSeq(left, 1, f.declared)

Live(f) == Pick(Slots(f), {i \in DOMAIN Slots(f) : Slots(f)[i].usage # 0})

\* A file whose header counts fewer records than there are is cut, and a version
\* 5 file with deleted records, or a chain of them, is read wrongly (README).
ReadRight(f) ==
    /\ f.declared = 0 \/ f.declared >= Len(Live(f))
    /\ f.version = 6 \/ \A s \in Range(Slots(f)) : s.usage # 0 /\ s.id \notin Range(f.chain)

\* Per file: what an import reads, and what it should.
ReadFrom   == [f \in DOMAIN File |-> Records(File[f])]
LiveIn     == [f \in DOMAIN File |-> Live(File[f])]
RightFiles == {f \in DOMAIN File : ReadRight(File[f])}

-----------------------------------------------------------------------------
Idle == [at |-> "idle", req |-> None, project |-> None, file |-> 1, db |-> None,
         left |-> <<>>, ok |-> 0, skipped |-> 0, died |-> FALSE]

Name(r, n) == IF r.table # None THEN r.table ELSE File[r.files[n]].name

\* [db].[table], or the table alone where the backend has no such names.
TableRef(p, db, name) ==
    [db |-> IF Backend[p] = "mssql" /\ db # "" THEN db ELSE Home[p], name |-> name]

\* The databases of the tables in wxbtrv.db; "" for none.
Databases == {""} \cup UNION {Range(Saved[p]) : p \in Project}

\* The tables there are and those that jobs may name.
Locations ==
    Tables \cup
    {TableRef(p, db, name) :
        p \in Project, db \in Databases,
        name \in {f.name : f \in Range(File)} \cup ({r.table : r \in Requests} \ {None})}

Target(j) == TableRef(job[j].project, job[j].db, Name(job[j].req, job[j].file))
Source(j) == <<j, job[j].file>>
FileOf(j) == job[j].req.files[job[j].file]
Exists(t) == t \in DOMAIN rows

\* The function f with the value y at x.
Put(f, x, y) == [z \in DOMAIN f \cup {x} |-> IF z = x THEN y ELSE f[z]]

Send(j, e) ==
    channel' = IF job[j].req.kind = "stream" THEN [channel EXCEPT ![j] = Append(@, e)]
                                             ELSE channel

Moved(j, at) == job' = [job EXCEPT ![j].at = at]

\* Mutant: an error ends the stream without a word.
EndedWhenDone(j, how) ==
    /\ job' = [job EXCEPT ![j].at = "over", ![j].left = <<>>]
    /\ IF how = "done" THEN Send(j, how) ELSE UNCHANGED channel
    /\ UNCHANGED heard

\* The job is over; a streaming one says so.
Ended(j, how) ==
    /\ job' = [job EXCEPT ![j].at = "over", ![j].left = <<>>]
    /\ Send(j, how)
    /\ UNCHANGED heard

\* A file fails: a job of the server, and import-dir where there is no schema,
\* go on with the next file, the command line stops.
Skipped(j) ==
    IF job[j].req.kind \in {"web", "stream"} \/ (job[j].req.kind = "dir" /\ job[j].at = "schema")
    THEN /\ job' = [job EXCEPT ![j].at = "schema", ![j].file = @ + 1, ![j].left = <<>>,
                               ![j].skipped = @ + 1]
         /\ Send(j, "log")
         /\ UNCHANGED heard
    ELSE Ended(j, "error")

-----------------------------------------------------------------------------
(***************************************************************************)
(* Requests.  A request of the server works on the project that is open as *)
(* it comes, whichever is opened later; the command line names its own.    *)
(***************************************************************************)
Request(j, r) ==
    /\ job[j] = Idle
    /\ job' = [job EXCEPT ![j] = [Idle EXCEPT !.at = "start", !.req = r, !.project = r.project]]
    /\ UNCHANGED <<known, backend, stream, reported>>

TooMany(r) == r.table # None /\ Len(r.files) > 1

\* wxbtrv.db cannot be read, or the backend does not let the job in.
Refuse(j) ==
    /\ job[j].at = "start"
    /\ Ended(j, "error")
    /\ UNCHANGED <<known, backend, reported>>

Connect(j) ==
    /\ job[j].at = "start"
    /\ ~TooMany(job[j].req)
    /\ job' = [job EXCEPT ![j].at = "schema"]
    /\ UNCHANGED <<known, backend, stream, reported>>

-----------------------------------------------------------------------------
(***************************************************************************)
(* One file.                                                               *)
(***************************************************************************)
\* wxbtrv.db's table of that name; or, when it is not there or cannot be
\* loaded, one made from the file's own header, with no database of its own.
\* If so asked it is saved: then a table of that name with a database may
\* still be the one found next.
LoadSchema(j) ==
    LET r == job[j].req
        p == job[j].project
        name == Name(r, job[j].file)
    IN  /\ job[j].at = "schema"
        /\ job[j].file <= Len(r.files)
        /\ \/ /\ name \in DOMAIN known[p]
              /\ job' = [job EXCEPT ![j].at = "open", ![j].db = known[p][name]]
              /\ UNCHANGED <<known, stream>>
           \/ /\ r.auto
              /\ File[FileOf(j)].readable
              /\ job' = [job EXCEPT ![j].at = "open", ![j].db = ""]
              /\ \/ r.save /\ known' = [known EXCEPT ![p] = Put(@, name, "")]
                 \/ (r.save => name \in DOMAIN known[p]) /\ UNCHANGED known
              /\ IF r.save THEN Send(j, "log") ELSE UNCHANGED channel
              /\ UNCHANGED heard
        /\ UNCHANGED <<backend, reported>>

Asked(j, option) == option /\ ~job[j].req.dry

\* No schema, a file that cannot be read, or a statement that is refused.
Fail(j) ==
    /\ job[j].at \in {"schema", "open", "create", "truncate", "rows"}
    /\ job[j].at = "schema" => job[j].file <= Len(job[j].req.files)
    /\ job[j].at = "rows" => job[j].left # <<>> /\ ~job[j].req.dry
    /\ Skipped(j)
    /\ UNCHANGED <<known, backend, reported>>

AfterCreate(j) == IF Asked(j, job[j].req.truncate) THEN "truncate" ELSE "rows"
AfterOpen(j) == IF Asked(j, job[j].req.create) THEN "create" ELSE AfterCreate(j)

ReadFile(j) ==
    /\ job[j].at = "open"
    /\ File[FileOf(j)].readable
    /\ job' = [job EXCEPT ![j].at = AfterOpen(j), ![j].left = ReadFrom[FileOf(j)]]
    /\ UNCHANGED <<known, backend, stream, reported>>

\* SQL Server is asked for a table of that name in the database connected to,
\* wherever the table is to be.
Found(j) ==
    IF Backend[job[j].project] = "mssql"
    THEN Exists([db |-> Home[job[j].project], name |-> Target(j).name])
    ELSE Exists(Target(j))

Create(j) ==
    /\ job[j].at = "create"
    /\ Found(j) \/ ~Exists(Target(j))
    /\ rows' = IF Found(j) THEN rows ELSE Put(rows, Target(j), <<>>)
    /\ Moved(j, AfterCreate(j))
    /\ UNCHANGED <<known, emptied, stream, reported>>

Truncate(j) ==
    /\ job[j].at = "truncate"
    /\ Exists(Target(j))
    /\ rows' = Put(rows, Target(j), <<>>)
    /\ emptied' = [emptied EXCEPT ![Target(j)] = Source(j)]
    /\ Moved(j, "rows")
    /\ UNCHANGED <<known, stream, reported>>

BatchSize(r) == IF r.batch = 0 THEN 1 ELSE r.batch

\* Mutant: on every backend.
RowByRow(j) == 1

\* Records are collected until the batch is full or the file is read.  SQL
\* Server takes a batch in one statement, the others row by row.
Batch(j) == Min({BatchSize(job[j].req), Len(job[j].left)})
Sent(j) == IF Backend[job[j].project] = "mssql" \/ job[j].req.dry THEN Batch(j) ELSE 1

Insert(j) ==
    LET t == Target(j)
        n == Sent(j)
    IN  /\ job[j].at = "rows"
        /\ job[j].left # <<>>
        /\ IF job[j].req.dry THEN UNCHANGED backend
           ELSE /\ Exists(t)
                /\ rows' = Put(rows, t, rows[t] \o SubSeq(job[j].left, 1, n))
                /\ emptied' = [emptied EXCEPT ![t] = IF @ = Source(j) THEN @ ELSE None]
        /\ job' = [job EXCEPT ![j].left = SubSeq(@, n + 1, Len(@))]
        /\ UNCHANGED <<known, stream, reported>>

\* Mutant: what is left when the file ends is not sent.
FullBatchesOnly(j) == Len(job[j].left) < BatchSize(job[j].req)

\* Nothing is left, the last batch included, full or not.
Flushed(j) == job[j].left = <<>>

Report(j) ==
    /\ job[j].at = "rows"
    /\ Flushed(j)
    /\ job' = [job EXCEPT ![j].at = "schema", ![j].file = @ + 1, ![j].ok = @ + 1]
    /\ Send(j, "log")
    /\ reported' = IF job[j].req.dry THEN reported ELSE reported \cup {Source(j)}
    /\ UNCHANGED <<known, backend, heard>>

Finish(j) ==
    /\ job[j].at = "schema"
    /\ job[j].file > Len(job[j].req.files)
    /\ Ended(j, "done")
    /\ UNCHANGED <<known, backend, reported>>

-----------------------------------------------------------------------------
(***************************************************************************)
(* What goes wrong beyond a statement that is refused: the process dies,   *)
(* the client goes away, and the message of a refused batch is cut in the  *)
(* middle of a character (sqlsrv.rs:258), which takes the worker down.  A  *)
(* connection that is lost refuses every statement from then on.           *)
(***************************************************************************)
Died(j) == job' = [job EXCEPT ![j].at = "over", ![j].died = TRUE, ![j].left = <<>>]

Crash(j) ==
    /\ job[j].at \notin {"idle", "over"}
    /\ Died(j)
    /\ UNCHANGED <<known, backend, stream, reported>>

Panic(j) ==
    /\ job[j].at = "rows"
    /\ job[j].left # <<>>
    /\ ~job[j].req.dry
    /\ Backend[job[j].project] = "mssql"
    /\ Died(j)
    /\ UNCHANGED <<known, backend, stream, reported>>

Deliver(j) ==
    /\ channel[j] # <<>>
    /\ heard' = [heard EXCEPT ![j] = Append(@, Head(channel[j]))]
    /\ channel' = [channel EXCEPT ![j] = Tail(@)]
    /\ UNCHANGED <<known, backend, job, reported>>

\* Nobody listens any more: the job goes on and what it sends is dropped.
Leave(j) ==
    /\ job[j].at \notin {"idle", "over"}
    /\ job[j].req.kind = "stream"
    /\ job' = [job EXCEPT ![j].req.kind = "web"]
    /\ channel' = [channel EXCEPT ![j] = <<>>]
    /\ UNCHANGED <<known, backend, heard, reported>>

Works(j) ==
    \/ Connect(j) \/ Refuse(j) \/ LoadSchema(j) \/ ReadFile(j) \/ Create(j) \/ Truncate(j)
    \/ Insert(j) \/ Report(j) \/ Finish(j) \/ Fail(j) \/ Panic(j)

Init ==
    /\ known = Saved
    /\ rows = [t \in Tables |-> <<>>]
    /\ job = [j \in Job |-> Idle]
    /\ channel = [j \in Job |-> <<>>]
    /\ heard = [j \in Job |-> <<>>]
    /\ emptied = [t \in Locations |-> None]
    /\ reported = {}

Next ==
    \E j \in Job :
        \/ \E r \in Requests : Request(j, r)
        \/ Works(j) \/ Crash(j) \/ Deliver(j) \/ Leave(j)

Spec == Init /\ [][Next]_vars

\* A thread that can go on does, and the server polls the streams it serves.
FairSpec == Spec /\ \A j \in Job : WF_vars(Works(j)) /\ WF_vars(Deliver(j))

-----------------------------------------------------------------------------
(***************************************************************************)
(* Properties.                                                             *)
(***************************************************************************)
\* The file that was imported into t since it was emptied.
WrittenBy(t) == job[emptied[t][1]].req.files[emptied[t][2]]

\* A table that an import emptied, and that nobody else has written since,
\* holds just the file's live records, each once, when the file is reported
\* imported: whatever an import cut short had left, whichever jobs ran at the
\* same time on other tables, and whatever was deleted in the file.
ReportedTableIsTheFile ==
    \A t \in DOMAIN rows :
        (emptied[t] # None /\ emptied[t] \in reported /\ WrittenBy(t) \in RightFiles)
            => rows[t] = LiveIn[WrittenBy(t)]

\* Until then, and for ever if the job dies, it holds the first of them, on SQL
\* Server whole batches of them: an import cut short leaves no gap and nothing
\* twice.
CutShortIsAPrefix ==
    \A t \in DOMAIN rows :
        (emptied[t] # None /\ WrittenBy(t) \in RightFiles) =>
            LET live == LiveIn[WrittenBy(t)]
                j == emptied[t][1]
            IN  /\ IsPrefix(rows[t], live)
                /\ Backend[job[j].project] = "mssql" =>
                    \/ Len(rows[t]) % BatchSize(job[j].req) = 0
                    \/ rows[t] = live

\* The last event the client has heard is the end of its import, the only one.
Told(j) ==
    /\ heard[j] # <<>>
    /\ Last(heard[j]) \in {"done", "error"}
    /\ Range(Front(heard[j])) \subseteq {"log"}
    /\ Last(heard[j]) = "done" => Len(heard[j]) > Len(job[j].req.files)

\* A client that stays hears the end of its import, after every other event:
\* "done" or "error", once, unless the worker or the server dies.
Streams(j) == job[j].req # None /\ job[j].req.kind = "stream"

EveryStreamEnds ==
    \A j \in Job : Streams(j) ~> (Told(j) \/ job[j].died \/ ~Streams(j))
=============================================================================
