---------------------------- MODULE BackupStore ----------------------------
(***************************************************************************)
(* What becomes of a backup once the worker runs it: the file the script   *)
(* leaves in the device's directory, the checks the executor makes on it,  *)
(* the row of the backups table, and the tasks that later remove rows and  *)
(* files.  One tenant; a unit of the clock is both the resolution of the   *)
(* file names and the unit of the retention ages.                          *)
(***************************************************************************)
EXTENDS Integers, FiniteSets, FiniteSetsExt

CONSTANTS Devices,
          Dir,         \* the sanitized directory of each device
          Jumped,      \* devices behind a jump host
          NumWorkers,  \* Celery processes that run backups
          NumCleaners, \* and that run the removals
          Contents,    \* what a script may write
          Limit,       \* storage of the plan, 0 for no limit
          FailedAge,   \* days a failed row is kept
          Retention,   \* days any row of an active device is kept
          MaxRuns, MaxClock, MaxCrashes

ASSUME DirAssumption == DOMAIN Dir = Devices /\ Jumped \subseteq Devices
ASSUME AgeAssumption == FailedAge \in Nat /\ Retention \in Nat
ASSUME BoundAssumption == MaxRuns \in Nat /\ MaxClock \in Nat /\ MaxCrashes \in Nat /\ NumWorkers \in Nat /\ NumCleaners \in Nat /\ Limit \in Nat

ASSUME ContentAssumption ==
    Contents \subseteq [kind : {"text", "zip", "dir"}, size : Nat, lines : Nat,
                        marks : {"unmapped", "found", "missing"}, plausible : BOOLEAN, errors : Nat]

VARIABLES clock,
          files,       \* what is at each path, and the run that wrote it
          rows,        \* the backups table
          active,      \* the device and its group are active
          job,         \* the run each worker is in
          cleaner,     \* the tasks that remove rows
          runs,        \* runs started so far
          uses,        \* runs that wrote or named each path (history)
          crashes

vars == <<clock, files, rows, active, job, cleaner, runs, uses, crashes>>

Paths == {Dir[d] : d \in Devices} \X (0..MaxClock)
Workers == 1..NumWorkers
NoPath == <<>>
NoFile == [by |-> 0]
RunIds == 1..MaxRuns
Cleaners == 1..NumCleaners
Removals == {"purge_expired", "purge_failed", "clear_failed"}
NoJob == [pc |-> "idle"]
Rest == [pc |-> "idle", picked |-> {}, left |-> {}]

Rows == [run : RunIds, copy : 1..2, dev : Devices, ok : BOOLEAN, path : Paths \cup {NoPath}, size : Nat, at : 0..MaxClock]
Jobs == [pc : {"script", "wrote", "measure", "verify", "quota", "persist", "again"},
         run : RunIds, dev : Devices, ok : BOOLEAN, path : Paths \cup {NoPath}, size : Nat]

TypeOK ==
    /\ clock \in 0..MaxClock /\ runs \in 0..MaxRuns /\ crashes \in 0..MaxCrashes
    /\ files \in [Paths -> {NoFile} \cup [by : RunIds, what : Contents]]
    /\ rows \subseteq Rows
    /\ active \in [Devices -> BOOLEAN]
    /\ job \in [Workers -> {NoJob} \cup Jobs]
    /\ cleaner \in [Cleaners -> [pc : {"idle", "busy"}, picked : SUBSET Rows, left : SUBSET Rows]]
    /\ uses \in [Paths -> SUBSET RunIds]

Init ==
    /\ clock = 0 /\ runs = 0 /\ crashes = 0
    /\ files = [p \in Paths |-> NoFile]
    /\ rows = {}
    /\ active = [d \in Devices |-> TRUE]
    /\ job = [w \in Workers |-> NoJob]
    /\ cleaner = [c \in Cleaners |-> Rest]
    /\ uses = [p \in Paths |-> {}]

-----------------------------------------------------------------------------
(* The executor. *)

Here(d) == <<Dir[d], clock>>

FilesIn(dir) == {p \in Paths : p[1] = dir /\ files[p] # NoFile /\ files[p].what.kind # "dir"}

\* validate_backup_integrity: sizes in bytes, a firmware without its markers may still look like a configuration.
Validated(f) ==
    /\ f # NoFile
    /\ \/ f.what.kind = "zip" /\ f.what.lines > 0 /\ f.what.size >= 128
       \/ /\ f.what.kind = "text" /\ f.what.size >= 128 /\ f.what.lines >= 5
          /\ f.what.marks = "missing" => f.what.plausible /\ f.what.errors <= 1

\* os.remove fails on a directory.
Unlinked(p) == IF files[p] # NoFile /\ files[p].what.kind # "dir" THEN [files EXCEPT ![p] = NoFile] ELSE files

Become(w, pc, ok, path, size) ==
    job' = [job EXCEPT ![w] = [pc |-> pc, run |-> @.run, dev |-> @.dev, ok |-> ok, path |-> path, size |-> size]]

Named(w, p) == uses' = [uses EXCEPT ![p] = @ \cup {job[w].run}]

\* Any idle worker may take the task; they are alike, so the first one does.
Start(w, d) ==
    /\ job[w] = NoJob /\ \A v \in 1..(w - 1) : job[v] # NoJob
    /\ runs < MaxRuns
    /\ runs' = runs + 1
    /\ job' = [job EXCEPT ![w] = [pc |-> "script", run |-> runs + 1, dev |-> d, ok |-> FALSE, path |-> NoPath, size |-> 0]]
    /\ UNCHANGED <<clock, files, rows, active, cleaner, uses, crashes>>

\* No script, no credential, no jump host to log in to, or no VPN.
Refused(w) ==
    /\ job[w].pc = "script"
    /\ Become(w, "persist", FALSE, NoPath, 0)
    /\ UNCHANGED <<clock, files, rows, active, cleaner, runs, uses, crashes>>

\* The port, and every other port tried for the kind of device, is closed; not asked behind a jump host.
Unreachable(w) ==
    /\ job[w].pc = "script" /\ job[w].dev \notin Jumped
    /\ Become(w, "persist", FALSE, NoPath, 0)
    /\ UNCHANGED <<clock, files, rows, active, cleaner, runs, uses, crashes>>

\* The script fails or raises, before or after it wrote a file; its path is not kept.
Fails(w) ==
    /\ job[w].pc \in {"script", "wrote"}
    /\ Become(w, "persist", FALSE, NoPath, 0)
    /\ UNCHANGED <<clock, files, rows, active, cleaner, runs, uses, crashes>>

\* The name of a file ends in the second it was written: the same second, the same file.
Writes(w, c) ==
    LET p == Here(job[w].dev) IN
    /\ job[w].pc = "script"
    /\ files' = [files EXCEPT ![p] = [by |-> job[w].run, what |-> c]]
    /\ Named(w, p)
    /\ Become(w, "wrote", FALSE, p, 0)
    /\ UNCHANGED <<clock, rows, active, cleaner, runs, crashes>>

\* The script returns its file.
ReturnsPath(w) ==
    /\ job[w].pc = "wrote"
    /\ Become(w, "measure", TRUE, job[w].path, 0)
    /\ UNCHANGED <<clock, files, rows, active, cleaner, runs, uses, crashes>>

\* The script returns success and no file: the newest of the directory is taken for it.
ReturnsNoPath(w) ==
    LET found == FilesIn(Dir[job[w].dev]) IN
    /\ job[w].pc \in {"script", "wrote"}
    /\ \/ /\ found = {}
          /\ Become(w, "persist", FALSE, NoPath, 0)
          /\ UNCHANGED uses
       \/ \E p \in found :
            /\ \A q \in found : q[2] <= p[2]
            /\ Named(w, p)
            /\ Become(w, "measure", TRUE, p, 0)
    /\ UNCHANGED <<clock, files, rows, active, cleaner, runs, crashes>>

\* Size and hash; to open a directory raises, and the run ends without a row.
Measure(w) ==
    LET f == files[job[w].path] IN
    /\ job[w].pc = "measure"
    /\ IF f = NoFile THEN Become(w, "verify", TRUE, job[w].path, 0)
       ELSE IF f.what.kind = "dir" THEN job' = [job EXCEPT ![w] = NoJob]
       ELSE Become(w, "verify", TRUE, job[w].path, f.what.size)
    /\ UNCHANGED <<clock, files, rows, active, cleaner, runs, uses, crashes>>

\* A file that fails the check stays, and the row will name it.
Verify(w) ==
    LET good == Validated(files[job[w].path]) IN
    /\ job[w].pc = "verify"
    /\ Become(w, IF good THEN "quota" ELSE "persist", good, job[w].path, job[w].size)
    /\ UNCHANGED <<clock, files, rows, active, cleaner, runs, uses, crashes>>

Used == MapThenSumSet(LAMBDA r : r.size, rows)

\* Faulty variant: the size of the file itself is not counted.
FitsWithout(size) == Limit > 0 /\ size > 0 => Used <= Limit

\* check_storage_before_backup
Fits(size) == Limit > 0 /\ size > 0 => Used + size <= Limit

\* Over the quota the file is removed, if it can be.
Quota(w) ==
    /\ job[w].pc = "quota"
    /\ \/ /\ Fits(job[w].size)
          /\ Become(w, "persist", TRUE, job[w].path, job[w].size)
          /\ UNCHANGED files
       \/ /\ ~Fits(job[w].size)
          /\ files' \in {files, Unlinked(job[w].path)}
          /\ Become(w, "persist", FALSE, NoPath, 0)
    /\ UNCHANGED <<clock, rows, active, cleaner, runs, uses, crashes>>

Row(w, copy) ==
    [run |-> job[w].run, copy |-> copy, dev |-> job[w].dev, ok |-> job[w].ok,
     path |-> job[w].path, size |-> job[w].size, at |-> clock]

Recorded(w, copy) == rows' = rows \cup {Row(w, copy)}

\* Faulty variant: a run that failed leaves no row.
PersistOk(w) ==
    /\ job[w].pc \in {"persist", "again"}
    /\ IF job[w].ok THEN Recorded(w, IF job[w].pc = "persist" THEN 1 ELSE 2) ELSE UNCHANGED rows
    /\ job' = [job EXCEPT ![w] = NoJob]
    /\ UNCHANGED <<clock, files, active, cleaner, runs, uses, crashes>>

\* _persist_backup_result: one commit, which also sets what the device shows.
Persist(w) ==
    /\ job[w].pc \in {"persist", "again"}
    /\ Recorded(w, IF job[w].pc = "persist" THEN 1 ELSE 2)
    /\ job' = [job EXCEPT ![w] = NoJob]
    /\ UNCHANGED <<clock, files, active, cleaner, runs, uses, crashes>>

\* The connection drops during the commit, which may or may not have taken place: once more, in a new session.
PersistDrops(w) ==
    /\ job[w].pc = "persist" /\ crashes < MaxCrashes
    /\ crashes' = crashes + 1
    /\ Recorded(w, 1) \/ UNCHANGED rows
    /\ job' = [job EXCEPT ![w].pc = "again"]
    /\ UNCHANGED <<clock, files, active, cleaner, runs, uses>>

\* Any other error, or a second one, or the worker is killed: no row, the file stays.
Lost(w) ==
    /\ job[w] # NoJob /\ crashes < MaxCrashes
    /\ crashes' = crashes + 1
    /\ job' = [job EXCEPT ![w] = NoJob]
    /\ UNCHANGED <<clock, files, rows, active, cleaner, runs, uses>>

-----------------------------------------------------------------------------
(* Removal. *)

Age(r) == clock - r.at

\* Faulty variant: the manual cleaning takes every row.
DueAll(k) ==
    CASE k = "purge_expired" -> {r \in rows : Age(r) > Retention /\ active[r.dev]}
      [] k = "purge_failed" -> {r \in rows : ~r.ok /\ Age(r) > FailedAge}
      [] k = "clear_failed" -> rows

\* Faulty variant: rows whose file is gone are skipped.
DueWithFile(k) ==
    CASE k = "purge_expired" -> {r \in rows : Age(r) > Retention /\ active[r.dev] /\ r.path # NoPath /\ files[r.path] # NoFile}
      [] k = "purge_failed" -> {r \in rows : ~r.ok /\ Age(r) > FailedAge}
      [] k = "clear_failed" -> {r \in rows : ~r.ok}

\* purge_expired_backups, purge_failed_backups_periodic and clear_failed_backups.
Due(k) ==
    CASE k = "purge_expired" -> {r \in rows : Age(r) > Retention /\ active[r.dev]}
      [] k = "purge_failed" -> {r \in rows : ~r.ok /\ Age(r) > FailedAge}
      [] k = "clear_failed" -> {r \in rows : ~r.ok}

Pick(c, k) ==
    /\ cleaner[c].pc = "idle" /\ Due(k) # {}
    /\ cleaner' = [cleaner EXCEPT ![c] = [pc |-> "busy", picked |-> Due(k), left |-> Due(k)]]
    /\ UNCHANGED <<clock, files, rows, active, job, runs, uses, crashes>>

\* The file of each row goes at once, if it can be removed; its row waits for the commit.
RemoveFile(c) ==
    \E r \in cleaner[c].left :
        /\ cleaner' = [cleaner EXCEPT ![c].left = @ \ {r}]
        /\ files' \in IF r.path = NoPath THEN {files} ELSE {files, Unlinked(r.path)}
        /\ UNCHANGED <<clock, rows, active, job, runs, uses, crashes>>

\* Faulty variant: the commit takes every row of the devices it cleaned.
CommitOfDevice(c) ==
    /\ cleaner[c].pc = "busy" /\ cleaner[c].left = {}
    /\ rows' = {r \in rows : ~\E s \in cleaner[c].picked : s.dev = r.dev}
    /\ cleaner' = [cleaner EXCEPT ![c] = Rest]
    /\ UNCHANGED <<clock, files, active, job, runs, uses, crashes>>

CommitRemoval(c) ==
    /\ cleaner[c].pc = "busy" /\ cleaner[c].left = {}
    /\ rows' = rows \ cleaner[c].picked
    /\ cleaner' = [cleaner EXCEPT ![c] = Rest]
    /\ UNCHANGED <<clock, files, active, job, runs, uses, crashes>>

\* The task dies before its commit: files are gone, rows are not.
CleanerDies(c) ==
    /\ cleaner[c].pc = "busy" /\ crashes < MaxCrashes
    /\ crashes' = crashes + 1
    /\ cleaner' = [cleaner EXCEPT ![c] = Rest]
    /\ UNCHANGED <<clock, files, rows, active, job, runs, uses>>

-----------------------------------------------------------------------------
(* The web interface, and time. *)

\* delete_device is a soft delete; a group is switched off and on.
Toggle(d) ==
    /\ active' = [active EXCEPT ![d] = ~@]
    /\ UNCHANGED <<clock, files, rows, job, cleaner, runs, uses, crashes>>

\* The second session of PersistDrops follows at once.
TimePasses ==
    /\ clock < MaxClock
    /\ \A w \in Workers : job[w].pc # "again"
    /\ clock' = clock + 1
    /\ UNCHANGED <<files, rows, active, job, cleaner, runs, uses, crashes>>

Work(w) ==
    \/ Refused(w) \/ Unreachable(w) \/ Fails(w) \/ ReturnsPath(w) \/ ReturnsNoPath(w)
    \/ \E c \in Contents : Writes(w, c)
    \/ Measure(w) \/ Verify(w) \/ Quota(w) \/ Persist(w)

Clean(c) == RemoveFile(c) \/ CommitRemoval(c)

Next ==
    \/ \E w \in Workers : Work(w) \/ PersistDrops(w) \/ Lost(w) \/ \E d \in Devices : Start(w, d)
    \/ \E c \in Cleaners : Clean(c) \/ CleanerDies(c) \/ \E k \in Removals : Pick(c, k)
    \/ \E d \in Devices : Toggle(d)
    \/ TimePasses

Spec == Init /\ [][Next]_vars

\* A removal once begun runs on; beat queues the purge of expired backups every day, and it
\* starts if it stays possible.
FairSpec ==
    /\ Spec
    /\ \A c \in Cleaners : WF_vars(Clean(c))
    /\ WF_vars(\E c \in Cleaners : Pick(c, "purge_expired"))

-----------------------------------------------------------------------------
\* A path that more than one run wrote or named: devices whose sanitized names
\* are equal, two runs in one second, or a script that names no file.
Shared(p) == Cardinality(uses[p]) > 1

\* A row that says success has the very file its run wrote, and that file is
\* sound, for as long as retention does not let it go: no quota, no cleaning
\* of failed rows and no cleaner that died half way takes it.
GoodBackupKept ==
    \A r \in rows : r.ok /\ Age(r) <= Retention /\ ~Shared(r.path) =>
        files[r.path].by = r.run /\ Validated(files[r.path])

\* A file that is gone when it is measured counts nothing.
Sizes == {0} \cup {c.size : c \in {k \in Contents : k.size <= Limit}}

\* The rows of the successful runs, each run once.
GoodRuns == {r \in rows : r.ok /\ (r.copy = 1 \/ ~\E s \in rows : s.run = r.run /\ s.copy = 1)}

\* The quota is checked against rows already committed, so runs in flight may
\* pass it together, each by one file; never more.
QuotaOvershoot ==
    Limit > 0 => MapThenSumSet(LAMBDA r : r.size, GoodRuns) <= Limit + (NumWorkers - 1) * Max(Sizes)

IsDirectory(p) == p # NoPath /\ files[p] # NoFile /\ files[p].what.kind = "dir"

\* Every run leaves a row, of success or of failure, unless the worker was
\* killed, the database refused it, or the script returned a directory.
RunRecorded ==
    [][\A w \in Workers : job[w] # NoJob /\ job'[w] = NoJob /\ crashes' = crashes /\ ~IsDirectory(job[w].path) =>
        \E r \in rows' : r.run = job[w].run]_vars

\* While a device stays active its expired rows go away, though a cleaner died
\* after it removed their files.
ExpiredGo ==
    \A d \in Devices :
        <>[](active[d]) => []<>(\A r \in rows : r.dev = d => Age(r) <= Retention)

-----------------------------------------------------------------------------
(* What the table promises of each run: BackupLife. *)

Running(n) == \E w \in Workers : job[w] # NoJob /\ job[w].run = n

RowsOf(n) == {r \in rows : r.run = n}

Outcome(n) == IF RowsOf(n) = {} THEN "gone" ELSE IF \E r \in RowsOf(n) : r.ok THEN "saved" ELSE "failed"

LifeOf(n) == IF n > runs THEN "none" ELSE IF Running(n) THEN "running" ELSE Outcome(n)

SavedAt(n) == IF LifeOf(n) = "saved" THEN (CHOOSE r \in RowsOf(n) : r.ok).at ELSE 0

Lives == [n \in RunIds |-> LifeOf(n)]
SavedTimes == [n \in RunIds |-> SavedAt(n)]

Life == INSTANCE BackupLife WITH Runs <- RunIds, life <- Lives, since <- SavedTimes

\* A run ends once, over lost commits and second sessions; its outcome never
\* changes, a success is let go by its retention alone, whatever the cleaners
\* do at once, and a run that was let go does not come back.
LifeKept == Life!Spec
=============================================================================
