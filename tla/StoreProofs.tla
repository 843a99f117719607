----------------------------- MODULE StoreProofs -----------------------------
(***************************************************************************)
(* Backups and their removal for any number of devices, workers, cleaners  *)
(* and runs, any contents, limits and ages: the types, what becomes of a   *)
(* good backup, that a run leaves a row, how far the storage in use passes *)
(* the quota, and that all of it implements BackupLife.                    *)
(***************************************************************************)
EXTENDS BackupStore, FiniteSetTheorems, TLAPS

\* At most one run wrote or named the path.
Alone(p) == \A a, b \in uses[p] : a = b

HasFile == {"wrote", "measure", "verify", "quota"}

\* A run that has got to its file names one, and so does a success.
PathHeld ==
    \A w \in Workers :
        job[w] # NoJob /\ (job[w].pc \in HasFile \/ job[w].ok) => job[w].path \in Paths

\* Runs are numbered as they start, and a worker has one of its own.
RunsNumbered ==
    /\ \A w \in Workers : job[w] # NoJob => job[w].run <= runs
    /\ \A w, v \in Workers : job[w] # NoJob /\ job[v] # NoJob /\ job[w].run = job[v].run => w = v

\* The rows there are, and those a cleaner has picked.
Known == rows \cup UNION {cleaner[c].picked : c \in Cleaners}

\* Whoever wrote or names a path is counted there.
UsesCounted ==
    /\ \A p \in Paths : /\ \A n \in uses[p] : n <= runs
                        /\ files[p] # NoFile => files[p].by \in uses[p]
    /\ \A w \in Workers : job[w] # NoJob /\ job[w].path # NoPath => job[w].run \in uses[job[w].path]
    /\ \A r \in Known : r.path # NoPath => r.run \in uses[r.path]

\* A row is of a run that started, and a success names a path.
RowsHonest == \A r \in Known : r.run <= runs /\ (r.ok => r.path \in Paths)

\* The second row of a run repeats the first, ...
TwoCopies == \A r, s \in Known : r.run = s.run => r.ok = s.ok /\ r.path = s.path /\ r.at = s.at

\* ... and a run under way has a row only while it commits for the second time.
RowsOfJob ==
    \A w \in Workers, r \in Known :
        job[w] # NoJob /\ r.run = job[w].run =>
            /\ job[w].pc = "again"
            /\ r.ok = job[w].ok /\ r.path = job[w].path /\ r.at = clock

\* A cleaner has picked nothing but failed and expired rows.
PickedDue ==
    \A c \in Cleaners :
        /\ cleaner[c].left \subseteq cleaner[c].picked
        /\ \A r \in cleaner[c].picked : ~r.ok \/ clock - r.at > Retention

\* A run's file is its own, if no other run has its path, and sound once verified.
Verified(w) == job[w].pc = "quota" \/ (job[w].pc \in {"persist", "again"} /\ job[w].ok)
JobSound ==
    \A w \in Workers :
        job[w] # NoJob /\ (job[w].pc \in HasFile \/ Verified(w)) /\ Alone(job[w].path) =>
            /\ files[job[w].path] # NoFile /\ files[job[w].path].by = job[w].run
            /\ Verified(w) => Validated(files[job[w].path])

\* So is that of a row of success which retention has to keep.
RowsSound ==
    \A r \in rows : r.ok /\ Age(r) <= Retention /\ Alone(r.path) =>
        /\ files[r.path] # NoFile /\ files[r.path].by = r.run
        /\ Validated(files[r.path])

StoreInv ==
    /\ TypeOK /\ PathHeld /\ RunsNumbered /\ UsesCounted /\ RowsHonest /\ TwoCopies
    /\ RowsOfJob /\ PickedDue /\ JobSound /\ RowsSound

-----------------------------------------------------------------------------
(* Records. *)

\* A worker in a run has a job of the declared shape.
LEMMA InRun ==
    ASSUME TypeOK, NEW w \in Workers, job[w].pc # "idle" \/ job[w] # NoJob
    PROVE  /\ job[w] # NoJob /\ job[w] \in Jobs
           /\ job[w].run \in RunIds /\ job[w].dev \in Devices /\ job[w].ok \in BOOLEAN
           /\ job[w].path \in Paths \cup {NoPath} /\ job[w].size \in Nat
           /\ job[w].pc \in {"script", "wrote", "measure", "verify", "quota", "persist", "again"}
<1>1. job[w] # NoJob
  BY DEF NoJob
<1>2. job[w] \in Jobs
  BY <1>1 DEF TypeOK
<1> QED
  BY <1>1, <1>2 DEF Jobs

\* An idle worker is in no run.
LEMMA JobShape == \A j \in Jobs : j # NoJob /\ j.pc # "idle"
  BY DEF Jobs, NoJob

\* The job a worker goes on with.
NextJob(w, pc, ok, path, size) ==
    [pc |-> pc, run |-> job[w].run, dev |-> job[w].dev, ok |-> ok, path |-> path, size |-> size]

LEMMA JobBecomes ==
    ASSUME NEW w, NEW pc, NEW ok, NEW path, NEW size, Become(w, pc, ok, path, size)
    PROVE  job' = [job EXCEPT ![w] = NextJob(w, pc, ok, path, size)]
  BY DEF Become, NextJob

LEMMA PathNamed == NoPath \notin Paths
  BY DEF NoPath, Paths

\* What is at a path, and who wrote it.
LEMMA FileShape ==
    ASSUME TypeOK, NEW p \in Paths, files[p] # NoFile
    PROVE  files[p].by \in RunIds /\ files[p].what \in Contents
  BY DEF TypeOK

LEMMA ContentShape == \A c \in Contents : c.size \in Nat
  BY ContentAssumption

\* Picked rows have the shape of rows.
LEMMA KnownShape ==
    ASSUME TypeOK, NEW r \in Known
    PROVE  /\ r \in Rows /\ r.run \in RunIds /\ r.ok \in BOOLEAN
           /\ r.path \in Paths \cup {NoPath} /\ r.at \in 0 .. MaxClock
<1>1. r \in Rows
  BY DEF TypeOK, Known
<1> QED
  BY <1>1 DEF Rows

-----------------------------------------------------------------------------
(* A run on its way to the commit. *)

\* The same of a job.
VerifiedJob(j) == j.pc = "quota" \/ (j.pc \in {"persist", "again"} /\ j.ok)

\* A run under way has no row, but while it commits for the second time.
LEMMA NoRowYet ==
    ASSUME StoreInv, NEW w \in Workers, job[w] # NoJob, job[w].pc # "again", NEW r \in Known
    PROVE  r.run # job[w].run
  BY DEF StoreInv, RowsOfJob

\* Before its commit a run touches no path but its own, which it is counted at.
Touches(w, j) ==
    /\ \A q \in Paths : \/ uses'[q] = uses[q]
                        \/ uses'[q] = uses[q] \cup {job[w].run}
    /\ \A q \in Paths : files'[q] # files[q] =>
          /\ job[w].run \in uses'[q]
          /\ files'[q] # NoFile => files'[q].by = job[w].run
    /\ j.path # NoPath => job[w].run \in uses'[j.path]

\* Whatever a run does before its commit, the invariant is kept if its next job
\* is as sound as it says.
LEMMA MoveKept ==
    ASSUME StoreInv, TypeOK',
           NEW w \in Workers, job[w] # NoJob, job[w].pc # "again",
           NEW j \in Jobs, j.run = job[w].run, job' = [job EXCEPT ![w] = j],
           UNCHANGED <<clock, rows, cleaner, runs>>, Touches(w, j),
           j.pc \in HasFile \/ j.ok => j.path \in Paths,
           (j.pc \in HasFile \/ VerifiedJob(j)) /\ (\A a, b \in uses'[j.path] : a = b) =>
              /\ files'[j.path] # NoFile /\ files'[j.path].by = j.run
              /\ VerifiedJob(j) => Validated(files'[j.path])
    PROVE  StoreInv'
<1>1. /\ TypeOK /\ PathHeld /\ RunsNumbered /\ UsesCounted /\ RowsHonest /\ TwoCopies
      /\ RowsOfJob /\ PickedDue /\ JobSound /\ RowsSound
  BY DEF StoreInv
<1>2. j # NoJob
  BY JobShape
<1>3. job'[w] = j /\ \A v \in Workers : v # w => job'[v] = job[v]
  BY <1>1 DEF TypeOK
<1>4. Known' = Known
  BY DEF Known
<1>5. runs \in Nat /\ job[w].run <= runs
  BY <1>1, BoundAssumption DEF TypeOK, RunsNumbered
<1>6. \A q \in Paths : uses[q] \subseteq uses'[q]
  BY DEF Touches
<1>7. \A v \in Workers : v # w /\ job[v] # NoJob => job[v].run # job[w].run
  BY <1>1 DEF RunsNumbered
<1>8. \A r \in Known : r.run # job[w].run
  BY NoRowYet
<1>9. PathHeld'
  BY <1>1, <1>3 DEF PathHeld
<1>10. RunsNumbered'
  BY <1>1, <1>2, <1>3, <1>5, <1>7 DEF RunsNumbered
<1>11. UsesCounted'
  <2>1. ASSUME NEW p \in Paths
        PROVE  /\ \A n \in uses'[p] : n <= runs
               /\ files'[p] # NoFile => files'[p].by \in uses'[p]
    <3>1. \A n \in uses'[p] : n <= runs
      BY <1>1, <1>5 DEF UsesCounted, Touches
    <3>2. files'[p] # NoFile => files'[p].by \in uses'[p]
      BY <1>1, <1>6 DEF UsesCounted, Touches
    <3> QED
      BY <3>1, <3>2
  <2>2. ASSUME NEW v \in Workers, job'[v] # NoJob, job'[v].path # NoPath
        PROVE  job'[v].run \in uses'[job'[v].path]
    <3>1. CASE v = w
      BY <1>3, <2>2, <3>1 DEF Touches
    <3>2. CASE v # w
      <4>1. job[v].path \in Paths /\ job[v].run \in uses[job[v].path]
        BY <1>1, <1>3, <2>2, <3>2, InRun DEF UsesCounted
      <4> QED
        BY <1>3, <1>6, <3>2, <4>1
    <3> QED
      BY <3>1, <3>2
  <2>3. ASSUME NEW r \in Known, r.path # NoPath
        PROVE  r.run \in uses'[r.path]
    <3>1. r.path \in Paths /\ r.run \in uses[r.path]
      BY <1>1, <2>3, KnownShape DEF UsesCounted
    <3> QED
      BY <1>6, <3>1
  <2> QED
    BY <1>4, <2>1, <2>2, <2>3 DEF UsesCounted
<1>12. RowsHonest' /\ TwoCopies' /\ PickedDue'
  BY <1>1, <1>4 DEF RowsHonest, TwoCopies, PickedDue
<1>13. RowsOfJob'
  BY <1>1, <1>3, <1>4, <1>8 DEF RowsOfJob
<1>14. JobSound'
  <2> SUFFICES ASSUME NEW v \in Workers, job'[v] # NoJob,
                      job'[v].pc \in HasFile \/ Verified(v)',
                      \A a, b \in uses'[job'[v].path] : a = b
               PROVE  /\ files'[job'[v].path] # NoFile /\ files'[job'[v].path].by = job'[v].run
                      /\ Verified(v)' => Validated(files'[job'[v].path])
    BY DEF JobSound, Alone
  <2>1. CASE v = w
    <3>1. Verified(v)' <=> VerifiedJob(j)
      BY <1>3, <2>1 DEF Verified, VerifiedJob
    <3> QED
      BY <1>3, <2>1, <3>1
  <2>2. CASE v # w
    <3>1. job'[v] = job[v] /\ (Verified(v)' <=> Verified(v))
      BY <1>3, <2>2 DEF Verified
    <3>2. job[v] # NoJob /\ job[v].path \in Paths
      BY <1>1, <3>1 DEF PathHeld, Verified, HasFile
    <3>3. Alone(job[v].path) /\ job[v].run \in uses'[job[v].path]
      BY <1>1, <1>6, <3>1, <3>2, PathNamed DEF Alone, UsesCounted
    <3>4. job[w].run \notin uses'[job[v].path]
      BY <1>7, <2>2, <3>1, <3>2, <3>3
    <3>5. files'[job[v].path] = files[job[v].path]
      BY <3>2, <3>4 DEF Touches
    <3> QED
      BY <1>1, <3>1, <3>2, <3>3, <3>5 DEF JobSound
  <2> QED
    BY <2>1, <2>2
<1>15. RowsSound'
  <2> SUFFICES ASSUME NEW r \in rows, r.ok, Age(r) <= Retention, Alone(r.path)'
               PROVE  /\ files'[r.path] # NoFile /\ files'[r.path].by = r.run
                      /\ Validated(files'[r.path])
    BY DEF RowsSound, Age
  <2>1. r \in Known /\ r.path \in Paths /\ r.run # job[w].run
    BY <1>1, <1>8 DEF Known, RowsHonest
  <2>2. Alone(r.path) /\ r.run \in uses'[r.path]
    BY <1>1, <1>6, <2>1, PathNamed DEF Alone, UsesCounted
  <2>3. job[w].run \notin uses'[r.path]
    BY <2>1, <2>2 DEF Alone
  <2>4. files'[r.path] = files[r.path]
    BY <2>1, <2>3 DEF Touches
  <2> QED
    BY <1>1, <2>2, <2>4 DEF RowsSound
<1> QED
  BY <1>9, <1>10, <1>11, <1>12, <1>13, <1>14, <1>15 DEF StoreInv

-----------------------------------------------------------------------------
(* Types. *)

\* The next job of a run has the shape of a job.
LEMMA NextJobShape ==
    ASSUME TypeOK, NEW w \in Workers, job[w] # NoJob,
           NEW pc \in {"script", "wrote", "measure", "verify", "quota", "persist", "again"},
           NEW ok \in BOOLEAN, NEW path \in Paths \cup {NoPath}, NEW size \in Nat
    PROVE  NextJob(w, pc, ok, path, size) \in Jobs
  BY InRun DEF NextJob, Jobs

LEMMA UnlinkedShape ==
    ASSUME TypeOK, NEW p
    PROVE  Unlinked(p) \in [Paths -> {NoFile} \cup [by : RunIds, what : Contents]]
  BY DEF TypeOK, Unlinked

\* What each step of a worker before the commit leaves of its job.
LEMMA WorkTypes ==
    ASSUME TypeOK, PathHeld, NEW w \in Workers,
           \/ Refused(w) \/ Unreachable(w) \/ Fails(w) \/ ReturnsPath(w) \/ ReturnsNoPath(w)
           \/ Verify(w) \/ Quota(w)
    PROVE  TypeOK'
<1>1. job[w] # NoJob /\ job[w].path \in Paths \cup {NoPath} /\ job[w].size \in Nat
  BY InRun DEF Refused, Unreachable, Fails, ReturnsPath, ReturnsNoPath, Verify, Quota
<1>2. ASSUME NEW pc \in {"wrote", "measure", "verify", "quota", "persist"}, NEW ok \in BOOLEAN,
             NEW path \in Paths \cup {NoPath}, NEW size \in Nat, Become(w, pc, ok, path, size)
      PROVE  job' \in [Workers -> {NoJob} \cup Jobs]
  <2>1. NextJob(w, pc, ok, path, size) \in Jobs
    BY <1>1, NextJobShape
  <2>2. job' = [job EXCEPT ![w] = NextJob(w, pc, ok, path, size)]
    BY <1>2, JobBecomes
  <2> QED
    BY <2>1, <2>2 DEF TypeOK
<1>3. CASE Refused(w) \/ Unreachable(w) \/ Fails(w)
  <2>1. job' \in [Workers -> {NoJob} \cup Jobs]
    BY <1>2, <1>3 DEF Refused, Unreachable, Fails
  <2> QED
    BY <1>3, <2>1 DEF TypeOK, Refused, Unreachable, Fails
<1>4. CASE ReturnsPath(w)
  <2>1. job' \in [Workers -> {NoJob} \cup Jobs]
    BY <1>1, <1>2, <1>4 DEF ReturnsPath
  <2> QED
    BY <1>4, <2>1 DEF TypeOK, ReturnsPath
<1>5. CASE ReturnsNoPath(w)
  <2>1. CASE Become(w, "persist", FALSE, NoPath, 0) /\ UNCHANGED uses
    <3>1. job' \in [Workers -> {NoJob} \cup Jobs]
      BY <1>2, <2>1
    <3> QED
      BY <1>5, <2>1, <3>1 DEF TypeOK, ReturnsNoPath
  <2>2. ASSUME NEW p \in FilesIn(Dir[job[w].dev]), Named(w, p), Become(w, "measure", TRUE, p, 0)
        PROVE  TypeOK'
    <3>1. p \in Paths
      BY DEF FilesIn
    <3>2. job' \in [Workers -> {NoJob} \cup Jobs]
      BY <1>2, <2>2, <3>1
    <3>3. uses' \in [Paths -> SUBSET RunIds]
      BY <1>1, <2>2, <3>1, InRun DEF TypeOK, Named
    <3> QED
      BY <1>5, <3>2, <3>3 DEF TypeOK, ReturnsNoPath
  <2> QED
    BY <1>5, <2>1, <2>2 DEF ReturnsNoPath
<1>6. CASE Verify(w)
  <2>1. Validated(files[job[w].path]) \in BOOLEAN
    BY DEF Validated
  <2>2. job' \in [Workers -> {NoJob} \cup Jobs]
    BY <1>1, <1>2, <1>6, <2>1 DEF Verify
  <2> QED
    BY <1>6, <2>2 DEF TypeOK, Verify
<1>7. CASE Quota(w)
  <2>1. job' \in [Workers -> {NoJob} \cup Jobs]
    BY <1>1, <1>2, <1>7 DEF Quota
  <2>2. files' \in [Paths -> {NoFile} \cup [by : RunIds, what : Contents]]
    <3>1. Unlinked(job[w].path) \in [Paths -> {NoFile} \cup [by : RunIds, what : Contents]]
      BY UnlinkedShape
    <3>2. files' = files \/ files' = Unlinked(job[w].path)
      BY <1>7 DEF Quota
    <3> QED
      BY <3>1, <3>2 DEF TypeOK
  <2> QED
    BY <1>7, <2>1, <2>2 DEF TypeOK, Quota
<1> QED
  BY <1>3, <1>4, <1>5, <1>6, <1>7

LEMMA WriteTypes ==
    ASSUME TypeOK, NEW w \in Workers, NEW c \in Contents, Writes(w, c)
    PROVE  TypeOK' /\ Here(job[w].dev) \in Paths
<1> DEFINE p == Here(job[w].dev)
<1>1. job[w] # NoJob /\ job[w].run \in RunIds /\ job[w].dev \in Devices
  BY InRun DEF Writes
<1>2. p \in Paths
  BY <1>1 DEF Here, Paths, TypeOK
<1>3. job' = [job EXCEPT ![w] = NextJob(w, "wrote", FALSE, p, 0)]
  <2>1. Become(w, "wrote", FALSE, p, 0)
    BY DEF Writes
  <2> QED
    BY <2>1 DEF Become, NextJob
<1>4. NextJob(w, "wrote", FALSE, p, 0) \in Jobs
  BY <1>1, <1>2, NextJobShape
<1>5. job' \in [Workers -> {NoJob} \cup Jobs]
  BY <1>3, <1>4 DEF TypeOK
<1>6. files' \in [Paths -> {NoFile} \cup [by : RunIds, what : Contents]]
  BY <1>1, <1>2 DEF Writes, TypeOK
<1>7. uses' \in [Paths -> SUBSET RunIds]
  BY <1>1, <1>2 DEF Writes, Named, TypeOK
<1> HIDE DEF p
<1>8. TypeOK'
  BY <1>5, <1>6, <1>7 DEF Writes, TypeOK
<1> QED
  BY <1>2, <1>8 DEF p

LEMMA MeasureTypes ==
    ASSUME TypeOK, PathHeld, NEW w \in Workers, Measure(w)
    PROVE  TypeOK'
<1>1. job[w] # NoJob /\ job[w].path \in Paths
  BY InRun DEF Measure, PathHeld, HasFile
<1>2. ASSUME NEW size \in Nat, Become(w, "verify", TRUE, job[w].path, size)
      PROVE  job' \in [Workers -> {NoJob} \cup Jobs]
  <2>1. NextJob(w, "verify", TRUE, job[w].path, size) \in Jobs
    BY <1>1, NextJobShape
  <2>2. job' = [job EXCEPT ![w] = NextJob(w, "verify", TRUE, job[w].path, size)]
    BY <1>2, JobBecomes
  <2> QED
    BY <2>1, <2>2 DEF TypeOK
<1>3. files[job[w].path] # NoFile => files[job[w].path].what.size \in Nat
  BY <1>1, FileShape, ContentShape
<1>4. CASE job' = [job EXCEPT ![w] = NoJob]
  BY <1>4 DEF Measure, TypeOK
<1>5. CASE job' # [job EXCEPT ![w] = NoJob]
  <2>1. job' \in [Workers -> {NoJob} \cup Jobs]
    BY <1>2, <1>3, <1>5 DEF Measure
  <2> QED
    BY <2>1 DEF Measure, TypeOK
<1> QED
  BY <1>4, <1>5

-----------------------------------------------------------------------------
(* The worker's steps before the commit, one by one. *)

\* A step that leaves the files alone and gives a run nothing it did not have.
LEMMA QuietKept ==
    ASSUME StoreInv, TypeOK',
           NEW w \in Workers, job[w] # NoJob, job[w].pc # "again",
           NEW pc \in {"measure", "verify", "quota", "persist"}, NEW ok \in BOOLEAN,
           NEW path, NEW size \in Nat, Become(w, pc, ok, path, size),
           UNCHANGED <<clock, files, rows, cleaner, runs, uses>>,
           \/ pc = "persist" /\ ~ok /\ path = NoPath
           \/ job[w].pc \in HasFile /\ path = job[w].path,
           VerifiedJob(NextJob(w, pc, ok, path, size)) => Verified(w) \/ Validated(files[path])
    PROVE  StoreInv'
<1> DEFINE j == NextJob(w, pc, ok, path, size)
<1>1. job' = [job EXCEPT ![w] = j]
  BY JobBecomes
<1>2. j.run = job[w].run /\ j.pc = pc /\ j.ok = ok /\ j.path = path
  BY DEF NextJob
<1>3. path \in Paths \cup {NoPath} /\ (job[w].pc \in HasFile => job[w].path \in Paths)
  BY DEF StoreInv, PathHeld
<1>4. j \in Jobs
  BY <1>3, NextJobShape DEF StoreInv
<1>5. Touches(w, j)
  BY <1>2 DEF Touches, StoreInv, UsesCounted
<1>6. j.pc \in HasFile \/ j.ok => j.path \in Paths
  BY <1>2, <1>3 DEF HasFile
<1>7. ASSUME j.pc \in HasFile \/ VerifiedJob(j), \A a, b \in uses'[j.path] : a = b
      PROVE  /\ files'[j.path] # NoFile /\ files'[j.path].by = j.run
             /\ VerifiedJob(j) => Validated(files'[j.path])
  <2>1. job[w].pc \in HasFile /\ path = job[w].path
    BY <1>2, <1>7 DEF VerifiedJob, HasFile
  <2>2. Alone(job[w].path)
    BY <1>2, <1>7, <2>1 DEF Alone
  <2> QED
    BY <1>2, <2>1, <2>2 DEF StoreInv, JobSound
<1> HIDE DEF j
<1> QED
  BY <1>1, <1>2, <1>4, <1>5, <1>6, <1>7, MoveKept

LEMMA RefusedKept ==
    ASSUME StoreInv, NEW w \in Workers, Refused(w) \/ Unreachable(w) \/ Fails(w)
    PROVE  StoreInv'
<1>1. TypeOK'
  BY WorkTypes DEF StoreInv
<1>2. job[w] # NoJob /\ job[w].pc # "again"
  BY InRun DEF StoreInv, Refused, Unreachable, Fails
<1>3. /\ Become(w, "persist", FALSE, NoPath, 0)
      /\ UNCHANGED <<clock, files, rows, cleaner, runs, uses>>
  BY DEF Refused, Unreachable, Fails
<1>4. ~VerifiedJob(NextJob(w, "persist", FALSE, NoPath, 0))
  BY DEF VerifiedJob, NextJob
<1> QED
  BY <1>1, <1>2, <1>3, <1>4, QuietKept

LEMMA ReturnsPathKept ==
    ASSUME StoreInv, NEW w \in Workers, ReturnsPath(w)
    PROVE  StoreInv'
<1>1. TypeOK'
  BY WorkTypes DEF StoreInv
<1>2. job[w] # NoJob /\ job[w].pc # "again" /\ job[w].pc \in HasFile
  BY InRun DEF StoreInv, ReturnsPath, HasFile
<1>3. /\ Become(w, "measure", TRUE, job[w].path, 0)
      /\ UNCHANGED <<clock, files, rows, cleaner, runs, uses>>
  BY DEF ReturnsPath
<1>4. ~VerifiedJob(NextJob(w, "measure", TRUE, job[w].path, 0))
  BY DEF VerifiedJob, NextJob
<1> QED
  BY <1>1, <1>2, <1>3, <1>4, QuietKept

LEMMA VerifyKept ==
    ASSUME StoreInv, NEW w \in Workers, Verify(w)
    PROVE  StoreInv'
<1> DEFINE good == Validated(files[job[w].path])
           pc == IF good THEN "quota" ELSE "persist"
<1>1. TypeOK'
  BY WorkTypes DEF StoreInv
<1>2. /\ job[w] # NoJob /\ job[w].pc # "again" /\ job[w].pc \in HasFile
      /\ job[w].size \in Nat
  BY InRun DEF StoreInv, Verify, HasFile
<1>3. /\ Become(w, pc, good, job[w].path, job[w].size)
      /\ UNCHANGED <<clock, files, rows, cleaner, runs, uses>>
  BY DEF Verify
<1>4. good \in BOOLEAN /\ pc \in {"measure", "verify", "quota", "persist"}
  BY DEF Validated
<1>5. VerifiedJob(NextJob(w, pc, good, job[w].path, job[w].size)) => good
  BY DEF VerifiedJob, NextJob
<1> HIDE DEF pc
<1> QED
  BY <1>1, <1>2, <1>3, <1>4, <1>5, QuietKept

LEMMA WritesKept ==
    ASSUME StoreInv, NEW w \in Workers, NEW c \in Contents, Writes(w, c)
    PROVE  StoreInv'
<1> DEFINE p == Here(job[w].dev)
           j == NextJob(w, "wrote", FALSE, p, 0)
<1>1. TypeOK' /\ p \in Paths
  BY WriteTypes DEF StoreInv
<1>2. job[w] # NoJob /\ job[w].pc # "again"
  BY InRun DEF StoreInv, Writes
<1>3. /\ files' = [files EXCEPT ![p] = [by |-> job[w].run, what |-> c]]
      /\ uses' = [uses EXCEPT ![p] = @ \cup {job[w].run}]
      /\ UNCHANGED <<clock, rows, cleaner, runs>>
  BY DEF Writes, Named
<1>4. job' = [job EXCEPT ![w] = j]
  BY DEF Writes, Become, NextJob
<1>5. j \in Jobs
  BY <1>1, <1>2, NextJobShape DEF StoreInv
<1>6. j.run = job[w].run /\ j.pc = "wrote" /\ j.path = p /\ ~j.ok /\ ~VerifiedJob(j)
  BY DEF NextJob, VerifiedJob
<1>7. files'[p] # NoFile /\ files'[p].by = job[w].run /\ job[w].run \in uses'[p]
  <2>1. job[w].run # 0
    BY <1>2, InRun, BoundAssumption DEF StoreInv, RunIds
  <2> QED
    BY <1>1, <1>3, <2>1 DEF StoreInv, TypeOK, NoFile
<1>8. \A q \in Paths : q # p => files'[q] = files[q] /\ uses'[q] = uses[q]
  BY <1>1, <1>3 DEF StoreInv, TypeOK
<1>9. uses'[p] = uses[p] \cup {job[w].run}
  BY <1>1, <1>3 DEF StoreInv, TypeOK
<1> HIDE DEF p, j
<1>10. Touches(w, j)
  BY <1>6, <1>7, <1>8, <1>9 DEF Touches
<1> QED
  BY <1>1, <1>2, <1>3, <1>4, <1>5, <1>6, <1>7, <1>10, MoveKept

\* The newest file becomes the run's: it is sound if no other run wrote it.
LEMMA ReturnsNoPathKept ==
    ASSUME StoreInv, NEW w \in Workers, ReturnsNoPath(w)
    PROVE  StoreInv'
<1>1. TypeOK'
  BY WorkTypes DEF StoreInv
<1>2. job[w] # NoJob /\ job[w].pc # "again" /\ UNCHANGED <<clock, files, rows, cleaner, runs>>
  BY InRun DEF StoreInv, ReturnsNoPath
<1>3. CASE Become(w, "persist", FALSE, NoPath, 0) /\ UNCHANGED uses
  <2>1. ~VerifiedJob(NextJob(w, "persist", FALSE, NoPath, 0))
    BY DEF VerifiedJob, NextJob
  <2> QED
    BY <1>1, <1>2, <1>3, <2>1, QuietKept
<1>4. ASSUME NEW p \in FilesIn(Dir[job[w].dev]), Named(w, p), Become(w, "measure", TRUE, p, 0)
      PROVE  StoreInv'
  <2> DEFINE j == NextJob(w, "measure", TRUE, p, 0)
  <2>1. p \in Paths /\ files[p] # NoFile
    BY DEF FilesIn
  <2>2. job' = [job EXCEPT ![w] = j]
    BY <1>4 DEF Become, NextJob
  <2>3. j \in Jobs
    BY <1>2, <2>1, NextJobShape DEF StoreInv
  <2>4. j.run = job[w].run /\ j.pc = "measure" /\ j.path = p /\ ~VerifiedJob(j)
    BY DEF NextJob, VerifiedJob
  <2>5. /\ uses'[p] = uses[p] \cup {job[w].run}
        /\ \A q \in Paths : q # p => uses'[q] = uses[q]
    BY <1>4, <2>1 DEF Named, StoreInv, TypeOK
  <2> HIDE DEF j
  <2>6. Touches(w, j)
    BY <1>2, <2>1, <2>4, <2>5 DEF Touches
  <2>7. ASSUME \A a, b \in uses'[p] : a = b
        PROVE  files'[p] # NoFile /\ files'[p].by = job[w].run
    <3>1. files[p].by \in uses[p]
      BY <2>1 DEF StoreInv, UsesCounted
    <3> QED
      BY <1>2, <2>1, <2>5, <2>7, <3>1
  <2> QED
    BY <1>1, <1>2, <2>1, <2>2, <2>3, <2>4, <2>6, <2>7, MoveKept
<1> QED
  BY <1>3, <1>4 DEF ReturnsNoPath

\* Over the quota the run takes only its own file away.
LEMMA QuotaKept ==
    ASSUME StoreInv, NEW w \in Workers, Quota(w)
    PROVE  StoreInv'
<1>1. TypeOK'
  BY WorkTypes DEF StoreInv
<1>2. /\ job[w] # NoJob /\ job[w].pc # "again" /\ job[w].pc \in HasFile /\ Verified(w)
      /\ job[w].size \in Nat
      /\ UNCHANGED <<clock, rows, cleaner, runs, uses>>
  BY InRun DEF StoreInv, Quota, HasFile, Verified
<1>3. job[w].path \in Paths /\ job[w].run \in uses[job[w].path]
  BY <1>2, PathNamed DEF StoreInv, PathHeld, UsesCounted
<1>4. CASE Become(w, "persist", TRUE, job[w].path, job[w].size) /\ UNCHANGED files
  BY <1>1, <1>2, <1>4, QuietKept
<1>5. CASE /\ files' \in {files, Unlinked(job[w].path)}
           /\ Become(w, "persist", FALSE, NoPath, 0)
  <2> DEFINE j == NextJob(w, "persist", FALSE, NoPath, 0)
  <2>1. job' = [job EXCEPT ![w] = j]
    BY <1>5 DEF Become, NextJob
  <2>2. j \in Jobs
    BY <1>2, NextJobShape DEF StoreInv
  <2>3. j.run = job[w].run /\ j.pc = "persist" /\ j.path = NoPath /\ ~j.ok /\ ~VerifiedJob(j)
    BY DEF NextJob, VerifiedJob
  <2>4. \A q \in Paths : files'[q] # files[q] => q = job[w].path /\ files'[q] = NoFile
    BY <1>3, <1>5 DEF Unlinked, StoreInv, TypeOK
  <2> HIDE DEF j
  <2>5. Touches(w, j)
    BY <1>2, <1>3, <2>3, <2>4 DEF Touches
  <2>6. j.pc \notin HasFile
    BY <2>3 DEF HasFile
  <2> QED
    BY <1>1, <1>2, <2>1, <2>2, <2>3, <2>5, <2>6, MoveKept
<1> QED
  BY <1>4, <1>5 DEF Quota

-----------------------------------------------------------------------------
(* The end of a run, and its rows. *)

\* What a worker that has got to the commit leaves behind, in the table and of
\* its job: a row or none, and no run or one that commits again.
LEMMA CommitKept ==
    ASSUME StoreInv, TypeOK', NEW w \in Workers, job[w] # NoJob, NEW j,
           job' = [job EXCEPT ![w] = j],
           UNCHANGED <<clock, files, cleaner, runs, uses>>,
           \/ rows' = rows
           \/ job[w].pc \in {"persist", "again"} /\ \E copy \in 1 .. 2 : rows' = rows \cup {Row(w, copy)},
           \/ j = NoJob
           \/ /\ job[w].pc = "persist" /\ j \in Jobs /\ j.pc = "again"
              /\ j.run = job[w].run /\ j.ok = job[w].ok /\ j.path = job[w].path
    PROVE  StoreInv'
<1>1. /\ TypeOK /\ PathHeld /\ RunsNumbered /\ UsesCounted /\ RowsHonest /\ TwoCopies
      /\ RowsOfJob /\ PickedDue /\ JobSound /\ RowsSound
  BY DEF StoreInv
<1>2. job'[w] = j /\ \A v \in Workers : v # w => job'[v] = job[v]
  BY <1>1 DEF TypeOK
<1>3. \A v \in Workers : job'[v] # NoJob =>
        /\ job[v] # NoJob /\ job'[v].run = job[v].run
        /\ job'[v].ok = job[v].ok /\ job'[v].path = job[v].path
        /\ job'[v].pc = job[v].pc \/ (job[v].pc = "persist" /\ job'[v].pc = "again")
  BY <1>2
<1>4. \A r \in Known' : \/ r \in Known
                        \/ /\ job[w].pc \in {"persist", "again"}
                           /\ r.run = job[w].run /\ r.ok = job[w].ok /\ r.path = job[w].path
                           /\ r.at = clock /\ r \in rows'
  <2>1. ASSUME NEW copy
        PROVE  LET r == Row(w, copy) IN
               /\ r.run = job[w].run /\ r.ok = job[w].ok /\ r.path = job[w].path /\ r.at = clock
    BY DEF Row
  <2> QED
    BY <2>1 DEF Known
<1>5. \A r \in Known : r.run = job[w].run =>
         /\ job[w].pc = "again" /\ r.ok = job[w].ok /\ r.path = job[w].path /\ r.at = clock
  BY <1>1 DEF RowsOfJob
<1>6. job[w].pc \in {"persist", "again"} /\ job[w].ok => job[w].path \in Paths
  BY <1>1 DEF PathHeld
<1>7. PathHeld'
  BY <1>1, <1>3 DEF PathHeld, HasFile
<1>8. RunsNumbered'
  BY <1>1, <1>3 DEF RunsNumbered
<1>9. UsesCounted'
  <2>1. \A r \in Known' : r.path # NoPath => r.run \in uses[r.path]
    BY <1>1, <1>4 DEF UsesCounted
  <2> QED
    BY <1>1, <1>3, <2>1 DEF UsesCounted
<1>10. RowsHonest'
  BY <1>1, <1>4, <1>6 DEF RowsHonest, RunsNumbered
<1>11. TwoCopies'
  BY <1>1, <1>4, <1>5 DEF TwoCopies
<1>12. RowsOfJob'
  <2> SUFFICES ASSUME NEW v \in Workers, NEW r \in Known', job'[v] # NoJob, r.run = job'[v].run
               PROVE  /\ job'[v].pc = "again"
                      /\ r.ok = job'[v].ok /\ r.path = job'[v].path /\ r.at = clock
    BY DEF RowsOfJob
  <2>1. CASE r \in Known
    BY <1>1, <1>3, <2>1 DEF RowsOfJob
  <2>2. CASE r \notin Known
    <3>1. r.run = job[w].run /\ r.ok = job[w].ok /\ r.path = job[w].path /\ r.at = clock
      BY <1>4, <2>2
    <3>2. v = w
      BY <1>1, <1>3, <3>1 DEF RunsNumbered
    <3>3. j # NoJob
      BY <1>2, <3>2
    <3> QED
      BY <1>2, <1>3, <3>1, <3>2, <3>3
  <2> QED
    BY <2>1, <2>2
<1>13. PickedDue'
  BY <1>1 DEF PickedDue
<1>14. JobSound'
  BY <1>1, <1>3 DEF JobSound, Alone, Verified, HasFile, Validated
<1>15. RowsSound'
  <2> SUFFICES ASSUME NEW r \in rows', r.ok, clock - r.at <= Retention, Alone(r.path)
               PROVE  /\ files[r.path] # NoFile /\ files[r.path].by = r.run
                      /\ Validated(files[r.path])
    BY DEF RowsSound, Age, Alone, Validated
  <2>1. CASE r \in rows
    BY <1>1, <2>1 DEF RowsSound, Age
  <2>2. CASE r \notin rows
    <3>1. /\ job[w].pc \in {"persist", "again"}
          /\ r.run = job[w].run /\ r.ok = job[w].ok /\ r.path = job[w].path
      <4>1. PICK copy \in 1 .. 2 : rows' = rows \cup {Row(w, copy)}
        BY <2>2
      <4>2. r = Row(w, copy) /\ job[w].pc \in {"persist", "again"}
        BY <2>2, <4>1
      <4> QED
        BY <4>2 DEF Row
    <3>2. Verified(w)
      BY <3>1 DEF Verified
    <3> QED
      BY <1>1, <3>1, <3>2 DEF JobSound
  <2> QED
    BY <2>1, <2>2
<1> QED
  BY <1>7, <1>8, <1>9, <1>10, <1>11, <1>12, <1>13, <1>14, <1>15 DEF StoreInv

\* A row has the shape of a row.
LEMMA RowShape ==
    ASSUME TypeOK, NEW w \in Workers, job[w] # NoJob, NEW copy \in 1 .. 2
    PROVE  Row(w, copy) \in Rows
<1>1. clock \in 0 .. MaxClock
  BY DEF TypeOK
<1> QED
  BY <1>1, InRun DEF Row, Rows

LEMMA MeasureKept ==
    ASSUME StoreInv, NEW w \in Workers, Measure(w)
    PROVE  StoreInv'
<1>1. TypeOK'
  BY MeasureTypes DEF StoreInv
<1>2. /\ job[w] # NoJob /\ job[w].pc # "again" /\ job[w].pc \in HasFile
      /\ job[w].path \in Paths /\ UNCHANGED <<clock, files, rows, cleaner, runs, uses>>
  BY InRun DEF StoreInv, Measure, HasFile, PathHeld
<1>3. CASE job' = [job EXCEPT ![w] = NoJob]
  BY <1>1, <1>2, <1>3, CommitKept
<1>4. ASSUME NEW size \in Nat, Become(w, "verify", TRUE, job[w].path, size) PROVE StoreInv'
  <2>1. ~VerifiedJob(NextJob(w, "verify", TRUE, job[w].path, size))
    BY DEF VerifiedJob, NextJob
  <2> QED
    BY <1>1, <1>2, <1>4, <2>1, QuietKept
<1>5. files[job[w].path] # NoFile => files[job[w].path].what.size \in Nat
  BY <1>2, FileShape, ContentShape DEF StoreInv
<1> QED
  BY <1>3, <1>4, <1>5 DEF Measure

LEMMA PersistKept ==
    ASSUME StoreInv, NEW w \in Workers, Persist(w)
    PROVE  StoreInv'
<1>1. /\ job[w] # NoJob /\ job' = [job EXCEPT ![w] = NoJob]
      /\ UNCHANGED <<clock, files, active, cleaner, runs, uses, crashes>>
  BY InRun DEF StoreInv, Persist
<1>2. PICK copy \in 1 .. 2 : rows' = rows \cup {Row(w, copy)}
  BY DEF Persist, Recorded
<1>3. Row(w, copy) \in Rows
  BY <1>1, RowShape DEF StoreInv
<1>4. TypeOK'
  BY <1>1, <1>2, <1>3 DEF StoreInv, TypeOK
<1>5. job[w].pc \in {"persist", "again"}
  BY DEF Persist
<1> QED
  BY <1>1, <1>2, <1>4, <1>5, CommitKept

LEMMA PersistDropsKept ==
    ASSUME StoreInv, NEW w \in Workers, PersistDrops(w)
    PROVE  StoreInv'
<1> DEFINE j == NextJob(w, "again", job[w].ok, job[w].path, job[w].size)
<1>1. /\ job[w] # NoJob /\ job[w].pc = "persist"
      /\ job[w].ok \in BOOLEAN /\ job[w].path \in Paths \cup {NoPath} /\ job[w].size \in Nat
      /\ UNCHANGED <<clock, files, active, cleaner, runs, uses>>
  BY InRun DEF StoreInv, PersistDrops
<1>2. j \in Jobs /\ j.pc = "again" /\ j.run = job[w].run /\ j.ok = job[w].ok /\ j.path = job[w].path
  BY <1>1, NextJobShape DEF StoreInv, NextJob
<1>3. job' = [job EXCEPT ![w] = j]
  <2>1. job' = [job EXCEPT ![w] = [job[w] EXCEPT !.pc = "again"]]
    BY DEF PersistDrops
  <2>2. job[w] \in Jobs
    BY <1>1, InRun DEF StoreInv
  <2>3. [job[w] EXCEPT !.pc = "again"] = j
    BY <2>2 DEF NextJob, Jobs
  <2> QED
    BY <2>1, <2>3
<1> HIDE DEF j
<1>4. rows' = rows \/ rows' = rows \cup {Row(w, 1)}
  BY DEF PersistDrops, Recorded
<1>5. Row(w, 1) \in Rows
  BY <1>1, RowShape DEF StoreInv
<1>6. TypeOK'
  <2>1. crashes' \in 0 .. MaxCrashes
    BY BoundAssumption DEF StoreInv, TypeOK, PersistDrops
  <2> QED
    BY <1>1, <1>2, <1>3, <1>4, <1>5, <2>1 DEF StoreInv, TypeOK
<1>7. \/ rows' = rows
      \/ job[w].pc \in {"persist", "again"} /\ \E copy \in 1 .. 2 : rows' = rows \cup {Row(w, copy)}
  BY <1>1, <1>4
<1> QED
  BY <1>1, <1>2, <1>3, <1>6, <1>7, CommitKept

LEMMA LostKept ==
    ASSUME StoreInv, NEW w \in Workers, Lost(w)
    PROVE  StoreInv'
<1>1. crashes' \in 0 .. MaxCrashes
  BY BoundAssumption DEF StoreInv, TypeOK, Lost
<1>2. TypeOK'
  BY <1>1 DEF StoreInv, TypeOK, Lost
<1> QED
  BY <1>2, CommitKept DEF Lost

LEMMA StartKept ==
    ASSUME StoreInv, NEW w \in Workers, NEW d \in Devices, Start(w, d)
    PROVE  StoreInv'
<1> DEFINE j == [pc |-> "script", run |-> runs + 1, dev |-> d, ok |-> FALSE, path |-> NoPath, size |-> 0]
<1>1. /\ TypeOK /\ PathHeld /\ RunsNumbered /\ UsesCounted /\ RowsHonest /\ TwoCopies
      /\ RowsOfJob /\ PickedDue /\ JobSound /\ RowsSound
  BY DEF StoreInv
<1>2. runs \in Nat /\ runs + 1 \in RunIds /\ runs + 1 \in 0 .. MaxRuns /\ runs' = runs + 1
  BY <1>1, BoundAssumption DEF Start, TypeOK, RunIds
<1>3. job' = [job EXCEPT ![w] = j] /\ UNCHANGED <<clock, files, rows, active, cleaner, uses, crashes>>
  BY DEF Start
<1>4. /\ j \in Jobs /\ j # NoJob /\ j.run = runs + 1 /\ ~j.ok /\ j.path = NoPath
      /\ j.pc = "script" /\ j.pc \notin HasFile
  BY <1>2, JobShape DEF Jobs, HasFile
<1> HIDE DEF j
<1>5. TypeOK'
  BY <1>1, <1>2, <1>3, <1>4 DEF TypeOK
<1>6. job'[w] = j /\ \A v \in Workers : v # w => job'[v] = job[v]
  BY <1>1, <1>3 DEF TypeOK
<1>7. Known' = Known
  BY <1>3 DEF Known
<1>8. \A v \in Workers : job[v] # NoJob => job[v].run \in Nat /\ job[v].run <= runs
  BY <1>1, InRun, BoundAssumption DEF RunsNumbered, RunIds
<1>9. \A r \in Known : r.run \in Nat /\ r.run <= runs
  BY <1>1, KnownShape, BoundAssumption DEF RowsHonest, RunIds
<1>10. PathHeld'
  BY <1>1, <1>4, <1>6 DEF PathHeld
<1>11. RunsNumbered'
  BY <1>2, <1>4, <1>6, <1>8, <1>1 DEF RunsNumbered
<1>12. UsesCounted'
  <2>1. \A p \in Paths : \A n \in uses[p] : n \in Nat /\ n <= runs
    BY <1>1, BoundAssumption DEF UsesCounted, TypeOK, RunIds
  <2>2. \A p \in Paths : \A n \in uses[p] : n <= runs'
    BY <1>2, <2>1
  <2> QED
    BY <1>1, <1>3, <1>4, <1>6, <1>7, <2>2 DEF UsesCounted
<1>13. RowsHonest'
  <2>1. \A r \in Known : r.run <= runs'
    BY <1>2, <1>9
  <2> QED
    BY <1>1, <1>7, <2>1 DEF RowsHonest
<1>14. TwoCopies' /\ PickedDue'
  BY <1>1, <1>3, <1>7 DEF TwoCopies, PickedDue
<1>15. RowsOfJob'
  <2>1. \A r \in Known : r.run # runs + 1
    BY <1>2, <1>9
  <2> QED
    BY <1>1, <1>3, <1>4, <1>6, <1>7, <2>1 DEF RowsOfJob
<1>16. JobSound'
  BY <1>1, <1>3, <1>4, <1>6 DEF JobSound, Alone, Verified, Validated
<1>17. RowsSound'
  BY <1>1, <1>3 DEF RowsSound, Age, Alone, Validated
<1> QED
  BY <1>5, <1>10, <1>11, <1>12, <1>13, <1>14, <1>15, <1>16, <1>17 DEF StoreInv

-----------------------------------------------------------------------------
(* Removal, the web interface and time. *)

\* Why a cleaner may take a row: the manual and the daily cleaning of failed
\* rows take no success, the purge no row that retention still keeps.
LEMMA DueIsDue ==
    ASSUME NEW k \in Removals
    PROVE  Due(k) \subseteq rows /\ \A r \in Due(k) : ~r.ok \/ clock - r.at > Retention
<1>1. CASE k = "purge_expired"
  BY <1>1 DEF Due, Age
<1>2. CASE k = "purge_failed"
  BY <1>2 DEF Due, Age
<1>3. CASE k = "clear_failed"
  BY <1>3 DEF Due, Age
<1> QED
  BY <1>1, <1>2, <1>3 DEF Removals

\* A step that only takes rows away, or gives cleaners rows that are due.
LEMMA CleaningKept ==
    ASSUME StoreInv, TypeOK', UNCHANGED <<clock, files, job, runs, uses>>,
           rows' \subseteq rows, Known' \subseteq Known, PickedDue'
    PROVE  StoreInv'
<1>1. /\ TypeOK /\ PathHeld /\ RunsNumbered /\ UsesCounted /\ RowsHonest /\ TwoCopies
      /\ RowsOfJob /\ PickedDue /\ JobSound /\ RowsSound
  BY DEF StoreInv
<1>2. PathHeld' /\ RunsNumbered'
  BY <1>1 DEF PathHeld, RunsNumbered
<1>3. UsesCounted' /\ RowsHonest' /\ TwoCopies'
  BY <1>1 DEF UsesCounted, RowsHonest, TwoCopies
<1>4. RowsOfJob'
  BY <1>1 DEF RowsOfJob
<1>5. JobSound' /\ RowsSound'
  BY <1>1 DEF JobSound, RowsSound, Alone, Verified, Validated, Age
<1> QED
  BY <1>2, <1>3, <1>4, <1>5 DEF StoreInv

CleanerShape == [pc : {"idle", "busy"}, picked : SUBSET Rows, left : SUBSET Rows]

LEMMA PickKept ==
    ASSUME StoreInv, NEW c \in Cleaners, NEW k \in Removals, Pick(c, k)
    PROVE  StoreInv'
<1> DEFINE new == [pc |-> "busy", picked |-> Due(k), left |-> Due(k)]
<1>1. /\ cleaner' = [cleaner EXCEPT ![c] = new]
      /\ UNCHANGED <<clock, files, rows, active, job, runs, uses, crashes>>
  BY DEF Pick
<1>2. Due(k) \subseteq rows /\ \A r \in Due(k) : ~r.ok \/ clock - r.at > Retention
  BY DueIsDue
<1>3. new.picked = Due(k) /\ new.left = Due(k) /\ new \in CleanerShape
  BY <1>2 DEF CleanerShape, StoreInv, TypeOK
<1> HIDE DEF new
<1>4. TypeOK'
  BY <1>1, <1>3 DEF StoreInv, TypeOK, CleanerShape
<1>5. cleaner'[c] = new /\ \A b \in Cleaners : b # c => cleaner'[b] = cleaner[b]
  BY <1>1 DEF StoreInv, TypeOK
<1>6. PickedDue'
  BY <1>1, <1>2, <1>3, <1>5 DEF StoreInv, PickedDue
<1>7. Known' \subseteq Known
  BY <1>1, <1>2, <1>3, <1>5 DEF Known
<1> QED
  BY <1>1, <1>4, <1>6, <1>7, CleaningKept

\* A cleaner that ends, with its commit or without.
LEMMA RestKept ==
    ASSUME StoreInv, NEW c \in Cleaners, CommitRemoval(c) \/ CleanerDies(c)
    PROVE  StoreInv'
<1>1. /\ cleaner' = [cleaner EXCEPT ![c] = Rest] /\ rows' \subseteq rows
      /\ UNCHANGED <<clock, files, active, job, runs, uses>>
  BY DEF CommitRemoval, CleanerDies
<1>2. Rest.picked = {} /\ Rest.left = {} /\ Rest \in CleanerShape
  BY DEF Rest, CleanerShape
<1>3. crashes' \in 0 .. MaxCrashes
  BY BoundAssumption DEF StoreInv, TypeOK, CommitRemoval, CleanerDies
<1>4. TypeOK'
  BY <1>1, <1>2, <1>3 DEF StoreInv, TypeOK, CleanerShape
<1>5. cleaner'[c] = Rest /\ \A b \in Cleaners : b # c => cleaner'[b] = cleaner[b]
  BY <1>1 DEF StoreInv, TypeOK
<1>6. PickedDue'
  BY <1>1, <1>2, <1>5 DEF StoreInv, PickedDue
<1>7. Known' \subseteq Known
  BY <1>1, <1>2, <1>5 DEF Known
<1> QED
  BY <1>1, <1>4, <1>6, <1>7, CleaningKept

\* The file of a picked row goes.  If it is the file of a row that retention
\* keeps, or of a run under way, then another run has the path, too.
LEMMA RemoveFileKept ==
    ASSUME StoreInv, NEW c \in Cleaners, RemoveFile(c)
    PROVE  StoreInv'
<1>1. /\ TypeOK /\ PathHeld /\ RunsNumbered /\ UsesCounted /\ RowsHonest /\ TwoCopies
      /\ RowsOfJob /\ PickedDue /\ JobSound /\ RowsSound
  BY DEF StoreInv
<1>2. PICK r \in cleaner[c].left :
         /\ cleaner' = [cleaner EXCEPT ![c].left = @ \ {r}]
         /\ files' \in IF r.path = NoPath THEN {files} ELSE {files, Unlinked(r.path)}
         /\ UNCHANGED <<clock, rows, active, job, runs, uses, crashes>>
  BY DEF RemoveFile
<1>3. r \in cleaner[c].picked /\ r \in Known /\ (~r.ok \/ clock - r.at > Retention)
  BY <1>1 DEF PickedDue, Known
<1>4. PICK old \in CleanerShape : old = cleaner[c]
  BY <1>1 DEF TypeOK, CleanerShape
<1> DEFINE new == [pc |-> old.pc, picked |-> old.picked, left |-> old.left \ {r}]
<1>5. cleaner' = [cleaner EXCEPT ![c] = new]
  <2>1. cleaner' = [cleaner EXCEPT ![c] = [cleaner[c] EXCEPT !.left = cleaner[c].left \ {r}]]
    BY <1>2
  <2>2. [old EXCEPT !.left = old.left \ {r}] = new
    BY DEF CleanerShape
  <2> QED
    BY <1>4, <2>1, <2>2
<1>6. new \in CleanerShape /\ new.picked = cleaner[c].picked /\ new.left \subseteq cleaner[c].left
  BY <1>4 DEF CleanerShape
<1> HIDE DEF new
<1>7. cleaner'[c] = new /\ \A b \in Cleaners : b # c => cleaner'[b] = cleaner[b]
  BY <1>1, <1>5 DEF TypeOK
<1>8. files' \in [Paths -> {NoFile} \cup [by : RunIds, what : Contents]]
  <2>1. Unlinked(r.path) \in [Paths -> {NoFile} \cup [by : RunIds, what : Contents]]
    BY <1>1, UnlinkedShape
  <2>2. files' = files \/ files' = Unlinked(r.path)
    BY <1>2
  <2> QED
    BY <1>1, <2>1, <2>2 DEF TypeOK
<1>9. TypeOK'
  BY <1>1, <1>2, <1>5, <1>6, <1>8 DEF TypeOK, CleanerShape
<1>10. \A q \in Paths : files'[q] # files[q] => q = r.path /\ files'[q] = NoFile
  BY <1>1, <1>2 DEF Unlinked, TypeOK
<1>11. Known' = Known
  BY <1>2, <1>6, <1>7 DEF Known
<1>12. PickedDue'
  BY <1>1, <1>2, <1>6, <1>7 DEF PickedDue
<1>13. PathHeld' /\ RunsNumbered' /\ RowsHonest' /\ TwoCopies' /\ RowsOfJob'
  BY <1>1, <1>2, <1>11 DEF PathHeld, RunsNumbered, RowsHonest, TwoCopies, RowsOfJob
<1>14. UsesCounted'
  BY <1>1, <1>2, <1>10, <1>11 DEF UsesCounted
<1>15. clock \in Int /\ r.at \in Int /\ Retention \in Nat
  BY <1>1, <1>3, KnownShape, BoundAssumption, AgeAssumption DEF TypeOK
<1>16. r.path # NoPath => r.run \in uses[r.path]
  BY <1>1, <1>3 DEF UsesCounted
<1>17. JobSound'
  <2> SUFFICES ASSUME NEW v \in Workers, job[v] # NoJob, job[v].pc \in HasFile \/ Verified(v),
                      Alone(job[v].path)
               PROVE  /\ files'[job[v].path] # NoFile /\ files'[job[v].path].by = job[v].run
                      /\ Verified(v) => Validated(files'[job[v].path])
    BY <1>2 DEF JobSound, Alone, Verified, Validated
  <2>1. job[v].path \in Paths
    BY <1>1 DEF PathHeld, Verified, HasFile
  <2>2. job[v].run \in uses[job[v].path]
    BY <1>1, <2>1, PathNamed DEF UsesCounted
  <2>3. files'[job[v].path] = files[job[v].path]
    <3> SUFFICES ASSUME r.path = job[v].path PROVE FALSE
      BY <1>10, <2>1
    <3>1. r.run = job[v].run
      BY <1>16, <2>1, <2>2, PathNamed DEF Alone
    <3>2. job[v].pc = "again" /\ r.ok = job[v].ok /\ r.at = clock
      BY <1>1, <1>3, <3>1 DEF RowsOfJob
    <3>3. r.ok
      BY <3>2 DEF Verified, HasFile
    <3> QED
      BY <1>3, <1>15, <3>2, <3>3
  <2> QED
    BY <1>1, <2>3 DEF JobSound
<1>18. RowsSound'
  <2> SUFFICES ASSUME NEW s \in rows, s.ok, clock - s.at <= Retention, Alone(s.path)
               PROVE  /\ files'[s.path] # NoFile /\ files'[s.path].by = s.run
                      /\ Validated(files'[s.path])
    BY <1>2 DEF RowsSound, Age, Alone, Validated
  <2>1. s \in Known /\ s.path \in Paths
    BY <1>1 DEF Known, RowsHonest
  <2>2. s.run \in uses[s.path]
    BY <1>1, <2>1, PathNamed DEF UsesCounted
  <2>3. files'[s.path] = files[s.path]
    <3> SUFFICES ASSUME r.path = s.path PROVE FALSE
      BY <1>10, <2>1
    <3>1. r.run = s.run
      BY <1>16, <2>1, <2>2, PathNamed DEF Alone
    <3>2. r.ok = s.ok /\ r.at = s.at
      BY <1>1, <1>3, <2>1, <3>1 DEF TwoCopies
    <3> QED
      BY <1>3, <1>15, <3>2
  <2> QED
    BY <1>1, <2>3 DEF RowsSound, Age
<1> QED
  BY <1>9, <1>12, <1>13, <1>14, <1>17, <1>18 DEF StoreInv

LEMMA ToggleKept ==
    ASSUME StoreInv, NEW d \in Devices, Toggle(d)
    PROVE  StoreInv'
<1>1. active' \in [Devices -> BOOLEAN]
  BY DEF Toggle, StoreInv, TypeOK
<1>2. TypeOK' /\ Known' = Known
  BY <1>1 DEF Toggle, StoreInv, TypeOK, Known
<1>3. PickedDue'
  BY DEF Toggle, StoreInv, PickedDue
<1> QED
  BY <1>2, <1>3, CleaningKept DEF Toggle

LEMMA TimeKept ==
    ASSUME StoreInv, TimePasses
    PROVE  StoreInv'
<1>1. /\ TypeOK /\ PathHeld /\ RunsNumbered /\ UsesCounted /\ RowsHonest /\ TwoCopies
      /\ RowsOfJob /\ PickedDue /\ JobSound /\ RowsSound
  BY DEF StoreInv
<1>2. /\ clock' = clock + 1 /\ clock' \in 0 .. MaxClock /\ clock \in Nat /\ Retention \in Nat
      /\ UNCHANGED <<files, rows, active, job, cleaner, runs, uses, crashes>>
  BY <1>1, BoundAssumption, AgeAssumption DEF TimePasses, TypeOK
<1>3. TypeOK'
  BY <1>1, <1>2 DEF TypeOK
<1>4. Known' = Known
  BY <1>2 DEF Known
<1>5. PathHeld' /\ RunsNumbered' /\ UsesCounted' /\ RowsHonest' /\ TwoCopies'
  BY <1>1, <1>2, <1>4 DEF PathHeld, RunsNumbered, UsesCounted, RowsHonest, TwoCopies
<1>6. RowsOfJob'
  BY <1>1, <1>2, <1>4 DEF RowsOfJob, TimePasses
<1>7. \A r \in Known : r.at \in Int
  BY <1>1, KnownShape
<1>8. \A r \in Known, n \in Nat : clock - r.at > n => clock' - r.at > n
  BY <1>2, <1>7
<1>9. PickedDue'
  BY <1>1, <1>2, <1>8 DEF PickedDue, Known
<1>10. JobSound'
  BY <1>1, <1>2 DEF JobSound, Alone, Verified, Validated
<1>11. RowsSound'
  <2>1. \A r \in rows : clock' - r.at <= Retention => clock - r.at <= Retention
    BY <1>2, <1>7 DEF Known
  <2> QED
    BY <1>1, <1>2, <2>1 DEF RowsSound, Age, Alone, Validated
<1> QED
  BY <1>3, <1>5, <1>6, <1>9, <1>10, <1>11 DEF StoreInv

LEMMA StoreKept == StoreInv /\ [Next]_vars => StoreInv'
<1> SUFFICES ASSUME StoreInv, [Next]_vars PROVE StoreInv'
  OBVIOUS
<1>1. ASSUME NEW w \in Workers, Work(w) PROVE StoreInv'
  BY <1>1, RefusedKept, ReturnsPathKept, ReturnsNoPathKept, WritesKept, MeasureKept, VerifyKept,
     QuotaKept, PersistKept DEF Work
<1>2. ASSUME NEW w \in Workers, PersistDrops(w) \/ Lost(w) \/ \E d \in Devices : Start(w, d)
      PROVE  StoreInv'
  BY <1>2, PersistDropsKept, LostKept, StartKept
<1>3. ASSUME NEW c \in Cleaners, Clean(c) \/ CleanerDies(c) \/ \E k \in Removals : Pick(c, k)
      PROVE  StoreInv'
  BY <1>3, RemoveFileKept, RestKept, PickKept DEF Clean
<1>4. CASE UNCHANGED vars
  <2>1. TypeOK' /\ Known' = Known
    BY <1>4 DEF vars, StoreInv, TypeOK, Known
  <2>2. PickedDue'
    BY <1>4 DEF vars, StoreInv, PickedDue
  <2> QED
    BY <1>4, <2>1, <2>2, CleaningKept DEF vars
<1> QED
  BY <1>1, <1>2, <1>3, <1>4, ToggleKept, TimeKept DEF Next

LEMMA StoreInit == Init => StoreInv
<1> SUFFICES ASSUME Init PROVE StoreInv
  OBVIOUS
<1>1. TypeOK
  <2>1. 0 \in 0 .. MaxClock /\ 0 \in 0 .. MaxRuns /\ 0 \in 0 .. MaxCrashes
    BY BoundAssumption
  <2>2. Rest \in [pc : {"idle", "busy"}, picked : SUBSET Rows, left : SUBSET Rows]
    BY DEF Rest
  <2> QED
    BY <2>1, <2>2 DEF Init, TypeOK
<1>2. Known = {} /\ rows = {} /\ \A w \in Workers : job[w] = NoJob
  BY DEF Init, Known, Rest
<1>3. PathHeld /\ RunsNumbered /\ RowsHonest /\ TwoCopies /\ RowsOfJob /\ JobSound /\ RowsSound
  BY <1>2 DEF PathHeld, RunsNumbered, RowsHonest, TwoCopies, RowsOfJob, JobSound, RowsSound
<1>4. UsesCounted
  BY <1>2 DEF Init, UsesCounted
<1>5. PickedDue
  BY DEF Init, PickedDue, Rest
<1> QED
  BY <1>1, <1>3, <1>4, <1>5 DEF StoreInv

-----------------------------------------------------------------------------
(* The theorems. *)

\* Every reachable state has the declared types (TypeOK, about the executor, the rows it
\* commits and the cleaners): a path is a file's or none, and a row names one of them.
THEOREM StoreTypes == Spec => []TypeOK
<1>1. StoreInv => TypeOK
  BY DEF StoreInv
<1> QED
  BY <1>1, StoreInit, StoreKept, PTL DEF Spec

\* A path that is not shared is used by one run at most.
LEMMA NotShared ==
    ASSUME TypeOK, NEW p \in Paths, ~Shared(p)
    PROVE  Alone(p)
<1> SUFFICES ASSUME NEW a \in uses[p], NEW b \in uses[p], a # b PROVE FALSE
  BY DEF Alone
<1>1. IsFiniteSet(uses[p])
  <2>1. IsFiniteSet(RunIds) /\ uses[p] \subseteq RunIds
    BY BoundAssumption, FS_Interval DEF RunIds, TypeOK
  <2> QED
    BY <2>1, FS_Subset
<1>2. IsFiniteSet({a}) /\ Cardinality({a}) = 1
  BY FS_Singleton
<1>3. IsFiniteSet({a} \cup {b}) /\ Cardinality({a} \cup {b}) = 2
  <2>1. b \notin {a}
    OBVIOUS
  <2>2. Cardinality({a} \cup {b}) = Cardinality({a}) + 1 /\ IsFiniteSet({a} \cup {b})
    BY <1>2, <2>1, FS_AddElement
  <2> QED
    BY <1>2, <2>2
<1>4. Cardinality({a} \cup {b}) <= Cardinality(uses[p]) /\ Cardinality(uses[p]) \in Nat
  BY <1>1, FS_Subset, FS_CardinalityType
<1> QED
  BY <1>3, <1>4 DEF Shared

\* A good backup stays, with its file, until retention lets it go: no removal,
\* no quota, no cleaner that died and no other run takes the file, unless
\* another run has the same path.
THEOREM BackupsKept == Spec => []GoodBackupKept
<1>1. ASSUME StoreInv PROVE GoodBackupKept
  <2> SUFFICES ASSUME NEW r \in rows, r.ok, Age(r) <= Retention, ~Shared(r.path)
               PROVE  files[r.path].by = r.run /\ Validated(files[r.path])
    BY DEF GoodBackupKept
  <2>1. r.path \in Paths
    BY <1>1 DEF StoreInv, RowsHonest, Known
  <2>2. Alone(r.path)
    BY <1>1, <2>1, NotShared DEF StoreInv
  <2> QED
    BY <1>1, <2>2 DEF StoreInv, RowsSound
<1>2. StoreInv => GoodBackupKept
  BY <1>1
<1> QED
  BY <1>2, StoreInit, StoreKept, PTL DEF Spec

\* A step that ends a run without the loss of the worker or of the commit, and
\* not over a directory, is its commit.
LEMMA EndsRecorded ==
    ASSUME StoreInv, [Next]_vars, NEW w \in Workers,
           job[w] # NoJob, job'[w] = NoJob, crashes' = crashes, ~IsDirectory(job[w].path)
    PROVE  \E r \in rows' : r.run = job[w].run
<1>1. ASSUME NEW v \in Workers, NEW pc, NEW ok, NEW path, NEW size,
             Become(v, pc, ok, path, size), pc # "idle"
      PROVE  FALSE
  <2>1. job' = [job EXCEPT ![v] = NextJob(v, pc, ok, path, size)]
    BY <1>1, JobBecomes
  <2>2. NextJob(v, pc, ok, path, size) # NoJob
    BY <1>1 DEF NextJob, NoJob
  <2> QED
    BY <2>1, <2>2 DEF StoreInv, TypeOK
<1>2. ASSUME NEW v \in Workers, Measure(v) PROVE FALSE
  <2>1. CASE job' = [job EXCEPT ![v] = NoJob] /\ files[job[v].path] # NoFile
             /\ files[job[v].path].what.kind = "dir"
    <3>1. v = w
      BY <2>1 DEF StoreInv, TypeOK
    <3>2. job[w].path \in Paths
      BY <1>2, <3>1 DEF Measure, StoreInv, PathHeld, HasFile
    <3> QED
      BY <2>1, <3>1, <3>2, PathNamed DEF IsDirectory
  <2> QED
    BY <1>1, <1>2, <2>1 DEF Measure
<1>3. ASSUME NEW v \in Workers, Persist(v) PROVE \E r \in rows' : r.run = job[w].run
  <2>1. v = w
    BY <1>3 DEF Persist, StoreInv, TypeOK
  <2>2. PICK copy : rows' = rows \cup {Row(w, copy)}
    BY <1>3, <2>1 DEF Persist, Recorded
  <2>3. Row(w, copy) \in rows' /\ Row(w, copy).run = job[w].run
    BY <2>2 DEF Row
  <2> QED
    BY <2>3
<1>4. ASSUME NEW v \in Workers,
             \/ Refused(v) \/ Unreachable(v) \/ Fails(v) \/ ReturnsPath(v) \/ ReturnsNoPath(v)
             \/ Verify(v) \/ Quota(v) \/ \E c \in Contents : Writes(v, c)
      PROVE  FALSE
  <2>1. CASE Refused(v) \/ Unreachable(v) \/ Fails(v) \/ ReturnsPath(v)
    BY <1>1, <2>1 DEF Refused, Unreachable, Fails, ReturnsPath
  <2>2. CASE ReturnsNoPath(v)
    BY <1>1, <2>2 DEF ReturnsNoPath
  <2>3. CASE Verify(v)
    BY <1>1, <2>3 DEF Verify
  <2>4. CASE Quota(v)
    BY <1>1, <2>4 DEF Quota
  <2>5. ASSUME NEW c \in Contents, Writes(v, c) PROVE FALSE
    BY <1>1, <2>5 DEF Writes
  <2> QED
    BY <1>4, <2>1, <2>2, <2>3, <2>4, <2>5
<1>5. ASSUME NEW v \in Workers, PersistDrops(v) \/ Lost(v) PROVE FALSE
  <2>1. crashes' = crashes + 1 /\ crashes \in Int
    BY <1>5 DEF PersistDrops, Lost, StoreInv, TypeOK
  <2> QED
    BY <2>1
<1>6. ASSUME NEW v \in Workers, NEW d \in Devices, Start(v, d) PROVE FALSE
  <2> DEFINE j == [pc |-> "script", run |-> runs + 1, dev |-> d, ok |-> FALSE, path |-> NoPath, size |-> 0]
  <2>1. job' = [job EXCEPT ![v] = j]
    BY <1>6 DEF Start
  <2>2. j # NoJob
    BY DEF NoJob
  <2> HIDE DEF j
  <2> QED
    BY <2>1, <2>2 DEF StoreInv, TypeOK
<1>7. ASSUME UNCHANGED job PROVE FALSE
  BY <1>7
<1>8. \/ \E c \in Cleaners : Clean(c) \/ CleanerDies(c) \/ \E k \in Removals : Pick(c, k)
      \/ \E d \in Devices : Toggle(d)
      \/ TimePasses \/ UNCHANGED vars
      => UNCHANGED job
  BY DEF Clean, RemoveFile, CommitRemoval, CleanerDies, Pick, Toggle, TimePasses, vars
<1> QED
  BY <1>2, <1>3, <1>4, <1>5, <1>6, <1>7, <1>8 DEF Next, Work

\* Every run that is not lost with its worker or its commit, and that does not
\* stumble over a directory, ends with a row of its own.
THEOREM RowForEveryRun == Spec => RunRecorded
<1>1. StoreInv /\ [Next]_vars =>
        \A w \in Workers :
          job[w] # NoJob /\ job'[w] = NoJob /\ crashes' = crashes /\ ~IsDirectory(job[w].path) =>
            \E r \in rows' : r.run = job[w].run
  BY EndsRecorded
<1> QED
  BY <1>1, StoreInit, StoreKept, PTL DEF Spec, RunRecorded

-----------------------------------------------------------------------------
(* Sums over finite sets. *)

\* h sums the weights g over the subsets of U, in whatever order.
Totals(h, g, U) ==
    /\ h \in [SUBSET U -> Nat] /\ h[{}] = 0
    /\ \A T \in SUBSET U : \A x \in T : h[T] = g[x] + h[T \ {x}]

\* The sum of the weights g over S.
Sum(g, S) == (CHOOSE h : Totals(h, g, S))[S]

\* Induction over a finite set: a set of its subsets has one that contains no other.
LEMMA LeastSubset ==
    ASSUME NEW U, IsFiniteSet(U), NEW B, B \subseteq SUBSET U, B # {}
    PROVE  \E T \in B : \A V \in B : V \subseteq T => V = T
<1> DEFINE R == StrictSubsetOrdering(U)
<1>1. IsWellFoundedOn(R, FiniteSubsetsOf(U))
  BY FS_StrictSubsetOrderingWellFounded
<1>2. B \subseteq FiniteSubsetsOf(U)
  BY FS_FiniteSubsetsOfFinite
<1> HIDE DEF R
<1>3. PICK T \in B : \A V \in B : ~(<<V, T>> \in R)
  BY <1>1, <1>2, WFMin
<1>4. \A V \in B : V \subseteq T => V = T
  <2> SUFFICES ASSUME NEW V \in B, V \subseteq T, V # T PROVE FALSE
    OBVIOUS
  <2>1. <<V, T>> \in R
    BY DEF R, StrictSubsetOrdering
  <2> QED
    BY <1>3, <2>1
<1> QED
  BY <1>4

LEMMA TotalsExist ==
    ASSUME NEW U, IsFiniteSet(U), NEW g, \A x \in U : g[x] \in Nat
    PROVE  \E h : Totals(h, g, U)
<1> DEFINE B == {W \in SUBSET U : ~\E h : Totals(h, g, W)}
<1> SUFFICES ASSUME B # {} PROVE FALSE
  OBVIOUS
<1>1. PICK W \in B : \A V \in B : V \subseteq W => V = W
  <2>1. B \subseteq SUBSET U
    OBVIOUS
  <2> HIDE DEF B
  <2> QED
    BY <2>1, LeastSubset
<1>2. W \subseteq U /\ ~\E h : Totals(h, g, W)
  BY <1>1
<1>3. W # {}
  <2> SUFFICES ASSUME W = {} PROVE FALSE
    OBVIOUS
  <2>1. Totals([s \in SUBSET W |-> 0], g, W)
    BY DEF Totals
  <2> QED
    BY <1>2, <2>1
<1>4. PICK y \in W : TRUE
  BY <1>3
<1> DEFINE V == W \ {y}
<1>5. PICK k : Totals(k, g, V)
  <2>1. V \in SUBSET U /\ V # W /\ V \subseteq W
    BY <1>2, <1>4
  <2>2. V \notin B
    BY <1>1, <2>1
  <2> QED
    BY <2>1, <2>2
<1> DEFINE h == [s \in SUBSET W |-> IF y \in s THEN g[y] + k[s \ {y}] ELSE k[s]]
<1>6. Totals(h, g, W)
  <2>1. \A s \in SUBSET W : s \ {y} \in SUBSET V /\ (y \notin s => s \in SUBSET V)
    OBVIOUS
  <2>2. g[y] \in Nat /\ \A s \in SUBSET V : k[s] \in Nat
    BY <1>2, <1>4, <1>5 DEF Totals
  <2>3. h \in [SUBSET W -> Nat]
    BY <2>1, <2>2
  <2>4. h[{}] = 0
    BY <1>5 DEF Totals
  <2>5. ASSUME NEW T \in SUBSET W, NEW x \in T PROVE h[T] = g[x] + h[T \ {x}]
    <3>0. T \ {x} \in SUBSET W /\ g[x] \in Nat
      BY <1>2
    <3>1. CASE x = y
      BY <2>1, <3>0, <3>1
    <3>2. CASE x # y /\ y \in T
      <4>1. h[T] = g[y] + k[T \ {y}] /\ h[T \ {x}] = g[y] + k[(T \ {x}) \ {y}]
        BY <3>0, <3>2
      <4>2. k[T \ {y}] = g[x] + k[(T \ {y}) \ {x}]
        <5>1. T \ {y} \in SUBSET V /\ x \in T \ {y}
          BY <2>1, <3>2
        <5> QED
          BY <1>5, <5>1 DEF Totals
      <4>3. (T \ {x}) \ {y} = (T \ {y}) \ {x} /\ (T \ {y}) \ {x} \in SUBSET V
        OBVIOUS
      <4> HIDE DEF h
      <4>4. k[(T \ {y}) \ {x}] \in Nat
        BY <2>2, <4>3
      <4>5. k[(T \ {x}) \ {y}] = k[(T \ {y}) \ {x}]
        BY <4>3
      <4> QED
        BY <2>2, <3>0, <4>1, <4>2, <4>4, <4>5
    <3>3. CASE y \notin T
      <4>1. h[T] = k[T] /\ h[T \ {x}] = k[T \ {x}]
        BY <3>0, <3>3
      <4>2. k[T] = g[x] + k[T \ {x}]
        BY <1>5, <2>1, <3>3 DEF Totals
      <4> HIDE DEF h
      <4> QED
        BY <4>1, <4>2
    <3> QED
      BY <3>1, <3>2, <3>3
  <2> HIDE DEF h
  <2> QED
    BY <2>3, <2>4, <2>5 DEF Totals
<1> QED
  BY <1>2, <1>6

\* There is but one sum, ...
LEMMA TotalIsSum ==
    ASSUME NEW U, IsFiniteSet(U), NEW g, \A x \in U : g[x] \in Nat,
           NEW h, Totals(h, g, U), NEW S \in SUBSET U
    PROVE  h[S] = Sum(g, S)
<1> DEFINE k == CHOOSE k : Totals(k, g, S)
<1>1. IsFiniteSet(S) /\ \A x \in S : g[x] \in Nat
  BY FS_Subset
<1>2. Totals(k, g, S)
  BY <1>1, TotalsExist
<1>3. Sum(g, S) = k[S]
  BY DEF Sum
<1> HIDE DEF k
<1> DEFINE B == {T \in SUBSET S : h[T] # k[T]}
<1> SUFFICES ASSUME B # {} PROVE FALSE
  BY <1>3
<1>4. PICK T \in B : \A V \in B : V \subseteq T => V = T
  <2>1. B \subseteq SUBSET S
    OBVIOUS
  <2> HIDE DEF B
  <2> QED
    BY <1>1, <2>1, LeastSubset
<1>5. T \in SUBSET S /\ T \in SUBSET U /\ h[T] # k[T]
  BY <1>4
<1>6. T # {}
  BY <1>2, <1>5 DEF Totals
<1>7. PICK x \in T : TRUE
  BY <1>6
<1>8. T \ {x} \in SUBSET S /\ T \ {x} \subseteq T /\ T \ {x} # T
  BY <1>5, <1>7
<1>9. h[T \ {x}] = k[T \ {x}]
  BY <1>4, <1>8
<1>10. h[T] = g[x] + h[T \ {x}]
  BY <1>5, <1>7 DEF Totals
<1>11. k[T] = g[x] + k[T \ {x}]
  BY <1>2, <1>5, <1>7 DEF Totals
<1> QED
  BY <1>5, <1>9, <1>10, <1>11

\* ... which any member of the set may leave.
LEMMA SumSteps ==
    ASSUME NEW S, IsFiniteSet(S), NEW g, \A x \in S : g[x] \in Nat
    PROVE  /\ Sum(g, S) \in Nat
           /\ S = {} => Sum(g, S) = 0
           /\ \A x \in S : Sum(g, S) = g[x] + Sum(g, S \ {x})
<1>1. PICK h : Totals(h, g, S)
  BY TotalsExist
<1>2. \A T \in SUBSET S : h[T] = Sum(g, T)
  BY <1>1, TotalIsSum
<1>3. S \in SUBSET S /\ \A x \in S : S \ {x} \in SUBSET S
  OBVIOUS
<1>4. h[S] \in Nat /\ (S = {} => h[S] = 0) /\ \A x \in S : h[S] = g[x] + h[S \ {x}]
  BY <1>1, <1>3 DEF Totals
<1> QED
  BY <1>2, <1>3, <1>4

\* Weights that find, one each, at least as heavy partners sum to no more.
LEMMA SumInto ==
    ASSUME NEW S, IsFiniteSet(S), NEW g, \A x \in S : g[x] \in Nat,
           NEW T, IsFiniteSet(T), NEW e, \A y \in T : e[y] \in Nat,
           NEW i, \A x \in S : i[x] \in T /\ g[x] <= e[i[x]],
           \A x, y \in S : i[x] = i[y] => x = y
    PROVE  Sum(g, S) <= Sum(e, T)
<1> DEFINE Img(V) == {i[x] : x \in V}
           Ok(V) == \A W \in SUBSET T : Img(V) \subseteq W => Sum(g, V) <= Sum(e, W)
           B == {V \in SUBSET S : ~Ok(V)}
<1>1. S \in SUBSET S /\ T \in SUBSET T /\ Img(S) \subseteq T
  OBVIOUS
<1> SUFFICES ASSUME B # {} PROVE FALSE
  BY <1>1
<1>2. PICK V \in B : \A V2 \in B : V2 \subseteq V => V2 = V
  <2>1. B \subseteq SUBSET S
    OBVIOUS
  <2> HIDE DEF B
  <2> QED
    BY <2>1, LeastSubset
<1>3. PICK W \in SUBSET T : Img(V) \subseteq W /\ ~(Sum(g, V) <= Sum(e, W))
  BY <1>2
<1>4. V \subseteq S /\ IsFiniteSet(V) /\ \A x \in V : g[x] \in Nat
  <2>1. V \in SUBSET S
    BY <1>2
  <2> HIDE DEF B
  <2> QED
    BY <2>1, FS_Subset
<1>5. IsFiniteSet(W) /\ \A y \in W : e[y] \in Nat
  BY FS_Subset
<1>6. Sum(g, V) \in Nat /\ Sum(e, W) \in Nat
  BY <1>4, <1>5, SumSteps
<1>7. V # {}
  <2> HIDE DEF B, Img
  <2> QED
    BY <1>3, <1>4, <1>6, SumSteps
<1>8. PICK x \in V : TRUE
  BY <1>7
<1> DEFINE V1 == V \ {x}
           W1 == W \ {i[x]}
<1>9. i[x] \in W /\ g[x] <= e[i[x]] /\ g[x] \in Nat /\ e[i[x]] \in Nat
  BY <1>3, <1>4, <1>5, <1>8
<1>10. Img(V1) \subseteq W1
  BY <1>3, <1>4, <1>8
<1>11. V1 \in SUBSET S /\ W1 \in SUBSET T /\ V1 \subseteq V /\ V1 # V
  BY <1>4, <1>8
<1>12. Sum(g, V1) <= Sum(e, W1)
  <2>1. V1 \notin B
    BY <1>2, <1>11
  <2> HIDE DEF V1, W1, Img
  <2> QED
    BY <1>10, <1>11, <2>1
<1>13. Sum(g, V) = g[x] + Sum(g, V1) /\ Sum(e, W) = e[i[x]] + Sum(e, W1)
  BY <1>4, <1>5, <1>8, <1>9, SumSteps
<1>14. Sum(g, V1) \in Nat /\ Sum(e, W1) \in Nat
  <2>1. IsFiniteSet(V1) /\ IsFiniteSet(W1)
    BY <1>4, <1>5, FS_Subset
  <2> QED
    BY <1>4, <1>5, <2>1, SumSteps
<1> HIDE DEF V1, W1, B, Img
<1> QED
  BY <1>3, <1>9, <1>12, <1>13, <1>14

\* A part sums to no more than the whole.
LEMMA SumOfPart ==
    ASSUME NEW T, IsFiniteSet(T), NEW g, \A x \in T : g[x] \in Nat, NEW S \in SUBSET T
    PROVE  Sum(g, S) <= Sum(g, T)
<1> DEFINE i == [x \in S |-> x]
<1>1. IsFiniteSet(S) /\ \A x \in S : g[x] \in Nat
  BY FS_Subset
<1>2. \A x \in S : i[x] \in T /\ g[x] <= g[i[x]]
  BY <1>1
<1>3. \A x, y \in S : i[x] = i[y] => x = y
  OBVIOUS
<1> HIDE DEF i
<1> QED
  BY <1>1, <1>2, <1>3, SumInto

\* A set sums to no more than two that cover it.
LEMMA SumOfUnion ==
    ASSUME NEW U, IsFiniteSet(U), NEW g, \A x \in U : g[x] \in Nat,
           NEW S \in SUBSET U, NEW T \in SUBSET U
    PROVE  Sum(g, S \cup T) <= Sum(g, S) + Sum(g, T)
<1> DEFINE Ok(V) == Sum(g, S \cup V) <= Sum(g, S) + Sum(g, V)
           B == {V \in SUBSET T : ~Ok(V)}
<1>1. \A V \in SUBSET U : IsFiniteSet(V) /\ Sum(g, V) \in Nat
                          /\ (V = {} => Sum(g, V) = 0) /\ \A x \in V : Sum(g, V) = g[x] + Sum(g, V \ {x})
  <2> TAKE V \in SUBSET U
  <2>1. IsFiniteSet(V) /\ \A x \in V : g[x] \in Nat
    BY FS_Subset
  <2> QED
    BY <2>1, SumSteps
<1> SUFFICES ASSUME B # {} PROVE FALSE
  OBVIOUS
<1>2. PICK V \in B : \A V2 \in B : V2 \subseteq V => V2 = V
  <2>1. B \subseteq SUBSET T /\ IsFiniteSet(T)
    BY <1>1
  <2> HIDE DEF B
  <2> QED
    BY <2>1, LeastSubset
<1>3. V \in SUBSET T /\ V \in SUBSET U /\ ~Ok(V)
  BY <1>2
<1>4. V # {}
  <2> SUFFICES ASSUME V = {} PROVE FALSE
    OBVIOUS
  <2>1. S \cup V = S
    OBVIOUS
  <2> QED
    BY <1>1, <1>3, <2>1
<1>5. PICK x \in V : TRUE
  BY <1>4
<1> DEFINE V1 == V \ {x}
<1>6. V1 \in SUBSET T /\ V1 \in SUBSET U /\ V1 \subseteq V /\ V1 # V
  BY <1>3, <1>5
<1>7. Ok(V1)
  BY <1>2, <1>6
<1>8. Sum(g, V) = g[x] + Sum(g, V1) /\ g[x] \in Nat
  BY <1>1, <1>3, <1>5
<1>9. Sum(g, S \cup V) <= g[x] + Sum(g, S \cup V1)
  <2>1. S \cup V \in SUBSET U /\ S \cup V1 \in SUBSET U
    BY <1>3
  <2>2. CASE x \in S
    <3>1. S \cup V = S \cup V1
      BY <1>5, <2>2
    <3>2. Sum(g, S \cup V1) \in Nat /\ Sum(g, S \cup V) = Sum(g, S \cup V1)
      BY <1>1, <2>1, <3>1
    <3> QED
      BY <1>8, <3>2
  <2>3. CASE x \notin S
    <3>1. (S \cup V) \ {x} = S \cup V1 /\ x \in S \cup V
      BY <1>5, <2>3
    <3>2. Sum(g, S \cup V) = g[x] + Sum(g, (S \cup V) \ {x})
      BY <1>1, <2>1, <3>1
    <3>3. Sum(g, S \cup V) = g[x] + Sum(g, S \cup V1)
      BY <3>1, <3>2
    <3>4. Sum(g, S \cup V) \in Nat /\ Sum(g, S \cup V1) \in Nat
      BY <1>1, <2>1
    <3> QED
      BY <1>8, <3>3, <3>4
  <2> QED
    BY <2>2, <2>3
<1>10. \A X \in {S, V, V1, S \cup V, S \cup V1} : Sum(g, X) \in Nat
  <2>1. S \cup V \in SUBSET U /\ S \cup V1 \in SUBSET U
    BY <1>3
  <2> QED
    BY <1>1, <1>3, <1>6, <2>1
<1> HIDE DEF V1, B
<1> QED
  BY <1>3, <1>7, <1>8, <1>9, <1>10

\* Nor does a set sum to more than its size times the heaviest weight.
LEMMA SumBounded ==
    ASSUME NEW S, IsFiniteSet(S), NEW g, NEW M \in Nat, \A x \in S : g[x] \in Nat /\ g[x] <= M
    PROVE  Sum(g, S) <= Cardinality(S) * M
<1> DEFINE Ok(V) == Sum(g, V) <= Cardinality(V) * M
           B == {V \in SUBSET S : ~Ok(V)}
<1>1. S \in SUBSET S
  OBVIOUS
<1> SUFFICES ASSUME B # {} PROVE FALSE
  BY <1>1
<1>2. PICK V \in B : \A V2 \in B : V2 \subseteq V => V2 = V
  <2>1. B \subseteq SUBSET S
    OBVIOUS
  <2> HIDE DEF B
  <2> QED
    BY <2>1, LeastSubset
<1>3. V \in SUBSET S /\ ~Ok(V)
  BY <1>2
<1>4. IsFiniteSet(V) /\ \A x \in V : g[x] \in Nat /\ g[x] <= M
  BY <1>3, FS_Subset
<1>5. V # {}
  <2> SUFFICES ASSUME V = {} PROVE FALSE
    OBVIOUS
  <2>1. Sum(g, V) = 0 /\ Cardinality(V) = 0
    BY <1>4, SumSteps, FS_EmptySet
  <2> QED
    BY <1>3, <2>1
<1>6. PICK x \in V : TRUE
  BY <1>5
<1> DEFINE V1 == V \ {x}
<1>7. V1 \in SUBSET S /\ V1 \subseteq V /\ V1 # V
  BY <1>3, <1>6
<1>8. Ok(V1)
  BY <1>2, <1>7
<1>9. Sum(g, V) = g[x] + Sum(g, V1)
  BY <1>4, <1>6, SumSteps
<1>10. IsFiniteSet(V1) /\ Cardinality(V1) = Cardinality(V) - 1 /\ Cardinality(V) \in Nat /\ Cardinality(V1) \in Nat
  BY <1>4, <1>6, FS_RemoveElement, FS_CardinalityType
<1>11. Sum(g, V1) \in Nat /\ g[x] \in Nat /\ g[x] <= M
  BY <1>4, <1>6, <1>10, SumSteps
<1>12. Cardinality(V) * M = Cardinality(V1) * M + M
  <2> HIDE DEF V1
  <2>1. \A n \in Nat : (n + 1) * M = n * M + M
    OBVIOUS
  <2>2. Cardinality(V) = Cardinality(V1) + 1
    BY <1>10
  <2> QED
    BY <1>10, <2>1, <2>2
<1>13. Cardinality(V1) * M \in Nat
  BY <1>10
<1> HIDE DEF V1, B
<1> QED
  BY <1>3, <1>8, <1>9, <1>11, <1>12, <1>13

\* The heaviest there is.
LEMMA MaxIsMember ==
    ASSUME NEW S, IsFiniteSet(S), S # {}, \A x \in S : x \in Nat
    PROVE  Max(S) \in S /\ \A x \in S : x <= Max(S)
<1>0. \A C : C \subseteq SUBSET S /\ C # {} => \E V \in C : \A W \in C : W \subseteq V => W = V
  BY LeastSubset
<1> DEFINE Top(V) == \E x \in V : \A y \in V : x >= y
           B == {V \in SUBSET S : V # {} /\ ~Top(V)}
<1>1. Top(S)
  <2> SUFFICES ASSUME B # {} PROVE FALSE
    OBVIOUS
  <2>2. PICK V \in B : \A V2 \in B : V2 \subseteq V => V2 = V
    <3>1. B \subseteq SUBSET S
      OBVIOUS
    <3> HIDE DEF B
    <3> QED
      BY <1>0, <3>1
  <2>3. V \in SUBSET S /\ V # {} /\ ~Top(V)
    BY <2>2
  <2>4. PICK x \in V : TRUE
    BY <2>3
  <2> DEFINE V1 == V \ {x}
  <2>5. V1 \in SUBSET S /\ V1 \subseteq V /\ V1 # V
    BY <2>3, <2>4
  <2>6. V1 # {}
    <3> SUFFICES ASSUME V1 = {} PROVE FALSE
      OBVIOUS
    <3>1. V = {x} /\ x \in Nat
      BY <2>3, <2>4
    <3> QED
      BY <2>3, <3>1
  <2>7. Top(V1)
    BY <2>2, <2>5, <2>6
  <2>8. PICK m \in V1 : \A y \in V1 : m >= y
    BY <2>7
  <2>9. m \in V /\ m \in Nat /\ x \in Nat /\ \A y \in V : y \in Nat /\ (y = x \/ m >= y)
    BY <2>3, <2>4, <2>8
  <2>10. CASE m >= x
    BY <2>3, <2>9, <2>10
  <2>11. CASE x >= m
    BY <2>3, <2>4, <2>9, <2>11
  <2> QED
    BY <2>9, <2>10, <2>11
<1>2. Max(S) \in S /\ \A y \in S : Max(S) >= y
  BY <1>1 DEF Max
<1> QED
  BY <1>2

\* The fold of the community modules is that sum.
LEMMA SizesFold ==
    ASSUME NEW S, IsFiniteSet(S), \A r \in S : r.size \in Nat
    PROVE  MapThenSumSet(LAMBDA r : r.size, S) = Sum([r \in S |-> r.size], S)
<1> DEFINE g == [r \in S |-> r.size]
           Def(f) == [s \in SUBSET S |-> IF s = {} THEN 0
                       ELSE (CHOOSE x \in s : TRUE).size + f[s \ {CHOOSE x \in s : TRUE}]]
           f == CHOOSE f : f = Def(f)
<1>1. MapThenSumSet(LAMBDA r : r.size, S) = f[S]
  BY DEF MapThenSumSet, MapThenFoldSet
<1> HIDE DEF f
<1>2. IsFiniteSet(S) /\ \A r \in S : g[r] \in Nat
  OBVIOUS
<1>3. PICK h : Totals(h, g, S)
  BY <1>2, TotalsExist
<1>4. h = Def(h)
  <2>1. h = [s \in SUBSET S |-> h[s]] /\ h[{}] = 0
    BY <1>3 DEF Totals
  <2>2. ASSUME NEW s \in SUBSET S, s # {}
        PROVE  h[s] = (CHOOSE x \in s : TRUE).size + h[s \ {CHOOSE x \in s : TRUE}]
    <3>1. (CHOOSE x \in s : TRUE) \in s
      BY <2>2
    <3>2. g[CHOOSE x \in s : TRUE] = (CHOOSE x \in s : TRUE).size
      BY <2>2, <3>1
    <3> HIDE DEF g
    <3> QED
      BY <1>3, <2>2, <3>1, <3>2 DEF Totals
  <2> QED
    BY <2>1, <2>2
<1>5. f = Def(f)
  BY <1>4 DEF f
<1> HIDE DEF g
<1>6. f[S] = h[S]
  <2> DEFINE B == {T \in SUBSET S : f[T] # h[T]}
  <2>1. SUFFICES ASSUME B # {} PROVE FALSE
    OBVIOUS
  <2>2. PICK T \in B : \A V \in B : V \subseteq T => V = T
    <3>1. IsFiniteSet(S) /\ B \subseteq SUBSET S
      OBVIOUS
    <3> HIDE DEF B
    <3> QED
      BY <2>1, <3>1, LeastSubset
  <2>3. T \in SUBSET S /\ f[T] # h[T]
    BY <2>2
  <2>4. f[T] = Def(f)[T] /\ h[T] = Def(h)[T]
    BY <1>4, <1>5
  <2>5. T # {}
    BY <2>3, <2>4
  <2> DEFINE x == CHOOSE x \in T : TRUE
  <2>6. x \in T
    BY <2>5
  <2>7. f[T] = x.size + f[T \ {x}] /\ h[T] = x.size + h[T \ {x}]
    BY <2>3, <2>4, <2>5
  <2> HIDE DEF x
  <2>8. T \ {x} \in SUBSET S /\ T \ {x} \subseteq T /\ T \ {x} # T
    BY <2>3, <2>6
  <2>9. f[T \ {x}] = h[T \ {x}]
    BY <2>2, <2>8
  <2> QED
    BY <2>3, <2>7, <2>9
<1>7. h[S] = Sum(g, S)
  BY <1>2, <1>3, TotalIsSum
<1> QED
  BY <1>1, <1>6, <1>7 DEF g

-----------------------------------------------------------------------------
(* The quota. *)

\* A run that has passed the quota and not yet committed for good.
Pends(w) == job[w] # NoJob /\ job[w].pc \in {"persist", "again"} /\ job[w].ok

OkRuns == {r.run : r \in {s \in rows : s.ok}}

\* The runs whose size the storage carries or is about to.
Charged == OkRuns \cup {job[w].run : w \in {v \in Workers : Pends(v)}}

\* The sizes that can be measured.
Seen == {0} \cup {c.size : c \in Contents}

QuotaBound == Limit + (NumWorkers - 1) * Max(Sizes)

\* A run has one size, of its device, in its rows and in its job.
OneSize ==
    /\ IsFiniteSet(rows)
    /\ \A r, s \in rows : r.run = s.run => r.dev = s.dev /\ r.size = s.size
    /\ \A w \in Workers, r \in rows :
         job[w] # NoJob /\ r.run = job[w].run => r.dev = job[w].dev /\ r.size = job[w].size
    /\ \A w \in Workers : job[w] # NoJob =>
         /\ job[w].size \in Seen
         /\ Limit > 0 /\ Pends(w) => job[w].size <= Limit

\* sz gives the charged runs their sizes.
Priced(sz) ==
    /\ \A w \in Workers : Pends(w) => sz[job[w].run] = job[w].size
    /\ \A r \in rows : r.ok => sz[r.run] = r.size

\* The strengthening: with the runs that are about to commit, too, the storage
\* stays within the bound.
ChargeBounded ==
    \E sz \in [RunIds -> Nat] : Priced(sz) /\ (Limit > 0 => Sum(sz, Charged) <= QuotaBound)

QuotaInv == OneSize /\ ChargeBounded

LEMMA SizesShape ==
    /\ IsFiniteSet(Sizes) /\ Sizes # {} /\ (\A n \in Sizes : n \in Nat) /\ Sizes \subseteq 0 .. Limit
    /\ Max(Sizes) \in Nat /\ \A n \in Sizes : n <= Max(Sizes)
    /\ Seen \subseteq Nat /\ \A n \in Seen : n <= Limit => n \in Sizes
    /\ Max(Sizes) <= Limit /\ QuotaBound \in Nat
<1>1. Sizes \subseteq 0 .. Limit /\ 0 \in Sizes
  BY BoundAssumption, ContentShape DEF Sizes
<1>2. IsFiniteSet(Sizes) /\ Sizes # {}
  <2>1. IsFiniteSet(0 .. Limit)
    BY BoundAssumption, FS_Interval
  <2>2. Sizes \in SUBSET (0 .. Limit)
    BY <1>1
  <2> QED
    BY <1>1, <2>1, <2>2, FS_Subset
<1>3. \A n \in Sizes : n \in Nat
  BY <1>1, BoundAssumption
<1>4. Max(Sizes) \in Sizes /\ \A n \in Sizes : n <= Max(Sizes)
  BY <1>2, <1>3, MaxIsMember
<1>5. Seen \subseteq Nat /\ \A n \in Seen : n <= Limit => n \in Sizes
  BY BoundAssumption, ContentShape DEF Seen, Sizes
<1>6. Max(Sizes) \in Nat /\ Max(Sizes) <= Limit
  <2>1. Max(Sizes) \in 0 .. Limit
    BY <1>1, <1>4
  <2> QED
    BY <2>1, BoundAssumption
<1>7. QuotaBound \in Nat
  <2>1. CASE NumWorkers = 0
    BY <1>6, <2>1, BoundAssumption DEF QuotaBound
  <2>2. CASE NumWorkers # 0
    <3>1. (NumWorkers - 1) * Max(Sizes) \in Nat
      <4>1. NumWorkers - 1 \in Nat
        BY <2>2, BoundAssumption
      <4> QED
        BY <4>1, <1>6
    <3> QED
      BY <3>1, BoundAssumption DEF QuotaBound
  <2> QED
    BY <2>1, <2>2
<1> QED
  BY <1>1, <1>2, <1>3, <1>4, <1>5, <1>6, <1>7

\* Runs are finitely many, so are sums over them.
LEMMA ChargedShape ==
    ASSUME TypeOK
    PROVE  /\ IsFiniteSet(RunIds) /\ OkRuns \subseteq RunIds /\ Charged \subseteq RunIds
           /\ \A w \in Workers : Pends(w) => job[w].run \in RunIds /\ job[w].size \in Nat
<1>1. IsFiniteSet(RunIds)
  BY BoundAssumption, FS_Interval DEF RunIds
<1>2. \A r \in rows : r.run \in RunIds
  BY DEF TypeOK, Rows
<1>3. \A w \in Workers : Pends(w) => job[w].run \in RunIds /\ job[w].size \in Nat
  BY InRun DEF Pends
<1> QED
  BY <1>1, <1>2, <1>3 DEF OkRuns, Charged

\* A step that charges nobody anew.
LEMMA QuietCharge ==
    ASSUME StoreInv, QuotaInv, TypeOK', rows' \subseteq rows,
           \A v \in Workers : job'[v] # NoJob =>
              /\ job'[v].size \in Seen
              /\ \/ job[v] # NoJob /\ job'[v].run = job[v].run /\ job'[v].dev = job[v].dev /\ job'[v].size = job[v].size
                 \/ \A r \in rows : r.run # job'[v].run,
           \A v \in Workers : Pends(v)' =>
              Pends(v) /\ job'[v].run = job[v].run /\ job'[v].size = job[v].size
    PROVE  QuotaInv'
<1>1. OneSize'
  <2>1. IsFiniteSet(rows')
    BY FS_Subset DEF QuotaInv, OneSize
  <2>2. \A r, s \in rows' : r.run = s.run => r.dev = s.dev /\ r.size = s.size
    BY DEF QuotaInv, OneSize
  <2>3. ASSUME NEW v \in Workers, NEW r \in rows', job'[v] # NoJob, r.run = job'[v].run
        PROVE  r.dev = job'[v].dev /\ r.size = job'[v].size
    BY <2>3 DEF QuotaInv, OneSize
  <2>4. ASSUME NEW v \in Workers, job'[v] # NoJob
        PROVE  job'[v].size \in Seen /\ (Limit > 0 /\ Pends(v)' => job'[v].size <= Limit)
    BY <2>4 DEF QuotaInv, OneSize, Pends
  <2> QED
    BY <2>1, <2>2, <2>3, <2>4 DEF OneSize, Seen
<1>2. ChargeBounded'
  <2>1. PICK sz \in [RunIds -> Nat] : Priced(sz) /\ (Limit > 0 => Sum(sz, Charged) <= QuotaBound)
    BY DEF QuotaInv, ChargeBounded
  <2>2. Priced(sz)'
    BY <2>1 DEF Priced
  <2>3. Charged' \subseteq Charged /\ Charged \subseteq RunIds /\ IsFiniteSet(RunIds)
    BY ChargedShape DEF StoreInv, Charged, OkRuns
  <2>4. IsFiniteSet(Charged) /\ IsFiniteSet(Charged')
    BY <2>3, FS_Subset
  <2>5. \A n \in Charged : sz[n] \in Nat
    BY <2>3
  <2>6. Sum(sz, Charged') <= Sum(sz, Charged)
    BY <2>3, <2>4, <2>5, SumOfPart
  <2>7. Sum(sz, Charged) \in Nat /\ Sum(sz, Charged') \in Nat
    BY <2>3, <2>4, <2>5, SumSteps
  <2>8. Limit > 0 => Sum(sz, Charged') <= QuotaBound
    BY <2>1, <2>6, <2>7, SizesShape
  <2> QED
    BY <2>2, <2>8 DEF ChargeBounded, QuotaBound, Sum, Totals, Max, Sizes, RunIds
<1> QED
  BY <1>1, <1>2 DEF QuotaInv

LEMMA BecomeCharge ==
    ASSUME StoreInv, QuotaInv, TypeOK', NEW w \in Workers, job[w] # NoJob, job[w].pc # "again",
           NEW pc, NEW ok, NEW path, NEW size, Become(w, pc, ok, path, size), size \in Seen,
           UNCHANGED rows, ~(pc \in {"persist", "again"} /\ ok)
    PROVE  QuotaInv'
<1> DEFINE j == NextJob(w, pc, ok, path, size)
<1>1. job' = [job EXCEPT ![w] = j]
  BY JobBecomes
<1>2. j.run = job[w].run /\ j.size = size /\ j.pc = pc /\ j.ok = ok
  BY DEF NextJob
<1> HIDE DEF j
<1>3. job'[w] = j /\ \A v \in Workers : v # w => job'[v] = job[v]
  BY <1>1 DEF StoreInv, TypeOK
<1>4. \A r \in rows : r.run # job[w].run
  BY NoRowYet DEF Known
<1>5. ~Pends(w)'
  BY <1>2, <1>3 DEF Pends
<1>6. \A v \in Workers : v # w => (Pends(v)' <=> Pends(v))
  BY <1>3 DEF Pends
<1>7. \A v \in Workers : job'[v] # NoJob =>
              /\ job'[v].size \in Seen
              /\ \/ job[v] # NoJob /\ job'[v].run = job[v].run /\ job'[v].dev = job[v].dev /\ job'[v].size = job[v].size
                 \/ \A r \in rows : r.run # job'[v].run
  BY <1>2, <1>3, <1>4 DEF QuotaInv, OneSize
<1>8. \A v \in Workers : Pends(v)' =>
              Pends(v) /\ job'[v].run = job[v].run /\ job'[v].size = job[v].size
  BY <1>3, <1>5, <1>6
<1> QED
  BY <1>7, <1>8, QuietCharge

\* The runs that may commit besides that of w add up to no more than one file each.
LEMMA OthersBounded ==
    ASSUME StoreInv, OneSize, Limit > 0, NEW w \in Workers,
           NEW sz \in [RunIds -> Nat], Priced(sz)
    PROVE  LET Others == {job[v].run : v \in {u \in Workers \ {w} : Pends(u)}}
           IN  Sum(sz, Others) <= (NumWorkers - 1) * Max(Sizes)
<1> DEFINE P == {u \in Workers \ {w} : Pends(u)}
           Others == {job[v].run : v \in P}
           e == [v \in P |-> job[v].size]
           i == [n \in Others |-> CHOOSE v \in P : job[v].run = n]
<1>1. IsFiniteSet(Workers) /\ Cardinality(Workers) = NumWorkers
  BY BoundAssumption, FS_Interval DEF Workers
<1>2. IsFiniteSet(Workers \ {w}) /\ Cardinality(Workers \ {w}) = NumWorkers - 1
  BY <1>1, FS_RemoveElement
<1>3. IsFiniteSet(P) /\ Cardinality(P) <= NumWorkers - 1 /\ Cardinality(P) \in Nat
  <2>1. P \in SUBSET (Workers \ {w})
    OBVIOUS
  <2> HIDE DEF P
  <2> QED
    BY <1>2, <2>1, FS_Subset, FS_CardinalityType
<1>4. \A v \in P : e[v] \in Nat /\ e[v] <= Max(Sizes)
  <2> TAKE v \in P
  <2>1. v \in Workers /\ Pends(v) /\ e[v] = job[v].size
    OBVIOUS
  <2>2. job[v].size \in Seen /\ job[v].size <= Limit
    BY <2>1 DEF OneSize, Pends
  <2> QED
    BY <2>1, <2>2, SizesShape
<1>5. \A n \in Others : i[n] \in P /\ sz[n] = e[i[n]] /\ job[i[n]].run = n
  <2> TAKE n \in Others
  <2>1. PICK v \in P : job[v].run = n
    OBVIOUS
  <2>2. i[n] \in P /\ job[i[n]].run = n
    BY <2>1
  <2> HIDE DEF i
  <2>3. sz[job[i[n]].run] = job[i[n]].size
    BY <2>2 DEF Priced
  <2> QED
    BY <2>2, <2>3
<1>6. IsFiniteSet(Others) /\ \A n \in Others : sz[n] \in Nat
  <2>1. Others \subseteq RunIds
    BY ChargedShape DEF StoreInv
  <2> HIDE DEF Others
  <2> QED
    BY <2>1, ChargedShape, FS_Subset DEF StoreInv
<1> HIDE DEF P, Others, e, i
<1>7. Sum(sz, Others) <= Sum(e, P)
  <2>1. \A n \in Others : i[n] \in P /\ sz[n] <= e[i[n]]
    BY <1>4, <1>5, <1>6
  <2>2. \A m, n \in Others : i[m] = i[n] => m = n
    BY <1>5
  <2>3. \A v \in P : e[v] \in Nat
    BY <1>4
  <2> QED
    BY <1>3, <1>6, <2>1, <2>2, <2>3, SumInto
<1>8. Sum(e, P) <= Cardinality(P) * Max(Sizes)
  BY <1>3, <1>4, SizesShape, SumBounded
<1>9. Cardinality(P) * Max(Sizes) <= (NumWorkers - 1) * Max(Sizes)
  <2>1. \A a, b, c \in Nat : a <= b => a * c <= b * c
    OBVIOUS
  <2>2. NumWorkers - 1 \in Nat
    BY <1>3, BoundAssumption
  <2> QED
    BY <1>3, <2>1, <2>2, SizesShape
<1>10. Sum(sz, Others) \in Nat /\ Sum(e, P) \in Nat
  BY <1>3, <1>4, <1>6, SumSteps
<1>11. Cardinality(P) * Max(Sizes) \in Nat /\ (NumWorkers - 1) * Max(Sizes) \in Int
  BY <1>3, SizesShape, BoundAssumption
<1>12. Sum(sz, Others) <= (NumWorkers - 1) * Max(Sizes)
  BY <1>7, <1>8, <1>9, <1>10, <1>11
<1> QED
  BY <1>12 DEF Others, P

\* The committed runs add up to no more than the storage in use.
LEMMA OkRunsUsed ==
    ASSUME StoreInv, OneSize, NEW sz \in [RunIds -> Nat], \A r \in rows : r.ok => sz[r.run] = r.size
    PROVE  Sum(sz, OkRuns) <= Used /\ Used \in Nat
<1> DEFINE e == [r \in rows |-> r.size]
           i == [n \in OkRuns |-> CHOOSE r \in rows : r.ok /\ r.run = n]
<1>1. IsFiniteSet(rows) /\ \A r \in rows : r.size \in Nat
  BY DEF OneSize, StoreInv, TypeOK, Rows
<1>2. Used = Sum(e, rows)
  BY <1>1, SizesFold DEF Used
<1>3. \A r \in rows : e[r] \in Nat
  BY <1>1
<1>4. \A n \in OkRuns : i[n] \in rows /\ i[n].ok /\ i[n].run = n
  BY DEF OkRuns
<1> HIDE DEF i
<1>5. \A n \in OkRuns : sz[n] = e[i[n]]
  BY <1>4
<1> HIDE DEF e
<1>6. IsFiniteSet(OkRuns) /\ \A n \in OkRuns : sz[n] \in Nat
  BY ChargedShape, FS_Subset DEF StoreInv
<1>7. \A n \in OkRuns : i[n] \in rows /\ sz[n] <= e[i[n]]
  BY <1>4, <1>5, <1>6
<1>8. \A m, n \in OkRuns : i[m] = i[n] => m = n
  BY <1>4
<1>9. Sum(sz, OkRuns) <= Sum(e, rows)
  BY <1>1, <1>3, <1>6, <1>7, <1>8, SumInto
<1>10. Sum(e, rows) \in Nat
  BY <1>1, <1>3, SumSteps
<1> QED
  BY <1>2, <1>9, <1>10

\* Sums of sizes that agree are equal or, to one side, no more.
LEMMA SumAgrees ==
    ASSUME NEW S, IsFiniteSet(S), NEW g, NEW e, \A x \in S : g[x] \in Nat /\ e[x] = g[x]
    PROVE  Sum(e, S) <= Sum(g, S)
<1> DEFINE i == [x \in S |-> x]
<1>1. \A x \in S : i[x] \in S /\ e[x] <= g[i[x]] /\ e[x] \in Nat
  OBVIOUS
<1>2. \A x, y \in S : i[x] = i[y] => x = y
  OBVIOUS
<1> HIDE DEF i
<1> QED
  BY <1>1, <1>2, SumInto

\* The run that passes the quota: the rest of it is committed, which the check
\* counted, or is about to be, by the other workers.
LEMMA PassCharge ==
    ASSUME StoreInv, QuotaInv, TypeOK', NEW w \in Workers, job[w].pc = "quota", Fits(job[w].size),
           Become(w, "persist", TRUE, job[w].path, job[w].size), UNCHANGED rows
    PROVE  QuotaInv'
<1> DEFINE n == job[w].run
           j == NextJob(w, "persist", TRUE, job[w].path, job[w].size)
<1>0. StoreInv /\ OneSize /\ TypeOK
  BY DEF QuotaInv, StoreInv
<1>1. job[w] # NoJob /\ n \in RunIds /\ job[w].size \in Nat /\ job[w].size \in Seen
  BY InRun DEF StoreInv, QuotaInv, OneSize
<1>2. job' = [job EXCEPT ![w] = j]
  BY DEF Become, NextJob
<1>3. j.run = n /\ j.size = job[w].size /\ j.dev = job[w].dev /\ j.pc = "persist" /\ j.ok
  BY DEF NextJob
<1> HIDE DEF j
<1>4. job'[w] = j /\ \A v \in Workers : v # w => job'[v] = job[v]
  BY <1>2 DEF StoreInv, TypeOK
<1>5. \A r \in rows : r.run # n
  BY <1>1, NoRowYet DEF Known
<1>6. \A v \in Workers : v # w /\ job[v] # NoJob => job[v].run # n
  BY <1>1 DEF StoreInv, RunsNumbered
<1>7. ~Pends(w) /\ \A v \in Workers : v # w => (Pends(v)' <=> Pends(v))
  BY <1>4 DEF Pends
<1> DEFINE Others == {job[v].run : v \in {u \in Workers \ {w} : Pends(u)}}
<1>8. Charged' \subseteq (OkRuns \cup {n}) \cup Others /\ Charged' \subseteq Charged \cup {n}
  BY <1>3, <1>4, <1>7 DEF Charged, OkRuns
<1>9. n \notin Charged /\ n \notin OkRuns
  BY <1>5, <1>6, <1>7 DEF Charged, OkRuns, Pends
<1>10. Limit > 0 => job[w].size <= Limit
  <2> SUFFICES ASSUME Limit > 0, job[w].size > 0 PROVE job[w].size <= Limit
    BY <1>1, BoundAssumption
  <2>1. PICK sz \in [RunIds -> Nat] : Priced(sz)
    BY DEF QuotaInv, ChargeBounded
  <2>2. Used \in Nat
    BY <1>0, <2>1, OkRunsUsed DEF Priced
  <2> QED
    BY <1>1, <2>2, BoundAssumption DEF Fits
<1>11. OneSize'
  <2>1. ASSUME NEW v \in Workers, job'[v] # NoJob
        PROVE  /\ \A r \in rows : r.run = job'[v].run => r.dev = job'[v].dev /\ r.size = job'[v].size
               /\ job'[v].size \in Seen /\ (Limit > 0 /\ Pends(v)' => job'[v].size <= Limit)
    <3>1. CASE v = w
      BY <1>1, <1>3, <1>4, <1>5, <1>10, <3>1
    <3>2. CASE v # w
      BY <1>0, <1>4, <1>7, <2>1, <3>2 DEF OneSize
    <3> QED
      BY <3>1, <3>2
  <2> QED
    BY <1>0, <2>1 DEF OneSize, Seen
<1>12. ChargeBounded'
  <2>1. PICK old \in [RunIds -> Nat] : Priced(old) /\ (Limit > 0 => Sum(old, Charged) <= QuotaBound)
    BY DEF QuotaInv, ChargeBounded
  <2>2. PICK sz \in [RunIds -> Nat] : sz[n] = job[w].size /\ \A m \in RunIds : m # n => sz[m] = old[m]
    <3>1. [old EXCEPT ![n] = job[w].size] \in [RunIds -> Nat]
      BY <1>1, <2>1
    <3> QED
      BY <1>1, <2>1, <3>1
  <2>3. Priced(sz) /\ Priced(sz)'
    <3>1. ASSUME NEW v \in Workers, v # w, Pends(v) PROVE sz[job[v].run] = job[v].size
      <4>1. job[v].run \in RunIds /\ job[v].run # n
        BY <1>0, <1>6, <3>1, ChargedShape DEF Pends
      <4> QED
        BY <2>1, <2>2, <3>1, <4>1 DEF Priced
    <3>2. ASSUME NEW r \in rows, r.ok PROVE sz[r.run] = r.size
      <4>1. r.run \in RunIds /\ r.run # n
        BY <1>0, <1>5 DEF TypeOK, Rows
      <4> QED
        BY <2>1, <2>2, <3>2, <4>1 DEF Priced
    <3>3. Priced(sz)
      BY <1>7, <3>1, <3>2 DEF Priced
    <3>4. ASSUME NEW v \in Workers, Pends(v)' PROVE sz[job'[v].run] = job'[v].size
      BY <1>3, <1>4, <1>7, <2>2, <3>1, <3>4
    <3>5. Priced(sz)'
      BY <3>2, <3>4 DEF Priced
    <3> QED
      BY <3>3, <3>5
  <2>4. IsFiniteSet(RunIds) /\ OkRuns \subseteq RunIds /\ Charged \subseteq RunIds /\ Others \subseteq RunIds
        /\ \A m \in RunIds : sz[m] \in Nat
    BY <1>0, <2>2, ChargedShape
  <2> HIDE DEF Others, n
  <2>5. \A S \in SUBSET RunIds : IsFiniteSet(S) /\ Sum(sz, S) \in Nat
    <3> TAKE S \in SUBSET RunIds
    <3>1. IsFiniteSet(S) /\ \A m \in S : sz[m] \in Nat
      BY <2>4, FS_Subset
    <3> QED
      BY <3>1, SumSteps
  <2>6. \A S \in SUBSET RunIds : n \notin S => Sum(sz, S \cup {n}) = job[w].size + Sum(sz, S)
    <3> SUFFICES ASSUME NEW S \in SUBSET RunIds, n \notin S
                 PROVE  Sum(sz, S \cup {n}) = job[w].size + Sum(sz, S)
      OBVIOUS
    <3>1. IsFiniteSet(S \cup {n}) /\ (\A m \in S \cup {n} : sz[m] \in Nat) /\ (S \cup {n}) \ {n} = S
      BY <1>1, <2>4, <2>5
    <3>2. Sum(sz, S \cup {n}) = sz[n] + Sum(sz, (S \cup {n}) \ {n})
      BY <3>1, SumSteps
    <3> QED
      BY <2>2, <3>1, <3>2
  <2>7. \A S, T \in SUBSET RunIds : S \subseteq T => Sum(sz, S) <= Sum(sz, T)
    <3> SUFFICES ASSUME NEW S \in SUBSET RunIds, NEW T \in SUBSET RunIds, S \subseteq T
                 PROVE  Sum(sz, S) <= Sum(sz, T)
      OBVIOUS
    <3>1. IsFiniteSet(T) /\ \A m \in T : sz[m] \in Nat
      BY <2>4, <2>5
    <3> QED
      BY <3>1, SumOfPart
  <2>8. Charged' \in SUBSET RunIds /\ OkRuns \cup {n} \in SUBSET RunIds /\ Charged \cup {n} \in SUBSET RunIds
        /\ (OkRuns \cup {n}) \cup Others \in SUBSET RunIds
    BY <1>1, <1>8, <2>4
  <2>9. ASSUME Limit > 0, job[w].size = 0 PROVE Sum(sz, Charged') <= QuotaBound
    <3>1. Sum(sz, Charged') <= Sum(sz, Charged)
      <4>1. Sum(sz, Charged \cup {n}) = job[w].size + Sum(sz, Charged)
        BY <1>9, <2>4, <2>6
      <4>2. Sum(sz, Charged') <= Sum(sz, Charged \cup {n})
        BY <1>8, <2>7, <2>8
      <4>3. Sum(sz, Charged) \in Nat
        BY <2>4, <2>5
      <4>4. Sum(sz, Charged \cup {n}) = Sum(sz, Charged)
        BY <2>9, <4>1, <4>3
      <4> QED
        BY <4>2, <4>4
    <3>2. Sum(sz, Charged) <= Sum(old, Charged)
      <4>1. IsFiniteSet(Charged) /\ \A m \in Charged : old[m] \in Nat /\ sz[m] = old[m]
        BY <1>9, <2>1, <2>2, <2>4, <2>5
      <4> QED
        BY <4>1, SumAgrees
    <3>3. Sum(old, Charged) \in Nat
      <4>1. IsFiniteSet(Charged) /\ \A m \in Charged : old[m] \in Nat
        BY <2>1, <2>4, <2>5
      <4> QED
        BY <4>1, SumSteps
    <3> QED
      BY <2>1, <2>4, <2>5, <2>8, <2>9, <3>1, <3>2, <3>3, SizesShape
  <2>10. ASSUME Limit > 0, job[w].size > 0 PROVE Sum(sz, Charged') <= QuotaBound
    <3>1. Used + job[w].size <= Limit
      BY <2>10 DEF Fits
    <3>2. Sum(sz, OkRuns) <= Used /\ Used \in Nat
      BY <1>0, <2>2, <2>3, OkRunsUsed DEF Priced
    <3>3. Sum(sz, Others) <= (NumWorkers - 1) * Max(Sizes)
      BY <1>0, <2>2, <2>3, <2>10, OthersBounded DEF Others
    <3>4. Sum(sz, (OkRuns \cup {n}) \cup Others) <= Sum(sz, OkRuns \cup {n}) + Sum(sz, Others)
      BY <2>4, <2>8, SumOfUnion
    <3>5. Sum(sz, OkRuns \cup {n}) = job[w].size + Sum(sz, OkRuns)
      BY <1>9, <2>4, <2>6
    <3>6. Sum(sz, Charged') <= Sum(sz, (OkRuns \cup {n}) \cup Others)
      BY <1>8, <2>7, <2>8
    <3>7. /\ Sum(sz, Charged') \in Nat /\ Sum(sz, OkRuns) \in Nat /\ Sum(sz, Others) \in Nat
          /\ Sum(sz, OkRuns \cup {n}) \in Nat /\ Sum(sz, (OkRuns \cup {n}) \cup Others) \in Nat
      BY <2>4, <2>5, <2>8
    <3>8. (NumWorkers - 1) * Max(Sizes) \in Int
      BY SizesShape, BoundAssumption
    <3> QED
      BY <1>1, <3>1, <3>2, <3>3, <3>4, <3>5, <3>6, <3>7, <3>8, BoundAssumption DEF QuotaBound
  <2>11. Limit > 0 => Sum(sz, Charged') <= QuotaBound
    BY <1>1, <2>9, <2>10
  <2> QED
    BY <2>2, <2>3, <2>11 DEF ChargeBounded, QuotaBound, Sum, Totals, Max, Sizes, RunIds
<1> QED
  BY <1>11, <1>12 DEF QuotaInv

\* A commit: the run was charged, if it succeeded, and its row is of its size.
LEMMA CommitCharge ==
    ASSUME StoreInv, QuotaInv, TypeOK', NEW w \in Workers, job[w] # NoJob,
           job[w].pc \in {"persist", "again"}, NEW j, job' = [job EXCEPT ![w] = j],
           rows' = rows \/ \E copy \in 1 .. 2 : rows' = rows \cup {Row(w, copy)},
           \/ j = NoJob
           \/ j.run = job[w].run /\ j.dev = job[w].dev /\ j.size = job[w].size /\ j.ok = job[w].ok
    PROVE  QuotaInv'
<1>1. job'[w] = j /\ \A v \in Workers : v # w => job'[v] = job[v]
  BY DEF StoreInv, TypeOK
<1>2. \A v \in Workers : job'[v] # NoJob =>
        /\ job[v] # NoJob /\ job'[v].run = job[v].run /\ job'[v].dev = job[v].dev
        /\ job'[v].size = job[v].size /\ job'[v].ok = job[v].ok
  BY <1>1
<1>3. \A v \in Workers : Pends(v)' => Pends(v)
  BY <1>1, <1>2 DEF Pends
<1>4. \A r \in rows' : \/ r \in rows
                       \/ /\ r.run = job[w].run /\ r.dev = job[w].dev /\ r.size = job[w].size
                          /\ r.ok = job[w].ok
  BY DEF Row
<1>5. \A v \in Workers : job[v] # NoJob /\ job[v].run = job[w].run => v = w
  BY DEF StoreInv, RunsNumbered
<1>6. OneSize'
  <2>1. IsFiniteSet(rows')
    BY FS_AddElement DEF QuotaInv, OneSize
  <2>2. \A r, s \in rows' : r.run = s.run => r.dev = s.dev /\ r.size = s.size
    BY <1>4 DEF QuotaInv, OneSize
  <2>3. ASSUME NEW v \in Workers, NEW r \in rows', job'[v] # NoJob, r.run = job'[v].run
        PROVE  r.dev = job'[v].dev /\ r.size = job'[v].size
    <3>1. CASE r \in rows
      BY <1>2, <2>3, <3>1 DEF QuotaInv, OneSize
    <3>2. CASE r \notin rows
      <4>1. v = w
        BY <1>2, <1>4, <1>5, <2>3, <3>2
      <4> QED
        BY <1>2, <1>4, <2>3, <3>2, <4>1
    <3> QED
      BY <3>1, <3>2
  <2>4. ASSUME NEW v \in Workers, job'[v] # NoJob
        PROVE  job'[v].size \in Seen /\ (Limit > 0 /\ Pends(v)' => job'[v].size <= Limit)
    BY <1>2, <1>3, <2>4 DEF QuotaInv, OneSize
  <2> QED
    BY <2>1, <2>2, <2>3, <2>4 DEF OneSize, Seen
<1>7. ChargeBounded'
  <2>1. PICK sz \in [RunIds -> Nat] : Priced(sz) /\ (Limit > 0 => Sum(sz, Charged) <= QuotaBound)
    BY DEF QuotaInv, ChargeBounded
  <2>2. job[w].ok => Pends(w)
    BY DEF Pends
  <2>3. ASSUME NEW v \in Workers, Pends(v)' PROVE Pends(v) /\ sz[job'[v].run] = job'[v].size
    BY <1>2, <1>3, <2>1, <2>3 DEF Pends, Priced
  <2>4. ASSUME NEW r \in rows', r.ok PROVE sz[r.run] = r.size /\ r.run \in Charged
    <3>1. CASE r \in rows
      BY <2>1, <2>4, <3>1 DEF Priced, Charged, OkRuns
    <3>2. CASE r \notin rows
      BY <1>4, <2>1, <2>2, <2>4, <3>2 DEF Priced, Charged
    <3> QED
      BY <3>1, <3>2
  <2>5. Priced(sz)'
    BY <2>3, <2>4 DEF Priced
  <2>6. Charged' \subseteq Charged
    <3>1. OkRuns' \subseteq Charged
      BY <2>4 DEF OkRuns
    <3>2. \A v \in Workers : Pends(v)' => job'[v].run \in Charged
      BY <1>2, <1>3 DEF Pends, Charged
    <3> QED
      BY <3>1, <3>2 DEF Charged
  <2>7. Charged \subseteq RunIds /\ IsFiniteSet(Charged) /\ \A n \in Charged : sz[n] \in Nat
    BY ChargedShape, FS_Subset DEF StoreInv
  <2>8. Sum(sz, Charged') <= Sum(sz, Charged)
    BY <2>6, <2>7, SumOfPart
  <2>9. Sum(sz, Charged) \in Nat /\ Sum(sz, Charged') \in Nat
    <3>1. IsFiniteSet(Charged') /\ \A n \in Charged' : sz[n] \in Nat
      BY <2>6, <2>7, FS_Subset
    <3> QED
      BY <2>7, <3>1, SumSteps
  <2>10. Limit > 0 => Sum(sz, Charged') <= QuotaBound
    BY <2>1, <2>8, <2>9, SizesShape
  <2> QED
    BY <2>5, <2>10 DEF ChargeBounded, QuotaBound, Sum, Totals, Max, Sizes, RunIds
<1> QED
  BY <1>6, <1>7 DEF QuotaInv

LEMMA WorkCharge ==
    ASSUME StoreInv, StoreInv', QuotaInv, NEW w \in Workers, Work(w)
    PROVE  QuotaInv'
<1>0. TypeOK /\ TypeOK' /\ 0 \in Seen
  BY DEF StoreInv, Seen
<1>1. job[w] # NoJob
  BY <1>0, InRun DEF Work, Refused, Unreachable, Fails, ReturnsPath, ReturnsNoPath, Writes, Measure,
     Verify, Quota, Persist
<1>2. job[w].size \in Seen
  BY <1>1 DEF QuotaInv, OneSize
<1>3. CASE Refused(w) \/ Unreachable(w) \/ Fails(w)
  BY <1>0, <1>1, <1>3, BecomeCharge DEF Refused, Unreachable, Fails
<1>4. CASE ReturnsPath(w)
  BY <1>0, <1>1, <1>4, BecomeCharge DEF ReturnsPath
<1>5. CASE ReturnsNoPath(w)
  BY <1>0, <1>1, <1>5, BecomeCharge DEF ReturnsNoPath
<1>6. ASSUME NEW c \in Contents, Writes(w, c) PROVE QuotaInv'
  BY <1>0, <1>1, <1>6, BecomeCharge DEF Writes
<1>7. CASE Measure(w)
  <2>1. job[w].pc = "measure" /\ job[w].path \in Paths /\ UNCHANGED rows
    BY <1>1, <1>7 DEF Measure, StoreInv, PathHeld, HasFile
  <2>2. ASSUME NEW size \in Seen, Become(w, "verify", TRUE, job[w].path, size) PROVE QuotaInv'
    BY <1>0, <1>1, <2>1, <2>2, BecomeCharge
  <2>3. CASE files[job[w].path] = NoFile
    BY <1>0, <1>7, <2>2, <2>3 DEF Measure
  <2>4. CASE files[job[w].path] # NoFile /\ files[job[w].path].what.kind = "dir"
    <3>1. job' = [job EXCEPT ![w] = NoJob]
      BY <1>7, <2>4 DEF Measure
    <3>2. job'[w] = NoJob /\ \A v \in Workers : v # w => job'[v] = job[v]
      BY <1>0, <3>1 DEF TypeOK
    <3>3. \A v \in Workers : (job'[v] # NoJob => job'[v] = job[v]) /\ (Pends(v)' => Pends(v) /\ job'[v] = job[v])
      BY <3>2 DEF Pends
    <3> QED
      BY <1>0, <2>1, <3>3, QuietCharge DEF QuotaInv, OneSize
  <2>5. CASE files[job[w].path] # NoFile /\ files[job[w].path].what.kind # "dir"
    <3>1. files[job[w].path].what.size \in Seen
      BY <1>0, <2>1, <2>5, FileShape DEF Seen
    <3>2. Become(w, "verify", TRUE, job[w].path, files[job[w].path].what.size)
      BY <1>7, <2>5 DEF Measure
    <3> QED
      BY <2>2, <3>1, <3>2
  <2> QED
    BY <2>4, <2>5, <2>3
<1>8. CASE Verify(w)
  <2> DEFINE good == Validated(files[job[w].path])
  <2>1. /\ job[w].pc = "verify" /\ UNCHANGED rows
        /\ Become(w, IF good THEN "quota" ELSE "persist", good, job[w].path, job[w].size)
    BY <1>8 DEF Verify
  <2> HIDE DEF good
  <2>2. ~((IF good THEN "quota" ELSE "persist") \in {"persist", "again"} /\ good)
    OBVIOUS
  <2> QED
    BY <1>0, <1>1, <1>2, <2>1, <2>2, BecomeCharge
<1>9. CASE Quota(w)
  <2>1. job[w].pc = "quota" /\ UNCHANGED rows
    BY <1>9 DEF Quota
  <2>2. CASE Fits(job[w].size) /\ Become(w, "persist", TRUE, job[w].path, job[w].size)
    BY <1>0, <2>1, <2>2, PassCharge
  <2>3. CASE Become(w, "persist", FALSE, NoPath, 0)
    BY <1>0, <1>1, <2>1, <2>3, BecomeCharge
  <2> QED
    BY <1>9, <2>2, <2>3 DEF Quota
<1>10. CASE Persist(w)
  <2>1. job[w].pc \in {"persist", "again"} /\ job' = [job EXCEPT ![w] = NoJob]
        /\ \E copy \in 1 .. 2 : rows' = rows \cup {Row(w, copy)}
    BY <1>10 DEF Persist, Recorded
  <2> QED
    BY <1>0, <1>1, <2>1, CommitCharge
<1> QED
  BY <1>3, <1>4, <1>5, <1>6, <1>7, <1>8, <1>9, <1>10 DEF Work

LEMMA QuotaInvKept == StoreInv /\ StoreInv' /\ QuotaInv /\ [Next]_vars => QuotaInv'
<1> SUFFICES ASSUME StoreInv, StoreInv', QuotaInv, [Next]_vars PROVE QuotaInv'
  OBVIOUS
<1>0. TypeOK /\ TypeOK' /\ 0 \in Seen
  BY DEF StoreInv, Seen
<1>1. ASSUME rows' \subseteq rows,
             \A v \in Workers : job'[v] # NoJob => job'[v] = job[v]
      PROVE  QuotaInv'
  <2>1. \A v \in Workers : Pends(v)' => Pends(v) /\ job'[v] = job[v]
    BY <1>1 DEF Pends
  <2> QED
    BY <1>0, <1>1, <2>1, QuietCharge DEF QuotaInv, OneSize
<1>2. ASSUME NEW w \in Workers, PersistDrops(w) PROVE QuotaInv'
  <2> DEFINE j == [job[w] EXCEPT !.pc = "again"]
  <2>1. job[w] # NoJob /\ job[w].pc = "persist" /\ job[w] \in Jobs
    BY <1>0, <1>2, InRun DEF PersistDrops
  <2>2. /\ job' = [job EXCEPT ![w] = j]
        /\ rows' = rows \/ \E copy \in 1 .. 2 : rows' = rows \cup {Row(w, copy)}
    BY <1>2 DEF PersistDrops, Recorded
  <2>3. j.run = job[w].run /\ j.dev = job[w].dev /\ j.size = job[w].size /\ j.ok = job[w].ok
    BY <2>1 DEF Jobs
  <2> HIDE DEF j
  <2> QED
    BY <1>0, <2>1, <2>2, <2>3, CommitCharge
<1>3. ASSUME NEW w \in Workers, Lost(w) PROVE QuotaInv'
  <2>1. rows' = rows /\ \A v \in Workers : job'[v] # NoJob => job'[v] = job[v]
    BY <1>0, <1>3 DEF Lost, TypeOK
  <2> QED
    BY <1>1, <2>1
<1>4. ASSUME NEW w \in Workers, NEW d \in Devices, Start(w, d) PROVE QuotaInv'
  <2> DEFINE j == [pc |-> "script", run |-> runs + 1, dev |-> d, ok |-> FALSE, path |-> NoPath, size |-> 0]
  <2>1. job' = [job EXCEPT ![w] = j] /\ rows' = rows
    BY <1>4 DEF Start
  <2>2. j.run = runs + 1 /\ j.size = 0 /\ j.pc = "script"
    OBVIOUS
  <2> HIDE DEF j
  <2>3. job'[w] = j /\ \A v \in Workers : v # w => job'[v] = job[v]
    BY <1>0, <2>1 DEF TypeOK
  <2>4. \A r \in rows : r.run # runs + 1
    <3>1. runs \in Int /\ \A r \in rows : r.run <= runs /\ r.run \in Int
      BY <1>0, BoundAssumption DEF StoreInv, RowsHonest, Known, TypeOK, Rows, RunIds
    <3> QED
      BY <3>1
  <2>5. \A v \in Workers : Pends(v)' => Pends(v) /\ job'[v] = job[v]
    BY <2>2, <2>3 DEF Pends
  <2>6. \A v \in Workers : job'[v] # NoJob =>
              /\ job'[v].size \in Seen
              /\ job'[v] = job[v] \/ \A r \in rows : r.run # job'[v].run
    BY <1>0, <2>2, <2>3, <2>4 DEF QuotaInv, OneSize
  <2> QED
    BY <1>0, <2>1, <2>5, <2>6, QuietCharge
<1>5. ASSUME NEW c \in Cleaners, Clean(c) \/ CleanerDies(c) \/ \E k \in Removals : Pick(c, k)
      PROVE  QuotaInv'
  <2>1. rows' \subseteq rows /\ job' = job
    BY <1>5 DEF Clean, RemoveFile, CommitRemoval, CleanerDies, Pick
  <2> QED
    BY <1>1, <2>1
<1>6. CASE (\E d \in Devices : Toggle(d)) \/ TimePasses \/ UNCHANGED vars
  <2>1. rows' = rows /\ job' = job
    BY <1>6 DEF Toggle, TimePasses, vars
  <2> QED
    BY <1>1, <2>1
<1> QED
  BY <1>2, <1>3, <1>4, <1>5, <1>6, WorkCharge DEF Next

LEMMA QuotaInit == Init => QuotaInv
<1> SUFFICES ASSUME Init PROVE QuotaInv
  OBVIOUS
<1>1. rows = {} /\ \A w \in Workers : job[w] = NoJob
  BY DEF Init
<1>2. Charged = {}
  BY <1>1 DEF Charged, OkRuns, Pends
<1>3. OneSize
  BY <1>1, FS_EmptySet DEF OneSize
<1>4. ChargeBounded
  <2> DEFINE sz == [n \in RunIds |-> 0]
  <2>1. sz \in [RunIds -> Nat] /\ Priced(sz)
    BY <1>1 DEF Priced, Pends
  <2>2. Sum(sz, {}) = 0
    BY FS_EmptySet, SumSteps
  <2>3. Sum(sz, Charged) <= QuotaBound
    BY <1>2, <2>2, SizesShape
  <2> HIDE DEF sz
  <2> QED
    BY <2>1, <2>3 DEF ChargeBounded
<1> QED
  BY <1>3, <1>4 DEF QuotaInv

\* The storage of the successful runs passes the limit by no more than one file
\* of every other worker.
THEOREM QuotaHolds == Spec => []QuotaOvershoot
<1>1. ASSUME StoreInv, QuotaInv PROVE QuotaOvershoot
  <2> SUFFICES ASSUME Limit > 0 PROVE MapThenSumSet(LAMBDA r : r.size, GoodRuns) <= QuotaBound
    BY DEF QuotaOvershoot, QuotaBound
  <2>1. PICK sz \in [RunIds -> Nat] : Priced(sz) /\ Sum(sz, Charged) <= QuotaBound
    BY <1>1 DEF QuotaInv, ChargeBounded
  <2> DEFINE e == [r \in GoodRuns |-> r.size]
             i == [r \in GoodRuns |-> r.run]
  <2>2. GoodRuns \subseteq rows /\ IsFiniteSet(GoodRuns)
    BY <1>1, FS_Subset DEF GoodRuns, QuotaInv, OneSize
  <2>3. \A r \in rows : r \in Rows /\ r.size \in Nat
    BY <1>1 DEF StoreInv, TypeOK, Rows
  <2>4. MapThenSumSet(LAMBDA r : r.size, GoodRuns) = Sum(e, GoodRuns)
    BY <2>2, <2>3, SizesFold
  <2>5. \A r \in GoodRuns : e[r] \in Nat /\ i[r] \in Charged /\ e[r] = sz[i[r]]
    BY <2>1, <2>2, <2>3 DEF Charged, OkRuns, GoodRuns, Priced
  <2>6. \A r, s \in GoodRuns : i[r] = i[s] => r = s
    <3> SUFFICES ASSUME NEW r \in GoodRuns, NEW s \in GoodRuns, r.run = s.run PROVE r = s
      OBVIOUS
    <3>1. r \in rows /\ s \in rows /\ r \in Rows /\ s \in Rows
      BY <2>2, <2>3
    <3>2. r.dev = s.dev /\ r.size = s.size
      BY <1>1, <3>1 DEF QuotaInv, OneSize
    <3>3. r.ok = s.ok /\ r.path = s.path /\ r.at = s.at
      BY <1>1, <3>1 DEF StoreInv, TwoCopies, Known
    <3>4. r.copy = s.copy
      BY <3>1 DEF GoodRuns, Rows
    <3> QED
      BY <3>1, <3>2, <3>3, <3>4 DEF Rows
  <2>7. IsFiniteSet(Charged) /\ \A n \in Charged : sz[n] \in Nat
    BY <1>1, ChargedShape, FS_Subset DEF StoreInv
  <2> HIDE DEF e, i
  <2>8. Sum(e, GoodRuns) <= Sum(sz, Charged)
    <3>1. \A r \in GoodRuns : i[r] \in Charged /\ e[r] <= sz[i[r]]
      BY <2>5, <2>7
    <3>2. \A r \in GoodRuns : e[r] \in Nat
      BY <2>5
    <3> QED
      BY <2>2, <2>6, <2>7, <3>1, <3>2, SumInto
  <2>9. Sum(e, GoodRuns) \in Nat /\ Sum(sz, Charged) \in Nat
    BY <2>2, <2>5, <2>7, SumSteps
  <2> QED
    BY <2>1, <2>4, <2>8, <2>9, SizesShape
<1>2. StoreInv /\ QuotaInv => QuotaOvershoot
  BY <1>1
<1> QED
  BY <1>2, StoreInit, StoreKept, QuotaInit, QuotaInvKept, PTL DEF Spec

-----------------------------------------------------------------------------
(* What becomes of a run: BackupLife. *)

\* Where the workers, the rows and the number of runs tell nothing new of a run, its life goes on.
LEMMA SameLife ==
    ASSUME NEW n \in RunIds, n > runs <=> n > runs', Running(n) <=> Running(n)',
           n > runs \/ Running(n) \/ RowsOf(n)' = RowsOf(n)
    PROVE  LifeOf(n)' = LifeOf(n) /\ SavedAt(n)' = SavedAt(n)
<1>1. LifeOf(n)' = LifeOf(n)
  BY DEF LifeOf, Outcome
<1>2. CASE LifeOf(n) = "saved"
  <2>1. RowsOf(n)' = RowsOf(n)
    BY <1>2 DEF LifeOf
  <2> QED
    BY <1>1, <2>1 DEF SavedAt
<1>3. CASE LifeOf(n) # "saved"
  BY <1>1, <1>3 DEF SavedAt
<1> QED
  BY <1>1, <1>2, <1>3

\* A saved run has rows of success only, all of the moment it was saved.
LEMMA SavedRows ==
    ASSUME StoreInv, NEW n \in RunIds, LifeOf(n) = "saved", NEW r \in RowsOf(n)
    PROVE  r.ok /\ r.at = SavedAt(n)
<1>1. \E s \in RowsOf(n) : s.ok
  BY DEF LifeOf, Outcome
<1> DEFINE s == CHOOSE t \in RowsOf(n) : t.ok
<1>2. s \in RowsOf(n) /\ s.ok
  BY <1>1
<1>3. r \in Known /\ s \in Known /\ r.run = s.run
  BY <1>2 DEF RowsOf, Known
<1>4. SavedAt(n) = s.at
  BY DEF SavedAt
<1> HIDE DEF s
<1>5. r.ok = s.ok /\ r.at = s.at
  BY <1>3 DEF StoreInv, TwoCopies
<1> QED
  BY <1>2, <1>4, <1>5

\* No run moves: a stuttering step of BackupLife.
LEMMA LifeStutters ==
    ASSUME UNCHANGED clock, \A n \in RunIds : LifeOf(n)' = LifeOf(n) /\ SavedAt(n)' = SavedAt(n)
    PROVE  UNCHANGED Life!lifevars
<1>1. Lives' = Lives
  BY DEF Lives
<1>2. SavedTimes' = SavedTimes
  BY DEF SavedTimes
<1> QED
  BY <1>1, <1>2 DEF Life!lifevars

\* A worker goes on with its run and the table stays.
LEMMA LifeQuiet ==
    ASSUME UNCHANGED <<clock, rows, runs>>,
           \A v \in Workers : /\ job'[v] # NoJob <=> job[v] # NoJob
                              /\ job[v] # NoJob => job'[v].run = job[v].run
    PROVE  UNCHANGED Life!lifevars
<1> SUFFICES ASSUME NEW n \in RunIds PROVE LifeOf(n)' = LifeOf(n) /\ SavedAt(n)' = SavedAt(n)
  BY LifeStutters
<1>1. Running(n)' <=> Running(n)
  BY DEF Running
<1>2. RowsOf(n)' = RowsOf(n)
  BY DEF RowsOf
<1> QED
  BY <1>1, <1>2, SameLife

\* So it does with every step of Become.
LEMMA LifeBecome ==
    ASSUME TypeOK, NEW w \in Workers, job[w] # NoJob, UNCHANGED <<clock, rows, runs>>,
           NEW pc, NEW ok, NEW path, NEW size, pc # "idle", Become(w, pc, ok, path, size)
    PROVE  UNCHANGED Life!lifevars
<1>1. job' = [job EXCEPT ![w] = NextJob(w, pc, ok, path, size)]
  BY JobBecomes
<1>2. NextJob(w, pc, ok, path, size) # NoJob /\ NextJob(w, pc, ok, path, size).run = job[w].run
  BY DEF NextJob, NoJob
<1>3. \A v \in Workers : /\ job'[v] # NoJob <=> job[v] # NoJob
                         /\ job[v] # NoJob => job'[v].run = job[v].run
  BY <1>1, <1>2 DEF TypeOK
<1> QED
  BY <1>3, LifeQuiet

\* A run ends, with a row of this moment or without.
LEMMA LifeEnds ==
    ASSUME StoreInv, NEW w \in Workers, job[w] # NoJob, job' = [job EXCEPT ![w] = NoJob],
           UNCHANGED <<clock, runs>>,
           rows' = rows \/ \E copy \in 1 .. 2 : rows' = rows \cup {Row(w, copy)}
    PROVE  Life!Next
<1>0. PICK m \in RunIds : m = job[w].run
  BY InRun DEF StoreInv
<1>1. TypeOK /\ m <= runs /\ m \in Nat /\ runs \in Nat
  BY <1>0, BoundAssumption DEF StoreInv, RunsNumbered, RunIds, TypeOK
<1>2. job'[w] = NoJob /\ \A v \in Workers : v # w => job'[v] = job[v]
  BY <1>1 DEF TypeOK
<1>3. \A v \in Workers : v # w /\ job[v] # NoJob => job[v].run # m
  BY <1>0 DEF StoreInv, RunsNumbered
<1>4. Running(m) /\ ~Running(m)'
  BY <1>0, <1>2, <1>3 DEF Running
<1>5. \A n \in RunIds : n # m => (Running(n)' <=> Running(n))
  BY <1>0, <1>2 DEF Running
<1>6. \A r \in rows' : r \in rows \/ (r.run = m /\ r.at = clock)
  BY <1>0 DEF Row
<1>7. \A n \in RunIds : n # m => RowsOf(n)' = RowsOf(n)
  BY <1>6 DEF RowsOf
<1>8. \A r \in RowsOf(m)' : r.at = clock
  BY <1>0, <1>6 DEF RowsOf, StoreInv, RowsOfJob, Known
<1>9. \A n \in RunIds : n # m => LifeOf(n)' = LifeOf(n) /\ SavedAt(n)' = SavedAt(n)
  BY <1>5, <1>7, SameLife
<1>10. LifeOf(m) = "running" /\ LifeOf(m)' \in {"saved", "failed", "gone"}
  BY <1>1, <1>4 DEF LifeOf, Outcome
<1>11. SavedAt(m)' = IF LifeOf(m)' = "saved" THEN clock ELSE 0
  <2>1. CASE LifeOf(m)' = "saved"
    <3>1. \E r \in RowsOf(m)' : r.ok
      BY <1>1, <1>4, <2>1 DEF LifeOf, Outcome
    <3>2. (CHOOSE r \in RowsOf(m)' : r.ok) \in RowsOf(m)'
      BY <3>1
    <3> QED
      BY <1>8, <2>1, <3>2 DEF SavedAt
  <2> QED
    BY <2>1 DEF SavedAt
<1>12. Lives' = [Lives EXCEPT ![m] = LifeOf(m)']
  BY <1>1, <1>9 DEF Lives
<1>13. SavedTimes' = [SavedTimes EXCEPT ![m] = IF LifeOf(m)' = "saved" THEN clock ELSE 0]
  BY <1>1, <1>9, <1>11 DEF SavedTimes
<1>14. Lives[m] = "running" /\ Lives'[m] # "running"
  BY <1>1, <1>10 DEF Lives
<1>15. Life!End(m)
  BY <1>10, <1>12, <1>13, <1>14 DEF Life!End
<1> QED
  BY <1>1, <1>15 DEF Life!Next

\* A run is started: BackupLife's Begin of the next run.
LEMMA LifeBegins ==
    ASSUME StoreInv, NEW w \in Workers, NEW d \in Devices, Start(w, d)
    PROVE  Life!Next
<1>1. PICK m \in RunIds : m = runs + 1
  BY BoundAssumption DEF Start, StoreInv, TypeOK, RunIds
<1>2. TypeOK /\ runs \in Nat /\ m = runs + 1 /\ runs' = m /\ UNCHANGED <<clock, rows>>
  BY <1>1, BoundAssumption DEF StoreInv, TypeOK, Start
<1>3. /\ job[w] = NoJob /\ job'[w] # NoJob /\ job'[w].run = m
      /\ \A v \in Workers : v # w => job'[v] = job[v]
  BY <1>2 DEF Start, TypeOK, NoJob
<1>4. \A v \in Workers : job[v] # NoJob => job[v].run \in Nat /\ job[v].run <= runs
  BY <1>2, InRun DEF StoreInv, RunsNumbered, RunIds
<1>5. Running(m)'
  BY <1>3 DEF Running
<1>6. \A n \in RunIds : n # m => (Running(n)' <=> Running(n))
  BY <1>3 DEF Running
<1>7. \A n \in RunIds : n # m => LifeOf(n)' = LifeOf(n) /\ SavedAt(n)' = SavedAt(n)
  <2> SUFFICES ASSUME NEW n \in RunIds, n # m
               PROVE  LifeOf(n)' = LifeOf(n) /\ SavedAt(n)' = SavedAt(n)
    OBVIOUS
  <2>1. n > runs <=> n > runs'
    BY <1>2 DEF RunIds
  <2>2. RowsOf(n)' = RowsOf(n)
    BY <1>2 DEF RowsOf
  <2> QED
    BY <1>6, <2>1, <2>2, SameLife
<1>8. LifeOf(m) = "none" /\ LifeOf(m)' = "running"
  <2>1. m > runs /\ ~(m > runs')
    BY <1>2
  <2> QED
    BY <1>5, <2>1 DEF LifeOf
<1>9. SavedAt(m) = 0 /\ SavedAt(m)' = 0
  BY <1>8 DEF SavedAt
<1>10. Lives[m] = "none" /\ Lives' = [Lives EXCEPT ![m] = "running"]
  BY <1>7, <1>8 DEF Lives
<1>11. SavedTimes' = SavedTimes
  BY <1>7, <1>9 DEF SavedTimes
<1>12. Life!Begin(m)
  BY <1>2, <1>10, <1>11 DEF Life!Begin
<1> QED
  BY <1>12 DEF Life!Next

\* A cleaner commits: what it takes had failed or expired, and the runs it
\* leaves without a row go together.
LEMMA LifeForgets ==
    ASSUME StoreInv, NEW c \in Cleaners, CommitRemoval(c)
    PROVE  Life!Next \/ UNCHANGED Life!lifevars
<1>1. rows' = rows \ cleaner[c].picked /\ UNCHANGED <<clock, job, runs>>
  BY DEF CommitRemoval
<1>2. PICK N \in SUBSET RunIds :
         N = {n \in RunIds : n <= runs /\ ~Running(n) /\ RowsOf(n) # {} /\ RowsOf(n)' = {}}
  OBVIOUS
<1>3. \A n \in RunIds : n \in Nat /\ runs \in Nat /\ (Running(n)' <=> Running(n))
  BY <1>1, BoundAssumption DEF Running, RunIds, StoreInv, TypeOK
<1>4. \A n \in RunIds : RowsOf(n)' = RowsOf(n) \ cleaner[c].picked
  BY <1>1 DEF RowsOf
<1>5. \A n \in RunIds : n \notin N => LifeOf(n)' = LifeOf(n) /\ SavedAt(n)' = SavedAt(n)
  <2> SUFFICES ASSUME NEW n \in RunIds, n \notin N
               PROVE  LifeOf(n)' = LifeOf(n) /\ SavedAt(n)' = SavedAt(n)
    OBVIOUS
  <2>1. CASE n > runs \/ Running(n) \/ RowsOf(n) = {}
    BY <1>1, <1>3, <1>4, <2>1, SameLife
  <2>2. CASE n <= runs /\ ~Running(n) /\ RowsOf(n)' # {}
    <3>1. PICK r : r \in RowsOf(n)' /\ r \in RowsOf(n)
      BY <1>4, <2>2
    <3>2. \A s, t \in RowsOf(n) : s.ok = t.ok /\ s.at = t.at
      BY DEF RowsOf, Known, StoreInv, TwoCopies
    <3>3. (\E s \in RowsOf(n)' : s.ok) <=> (\E s \in RowsOf(n) : s.ok)
      BY <1>4, <3>1, <3>2
    <3>4. LifeOf(n)' = LifeOf(n)
      BY <1>1, <1>3, <2>2, <3>1, <3>3 DEF LifeOf, Outcome
    <3>5. ASSUME LifeOf(n) = "saved" PROVE SavedAt(n)' = SavedAt(n)
      <4>1. \E s \in RowsOf(n) : s.ok
        BY <3>5 DEF LifeOf, Outcome
      <4>2. (CHOOSE s \in RowsOf(n) : s.ok) \in RowsOf(n)
        BY <4>1
      <4>3. (CHOOSE s \in RowsOf(n)' : s.ok) \in RowsOf(n)
        BY <1>4, <3>3, <4>1
      <4>4. (CHOOSE s \in RowsOf(n)' : s.ok).at = (CHOOSE s \in RowsOf(n) : s.ok).at
        BY <3>2, <4>2, <4>3
      <4> QED
        BY <3>4, <3>5, <4>4 DEF SavedAt
    <3>6. ASSUME LifeOf(n) # "saved" PROVE SavedAt(n)' = SavedAt(n)
      BY <3>4, <3>6 DEF SavedAt
    <3> QED
      BY <3>4, <3>5, <3>6
  <2> QED
    BY <1>2, <1>3, <2>1, <2>2
<1>6. \A n \in N : LifeOf(n)' = "gone" /\ SavedAt(n)' = 0
  <2> SUFFICES ASSUME NEW n \in N PROVE LifeOf(n)' = "gone" /\ SavedAt(n)' = 0
    OBVIOUS
  <2>1. n \in RunIds /\ n <= runs /\ ~Running(n) /\ RowsOf(n)' = {}
    BY <1>2
  <2>2. LifeOf(n)' = "gone"
    BY <1>1, <1>3, <2>1 DEF LifeOf, Outcome
  <2> QED
    BY <2>2 DEF SavedAt
<1>7. \A n \in N : n \in RunIds /\ (LifeOf(n) = "failed" \/ (LifeOf(n) = "saved" /\ clock - SavedAt(n) > Retention))
  <2> SUFFICES ASSUME NEW n \in N
               PROVE  LifeOf(n) = "failed" \/ (LifeOf(n) = "saved" /\ clock - SavedAt(n) > Retention)
    OBVIOUS
  <2>1. n \in RunIds /\ n <= runs /\ ~Running(n) /\ RowsOf(n) # {} /\ RowsOf(n)' = {}
    BY <1>2
  <2>2. LifeOf(n) \in {"failed", "saved"}
    BY <1>3, <2>1 DEF LifeOf, Outcome
  <2>3. ASSUME LifeOf(n) = "saved" PROVE clock - SavedAt(n) > Retention
    <3>1. PICK r : r \in RowsOf(n)
      BY <2>1
    <3>2. r \in cleaner[c].picked
      BY <1>4, <2>1, <3>1
    <3>3. ~r.ok \/ clock - r.at > Retention
      BY <3>2 DEF StoreInv, PickedDue
    <3> QED
      BY <2>1, <2>3, <3>1, <3>3, SavedRows
  <2> QED
    BY <2>2, <2>3
<1>8. CASE N = {}
  BY <1>1, <1>5, <1>8, LifeStutters
<1>9. CASE N # {}
  <2>1. N \subseteq {n \in RunIds : Life!MayGo(n)}
    BY <1>7 DEF Life!MayGo, Lives, SavedTimes
  <2>2. Lives' = [n \in RunIds |-> IF n \in N THEN "gone" ELSE Lives[n]]
    BY <1>5, <1>6 DEF Lives
  <2>3. SavedTimes' = [n \in RunIds |-> IF n \in N THEN 0 ELSE SavedTimes[n]]
    BY <1>5, <1>6 DEF SavedTimes
  <2>4. Life!Forget
    <3>1. N \in (SUBSET {n \in RunIds : Life!MayGo(n)}) \ {{}}
      BY <1>9, <2>1
    <3> QED
      BY <1>1, <2>2, <2>3, <3>1, Zenon DEF Life!Forget
  <2> QED
    BY <2>4 DEF Life!Next
<1> QED
  BY <1>8, <1>9

\* The commit drops: with its row or without, the run goes on.
LEMMA LifeDrops ==
    ASSUME StoreInv, NEW w \in Workers, PersistDrops(w)
    PROVE  UNCHANGED Life!lifevars
<1>1. TypeOK /\ job[w] # NoJob /\ job[w] \in Jobs /\ UNCHANGED <<clock, runs>>
  BY InRun DEF StoreInv, PersistDrops
<1>2. job' = [job EXCEPT ![w] = [job[w] EXCEPT !.pc = "again"]]
  BY DEF PersistDrops
<1>3. job'[w] # NoJob /\ job'[w].run = job[w].run /\ \A v \in Workers : v # w => job'[v] = job[v]
  <2>1. [job[w] EXCEPT !.pc = "again"].pc = "again" /\ [job[w] EXCEPT !.pc = "again"].run = job[w].run
    BY <1>1 DEF Jobs
  <2>2. [job[w] EXCEPT !.pc = "again"] # NoJob
    BY <2>1 DEF NoJob
  <2> QED
    BY <1>1, <1>2, <2>1, <2>2 DEF TypeOK
<1>4. \A n \in RunIds : Running(n)' <=> Running(n)
  BY <1>1, <1>3 DEF Running
<1>5. \A r \in rows' : r \in rows \/ r.run = job[w].run
  BY DEF PersistDrops, Recorded, Row
<1>6. \A n \in RunIds : n # job[w].run => RowsOf(n)' = RowsOf(n)
  <2>1. rows \subseteq rows'
    BY DEF PersistDrops, Recorded
  <2> QED
    BY <1>5, <2>1 DEF RowsOf
<1>7. \A n \in RunIds : n = job[w].run => Running(n)
  BY <1>1 DEF Running
<1> QED
  BY <1>1, <1>4, <1>6, <1>7, SameLife, LifeStutters

\* A day passes for both.
LEMMA LifeTicks ==
    ASSUME TimePasses
    PROVE  Life!Next
<1>1. \A n \in RunIds : LifeOf(n)' = LifeOf(n) /\ SavedAt(n)' = SavedAt(n)
  BY SameLife DEF TimePasses, Running, RowsOf
<1>2. UNCHANGED Lives /\ UNCHANGED SavedTimes
  BY <1>1 DEF Lives, SavedTimes
<1> QED
  BY <1>2 DEF TimePasses, Life!Next, Life!Tick

\* What a worker does is a stutter, or the end of its run.
LEMMA LifeWorks ==
    ASSUME StoreInv, NEW w \in Workers, Work(w)
    PROVE  Life!Next \/ UNCHANGED Life!lifevars
<1>1. TypeOK /\ job[w] # NoJob
  BY InRun DEF StoreInv, Work, Refused, Unreachable, Fails, ReturnsPath, ReturnsNoPath, Writes,
               Measure, Verify, Quota, Persist
<1>2. ASSUME UNCHANGED <<clock, rows, runs>>,
             NEW pc \in {"wrote", "measure", "verify", "quota", "persist"}, NEW ok, NEW path, NEW size,
             Become(w, pc, ok, path, size)
      PROVE  UNCHANGED Life!lifevars
  BY <1>1, <1>2, LifeBecome
<1>3. CASE Refused(w) \/ Unreachable(w) \/ Fails(w) \/ ReturnsPath(w)
  BY <1>2, <1>3 DEF Refused, Unreachable, Fails, ReturnsPath
<1>4. CASE ReturnsNoPath(w)
  BY <1>2, <1>4 DEF ReturnsNoPath
<1>5. ASSUME NEW k \in Contents, Writes(w, k) PROVE UNCHANGED Life!lifevars
  BY <1>2, <1>5 DEF Writes
<1>6. CASE Measure(w)
  <2>1. CASE job' = [job EXCEPT ![w] = NoJob]
    BY <1>1, <1>6, <2>1, LifeEnds DEF Measure
  <2>2. CASE job' # [job EXCEPT ![w] = NoJob]
    BY <1>2, <1>6, <2>2 DEF Measure
  <2> QED
    BY <2>1, <2>2
<1>7. CASE Verify(w)
  BY <1>2, <1>7 DEF Verify
<1>8. CASE Quota(w)
  BY <1>2, <1>8 DEF Quota
<1>9. CASE Persist(w)
  <2>1. PICK copy \in 1 .. 2 : rows' = rows \cup {Row(w, copy)}
    BY <1>9 DEF Persist, Recorded
  <2> QED
    BY <1>1, <1>9, <2>1, LifeEnds DEF Persist
<1> QED
  BY <1>3, <1>4, <1>5, <1>6, <1>7, <1>8, <1>9 DEF Work

\* A step of the store is a step of BackupLife, or none.
LEMMA LifeStep == StoreInv /\ [Next]_vars => [Life!Next]_(Life!lifevars)
<1> SUFFICES ASSUME StoreInv, [Next]_vars PROVE Life!Next \/ UNCHANGED Life!lifevars
  OBVIOUS
<1>1. ASSUME NEW w \in Workers, Lost(w) PROVE Life!Next
  BY <1>1, LifeEnds DEF Lost
<1>2. ASSUME UNCHANGED <<clock, rows, job, runs>> PROVE UNCHANGED Life!lifevars
  BY <1>2, LifeQuiet
<1>3. ASSUME NEW c \in Cleaners, RemoveFile(c) \/ CleanerDies(c) \/ \E k \in Removals : Pick(c, k)
      PROVE  UNCHANGED Life!lifevars
  BY <1>2, <1>3 DEF RemoveFile, CleanerDies, Pick
<1>4. ASSUME NEW d \in Devices, Toggle(d) PROVE UNCHANGED Life!lifevars
  BY <1>2, <1>4 DEF Toggle
<1>5. CASE UNCHANGED vars
  BY <1>2, <1>5 DEF vars
<1> QED
  BY <1>1, <1>3, <1>4, <1>5, LifeWorks, LifeDrops, LifeBegins, LifeForgets, LifeTicks DEF Next, Clean

\* BackupStore implements BackupLife: whatever workers, lost commits, second sessions
\* and cleaners do at once, a run ends once, its outcome never changes, a saved one is
\* let go only after its retention, and none comes back.
THEOREM LifeRefinement == Spec => LifeKept
<1>1. Init => Life!Init
  <2> SUFFICES ASSUME Init, NEW n \in RunIds PROVE LifeOf(n) = "none" /\ SavedAt(n) = 0
    BY DEF Init, Life!Init, Lives, SavedTimes
  <2>1. LifeOf(n) = "none"
    BY DEF Init, RunIds, LifeOf
  <2> QED
    BY <2>1 DEF SavedAt
<1> QED
  BY <1>1, LifeStep, StoreInit, StoreKept, PTL DEF Spec, LifeKept, Life!Spec
=============================================================================
