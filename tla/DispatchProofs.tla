---------------------------- MODULE DispatchProofs ----------------------------
(***************************************************************************)
(* The key of the tenant and the scheduler for any number of devices,      *)
(* requests, scheduler processes and days.                                 *)
(***************************************************************************)
EXTENDS Dispatch, FiniteSetTheorems, TLAPS

LockTypes ==
    /\ flag \in BOOLEAN /\ taken \in BOOLEAN /\ key \in Batches \cup {0}
    /\ req \in [Batches -> Requests] /\ doc \in [Batches -> Docs] /\ snap \in [Batches -> Docs]
    /\ rel \in [Batches -> {"none", "get", "del"}] /\ stops \in 0..size.stops

SchedTypes ==
    /\ day \in 1..MaxDay /\ active \in [Devices -> BOOLEAN] /\ rows \subseteq Rows
    /\ run \in [Schedulers -> {NoRun} \cup Runs] /\ edits \in 0..size.edits
    /\ passes \in [Days -> Nat] /\ sent \in [Devices -> Days] /\ off \in [Devices -> BOOLEAN]

FixedTypes == size \in Sizes /\ enabled \in BOOLEAN

LEMMA TypeParts == TypeOK <=> FixedTypes /\ LockTypes /\ SchedTypes /\ crashes \in 0..size.crashes
  BY DEF TypeOK, FixedTypes, LockTypes, SchedTypes

LEMMA SizeFacts ==
    ASSUME FixedTypes
    PROVE  /\ size.batches \in 0..NumBatches /\ size.schedulers \in 0..NumSchedulers /\ size.days \in 1..MaxDay
           /\ size.crashes \in Nat /\ size.edits \in Nat /\ size.stops \in Nat /\ size.kinds \subseteq Kinds
  BY SizesAssumption DEF FixedTypes

LEMMA DispatchInit == Init => TypeOK
<1> SUFFICES ASSUME Init PROVE TypeOK
  OBVIOUS
<1>1. FixedTypes
  BY SizesAssumption DEF Init, FixedTypes
<1>2. LockTypes
  <2>1. stops \in 0..size.stops
    BY <1>1, SizeFacts DEF Init
  <2>2. flag \in BOOLEAN /\ taken \in BOOLEAN
    BY Zenon DEF Init
  <2> QED
    BY <2>1, <2>2 DEF Init, LockTypes, Requests, Docs
<1>3. SchedTypes
  <2>1. day \in 1..MaxDay /\ edits \in 0..size.edits /\ passes \in [Days -> Nat] /\ 0 \in Days /\ 1 \in Days /\ 0 \in 0..NumSchedulers
    BY <1>1, SizeFacts, BoundAssumption DEF Init, Days
  <2>2. rows \subseteq Rows
    BY <2>1 DEF Init, Rows
  <2> QED
    BY <2>1, <2>2 DEF Init, SchedTypes
<1>4. crashes \in 0..size.crashes
  BY <1>1, SizeFacts DEF Init
<1> QED
  BY <1>1, <1>2, <1>3, <1>4, TypeParts

\* A step of the key leaves the scheduler alone, and the other way round.
LEMMA LockStep ==
    ASSUME FixedTypes, LockTypes, NEW b \in Batches,
           Request(b) \/ Batch(b) \/ BeatRead(b) \/ RequestDies(b)
    PROVE  LockTypes'
<1> USE DEF LockTypes, Requests
<1>1. CASE Ask(b)
  <2>0. PICK k \in size.kinds : \E w \in WaysOf(k) :
            /\ req' = [req EXCEPT ![b] = [kind |-> k, way |-> w, pc |-> Begins(w), saw |-> 0]]
            /\ flag' \in CASE w = "reserve" -> {flag, FALSE} [] w = "silent" -> {FALSE} [] OTHER -> {flag}
    BY <1>1 DEF Ask
  <2>1. PICK w \in WaysOf(k) :
            /\ req' = [req EXCEPT ![b] = [kind |-> k, way |-> w, pc |-> Begins(w), saw |-> 0]]
            /\ flag' \in CASE w = "reserve" -> {flag, FALSE} [] w = "silent" -> {FALSE} [] OTHER -> {flag}
    BY <2>0
  <2>2. k \in Kinds /\ w \in Ways /\ Begins(w) \in {"look", "register", "running"}
    BY SizeFacts DEF WaysOf, Ways, Begins
  <2>3. flag' \in BOOLEAN
    <3>1. flag' = flag \/ flag' = FALSE
      BY <2>1
    <3> QED
      BY <3>1
  <2>4. req' \in [Batches -> Requests]
    BY <2>1, <2>2
  <2> QED
    BY <1>1, <2>3, <2>4 DEF Ask, fixed
<1>2. CASE Look(b)
  <2> DEFINE pc == IF ~enabled THEN "register" ELSE IF key = 0 THEN "set" ELSE IF Holds(key) THEN "over" ELSE "drop"
             saw == IF enabled /\ key # 0 /\ ~Holds(key) THEN key ELSE 0
  <2>1. pc \in {"register", "set", "over", "drop"} /\ saw \in Batches \cup {0}
    OBVIOUS
  <2>2. req' = [req EXCEPT ![b].pc = pc, ![b].saw = saw]
    BY <1>2 DEF Look
  <2> HIDE DEF pc, saw
  <2>3. req' = [req EXCEPT ![b] = [req[b] EXCEPT !.pc = pc, !.saw = saw]]
    BY <2>2
  <2>4. [req[b] EXCEPT !.pc = pc, !.saw = saw] \in Requests
    BY <2>1
  <2>5. req' \in [Batches -> Requests]
    BY <2>3, <2>4
  <2> QED
    BY <1>2, <2>5 DEF Look, fixed
<1>3. CASE Drop(b)
  <2>1. req' = [req EXCEPT ![b] = [req[b] EXCEPT !.pc = "set", !.saw = 0]]
    BY <1>3 DEF Drop
  <2>2. [req[b] EXCEPT !.pc = "set", !.saw = 0] \in Requests
    OBVIOUS
  <2>3. req' \in [Batches -> Requests]
    BY <2>1, <2>2
  <2> QED
    BY <1>3, <2>3 DEF Drop, fixed
<1>4. CASE SetKey(b)
  BY <1>4 DEF SetKey, Go, fixed
<1>5. ASSUME NEW d \in Docs, Written(b, d)
      PROVE  /\ key' \in Batches \cup {0} /\ taken' \in BOOLEAN
             /\ doc' \in [Batches -> Docs] /\ rel' \in [Batches -> {"none", "get", "del"}]
  BY <1>5 DEF Written
<1>6. CASE Register(b)
  BY <1>5, <1>6 DEF Register, Docs, Go, fixed
<1>7. CASE Describe(b)
  BY <1>5, <1>7 DEF Describe, Docs, Go, fixed
<1>8. CASE BeatRead(b)
  BY <1>8 DEF BeatRead, fixed
<1>9. CASE BeatWrite(b)
  BY <1>5, <1>9 DEF BeatWrite, Docs, fixed
<1>10. CASE WorkEnds(b)
  BY <1>10 DEF WorkEnds, Go, fixed
<1>11. CASE Close(b)
  BY <1>5, <1>11 DEF Close, Docs, fixed
<1>12. CASE ReleaseGet(b)
  BY <1>12 DEF ReleaseGet, fixed
<1>13. CASE ReleaseDel(b)
  BY <1>13 DEF ReleaseDel, fixed
<1>14. CASE RequestDies(b)
  BY <1>14 DEF RequestDies, Go, fixed
<1> QED
  BY <1>1, <1>2, <1>3, <1>4, <1>6, <1>7, <1>8, <1>9, <1>10, <1>11, <1>12, <1>13, <1>14 DEF Request, Batch

LEMMA SchedStep ==
    ASSUME FixedTypes, SchedTypes, NEW s \in Schedulers, Schedule(s) \/ RunDies(s)
    PROVE  SchedTypes'
<1> USE DEF SchedTypes
<1>1. CASE Check(s)
  BY <1>1 DEF Check, Runs, fixed
<1>2. CASE CheckDrops(s)
  BY <1>2 DEF CheckDrops, Runs, NoRun, fixed
<1>3. CASE Load(s)
  BY <1>3, BoundAssumption DEF Load, Runs, Days, fixed
<1>4. CASE Enqueue(s)
  <2>0. run[s].day \in 1..MaxDay
    BY <1>4 DEF Enqueue, Runs, NoRun
  <2>1. run[s].day \in Days
    BY <2>0, BoundAssumption DEF Days
  <2>2. run' \in [Schedulers -> {NoRun} \cup Runs]
    BY <1>4 DEF Enqueue, Runs, NoRun
  <2> QED
    BY <1>4, <2>1, <2>2 DEF Enqueue, fixed
<1>5. CASE Commit(s)
  <2>0. run[s].day \in 1..MaxDay /\ run[s].new \subseteq Devices
    BY <1>5 DEF Commit, Runs, NoRun
  <2>1. run[s].day + 1 \in Days
    BY <2>0, BoundAssumption DEF Days
  <2>2. s \in 0..NumSchedulers
    BY BoundAssumption DEF Schedulers
  <2>3. {[dev |-> d, by |-> s, next |-> run[s].day + 1] : d \in run[s].new} \subseteq Rows
    BY <2>0, <2>1, <2>2 DEF Rows
  <2>4. Advanced(s) \subseteq Rows
    BY <2>1 DEF Advanced, Rows
  <2>5. rows' \subseteq Rows
    BY <1>5, <2>3, <2>4 DEF Commit
  <2> QED
    BY <1>5, <2>5 DEF Commit, OffAfter, fixed
<1>6. CASE RunDies(s)
  BY <1>6 DEF RunDies, fixed
<1> QED
  BY <1>1, <1>2, <1>3, <1>4, <1>5, <1>6 DEF Schedule

LEMMA DispatchKept == TypeOK /\ [Next]_vars => TypeOK'
<1> SUFFICES ASSUME TypeOK, [Next]_vars PROVE TypeOK'
  OBVIOUS
<1>0. FixedTypes /\ LockTypes /\ SchedTypes /\ crashes \in 0..size.crashes
  BY TypeParts
<1> USE <1>0, SizeFacts
<1>1. FixedTypes' /\ size' = size
  BY DEF Next, vars, FixedTypes, fixed, Request, Batch, Schedule, Ask, Look, Drop, SetKey, Register, Describe, BeatRead,
         BeatWrite, WorkEnds, Close, ReleaseGet, ReleaseDel, RequestDies, Check, CheckDrops, Load, Enqueue, Commit,
         RunDies, ApplyDaily, Switch, KeyExpires, StopAll, FlagGone, DayPasses
<1>2. crashes' \in 0..size'.crashes
  <2>1. crashes' = crashes \/ (crashes < size.crashes /\ crashes' = crashes + 1)
    BY DEF Next, vars, Request, Batch, Schedule, Ask, Look, Drop, SetKey, Register, Describe, BeatRead,
           BeatWrite, WorkEnds, Close, ReleaseGet, ReleaseDel, RequestDies, Check, CheckDrops, Load, Enqueue, Commit,
           RunDies, ApplyDaily, Switch, KeyExpires, StopAll, FlagGone, DayPasses
  <2> QED
    BY <1>1, <2>1
<1>3. ASSUME NEW b \in Batches, Request(b) \/ Batch(b) \/ BeatRead(b) \/ RequestDies(b)
      PROVE  LockTypes' /\ SchedTypes'
  <2>1. UNCHANGED <<schedVars, size>>
    BY <1>3 DEF Request, Batch, fixed, Ask, Look, Drop, SetKey, Register, Describe, BeatRead, BeatWrite, WorkEnds, Close,
                ReleaseGet, ReleaseDel, RequestDies
  <2> QED
    BY <1>3, <2>1, LockStep DEF SchedTypes, schedVars
<1>4. ASSUME NEW s \in Schedulers, Schedule(s) \/ RunDies(s)
      PROVE  LockTypes' /\ SchedTypes'
  <2>1. LockTypes'
    BY <1>4 DEF Schedule, Check, CheckDrops, Load, Enqueue, Commit, RunDies, LockTypes, lockVars, fixed
  <2> QED
    BY <1>4, <2>1, SchedStep
<1>5. ASSUME NEW d \in Devices, ApplyDaily(d) PROVE LockTypes' /\ SchedTypes'
  <2>1. day \in Days /\ day + 1 \in Days /\ 0 \in 0..NumSchedulers
    BY BoundAssumption DEF SchedTypes, Days
  <2>2. rows' \subseteq Rows
    BY <1>5, <2>1 DEF ApplyDaily, SchedTypes, Rows
  <2> QED
    BY <1>5, <2>2 DEF ApplyDaily, LockTypes, SchedTypes, lockVars, fixed
<1>6. ASSUME NEW d \in Devices, Switch(d) PROVE LockTypes' /\ SchedTypes'
  BY <1>6 DEF Switch, LockTypes, SchedTypes, lockVars, fixed
<1>7. ASSUME KeyExpires PROVE LockTypes' /\ SchedTypes'
  BY <1>7 DEF KeyExpires, LockTypes, SchedTypes, schedVars, fixed
<1>8. ASSUME StopAll PROVE LockTypes' /\ SchedTypes'
  <2>0. PICK left : req' = [b \in Batches |-> IF req[b].pc # "running" THEN req[b]
                                             ELSE [req[b] EXCEPT !.pc = IF b \in left THEN "stopped" ELSE "over"]]
    BY <1>8 DEF StopAll
  <2>1. req' \in [Batches -> Requests]
    BY <2>0 DEF LockTypes, Requests
  <2>2. doc' \in [Batches -> Docs] /\ rel' \in [Batches -> {"none", "get", "del"}]
    BY <1>8 DEF StopAll, LockTypes, Docs
  <2>3. stops' \in 0..size'.stops
    BY <1>1, <1>8 DEF StopAll, LockTypes
  <2>4. flag' \in BOOLEAN /\ taken' \in BOOLEAN
    BY <1>8, Zenon DEF StopAll, LockTypes
  <2> QED
    BY <1>8, <2>1, <2>2, <2>3, <2>4 DEF StopAll, LockTypes, SchedTypes, schedVars, fixed
<1>9. ASSUME FlagGone PROVE LockTypes' /\ SchedTypes'
  BY <1>9 DEF FlagGone, LockTypes, SchedTypes, schedVars, fixed
<1>10. ASSUME DayPasses PROVE LockTypes' /\ SchedTypes'
  <2>1. day' \in 1..MaxDay
    BY <1>10, BoundAssumption DEF DayPasses, SchedTypes
  <2> QED
    BY <1>10, <2>1 DEF DayPasses, LockTypes, SchedTypes, lockVars, fixed
<1>11. ASSUME UNCHANGED vars PROVE LockTypes' /\ SchedTypes'
  BY <1>11 DEF vars, LockTypes, SchedTypes, lockVars, schedVars, fixed
<1>12. LockTypes' /\ SchedTypes'
  BY <1>3, <1>4, <1>5, <1>6, <1>7, <1>8, <1>9, <1>10, <1>11 DEF Next
<1> QED
  BY <1>1, <1>2, <1>12 DEF TypeOK, FixedTypes, LockTypes, SchedTypes, Requests

\* Every reachable state has the declared types.
THEOREM DispatchTypes == Spec => []TypeOK
  BY DispatchInit, DispatchKept, PTL DEF Spec

-----------------------------------------------------------------------------
(* The key of the tenant while a batch runs. *)

\* A batch that is not over has no finished document, neither written nor
\* about to be, and gives up no key.
Unfinished ==
    \A b \in Batches :
        /\ req[b].pc \in {"idle", "look", "drop", "set", "register"} => doc[b] = "none" /\ snap[b] = "none" /\ rel[b] = "none"
        /\ req[b].pc = "describe" => doc[b] = "plain" /\ snap[b] \in {"none", "plain"} /\ rel[b] = "none"
        /\ req[b].pc = "running" => doc[b] # "done" /\ snap[b] # "done" /\ rel[b] = "none"

\* Who is about to delete a key has seen the batch it names, with a document.
SeenKnown ==
    \A b \in Batches : req[b].pc = "drop" => req[b].saw \in Batches /\ doc[req[b].saw] # "none"

\* An operation that the key knows of has the key, until it is taken.
KeyOfRunning ==
    enabled /\ ~taken => \A b \in Batches : Announced(b) => key = b

KeyInv == Unfinished /\ SeenKnown /\ KeyOfRunning

LEMMA KeyInit == Init => KeyInv
  BY DEF Init, KeyInv, Unfinished, SeenKnown, KeyOfRunning, Announced, Running

\* What a batch does to its document, its key and its release.
LEMMA UnfinishedStep ==
    ASSUME LockTypes, Unfinished, NEW b \in Batches, Request(b) \/ Batch(b) \/ BeatRead(b) \/ RequestDies(b)
    PROVE  Unfinished'
<1> USE DEF LockTypes, Requests, Docs, Unfinished
<1>1. CASE Ask(b)
  <2>1. UNCHANGED <<doc, snap, rel>> /\ req[b].pc = "idle" /\ \A c \in Batches \ {b} : req'[c] = req[c]
    BY <1>1 DEF Ask
  <2>2. req'[b].pc \in {"look", "register", "running"}
    BY <1>1 DEF Ask, Begins
  <2> QED
    BY <2>1, <2>2
<1>2. CASE Look(b)
  <2>1. UNCHANGED <<doc, snap, rel>>
    BY <1>2 DEF Look
  <2>2. \A c \in Batches : req'[c].pc = req[c].pc \/ (c = b /\ req[b].pc = "look" /\ req'[c].pc \in {"register", "set", "over", "drop"})
    BY <1>2 DEF Look
  <2> QED
    BY <2>1, <2>2
<1>3. CASE Drop(b)
  BY <1>3 DEF Drop
<1>4. CASE SetKey(b)
  BY <1>4 DEF SetKey, Go
<1>5. CASE Register(b)
  BY <1>5 DEF Register, Written, Go
<1>6. CASE Describe(b)
  BY <1>6 DEF Describe, Written, Go
<1>7. CASE BeatRead(b)
  BY <1>7 DEF BeatRead
<1>8. CASE BeatWrite(b)
  BY <1>8 DEF BeatWrite, Written
<1>9. CASE WorkEnds(b)
  BY <1>9 DEF WorkEnds, Go
<1>10. CASE Close(b)
  BY <1>10 DEF Close, Written
<1>11. CASE ReleaseGet(b)
  BY <1>11 DEF ReleaseGet
<1>12. CASE ReleaseDel(b)
  BY <1>12 DEF ReleaseDel
<1>13. CASE RequestDies(b)
  BY <1>13 DEF RequestDies, Go
<1> QED
  BY <1>1, <1>2, <1>3, <1>4, <1>5, <1>6, <1>7, <1>8, <1>9, <1>10, <1>11, <1>12, <1>13 DEF Request, Batch

LEMMA SeenStep ==
    ASSUME LockTypes, Unfinished, SeenKnown, NEW b \in Batches, Request(b) \/ Batch(b) \/ BeatRead(b) \/ RequestDies(b)
    PROVE  SeenKnown'
<1> USE DEF LockTypes, Requests, Docs
<1>1. \A c \in Batches : doc[c] # "none" => doc'[c] # "none"
  BY DEF Request, Batch, Ask, Look, Drop, SetKey, Register, Describe, BeatRead, BeatWrite, WorkEnds, Close, ReleaseGet,
         ReleaseDel, RequestDies, Written
<1>2. CASE Look(b)
  <2>1. doc' = doc /\ \A c \in Batches \ {b} : req'[c] = req[c]
    BY <1>2 DEF Look
  <2>2. req'[b].pc = "drop" => enabled /\ key # 0 /\ ~Holds(key)
    BY <1>2 DEF Look
  <2>3. req'[b].saw = IF enabled /\ key # 0 /\ ~Holds(key) THEN key ELSE 0
    BY <1>2 DEF Look
  <2>4. req'[b].pc = "drop" => req'[b].saw \in Batches /\ doc[req'[b].saw] # "none"
    BY <2>2, <2>3 DEF Holds
  <2> QED
    BY <2>1, <2>4 DEF SeenKnown
<1>3. ASSUME ~Look(b) PROVE \A c \in Batches : req'[c].pc = "drop" => req[c].pc = "drop" /\ req'[c].saw = req[c].saw
  <2>1. ASSUME NEW pc, pc # "drop", Go(b, pc) PROVE \A c \in Batches : req'[c].pc = "drop" => req'[c] = req[c]
    BY <2>1 DEF Go
  <2>2. CASE Ask(b)
    <3>1. req'[b].pc # "drop" /\ \A c \in Batches \ {b} : req'[c] = req[c]
      BY <2>2 DEF Ask, Begins
    <3> QED
      BY <3>1
  <2>3. CASE Drop(b)
    BY <2>3 DEF Drop
  <2>4. CASE SetKey(b) \/ Register(b) \/ Describe(b) \/ WorkEnds(b) \/ RequestDies(b)
    BY <2>1, <2>4 DEF SetKey, Register, Describe, WorkEnds, RequestDies
  <2>5. CASE BeatRead(b) \/ BeatWrite(b) \/ Close(b) \/ ReleaseGet(b) \/ ReleaseDel(b)
    BY <2>5 DEF BeatRead, BeatWrite, Close, ReleaseGet, ReleaseDel
  <2> QED
    BY <1>3, <2>2, <2>3, <2>4, <2>5 DEF Request, Batch
<1> QED
  BY <1>1, <1>2, <1>3 DEF SeenKnown

LEMMA OwnerStep ==
    ASSUME FixedTypes, LockTypes, Unfinished, SeenKnown, KeyOfRunning,
           NEW b \in Batches, Request(b) \/ Batch(b) \/ BeatRead(b) \/ RequestDies(b)
    PROVE  KeyOfRunning'
<1> SUFFICES ASSUME enabled, ~taken', enabled' = enabled PROVE \A c \in Batches : Announced(c)' => key' = c
  BY DEF KeyOfRunning, Request, Batch, Ask, Look, Drop, SetKey, Register, Describe, BeatRead, BeatWrite, WorkEnds, Close,
         ReleaseGet, ReleaseDel, RequestDies, fixed
<1> USE DEF LockTypes, Requests, Docs, Running, Announced
<1>0. 0 \notin Batches
  BY DEF Batches
<1>1. ~taken
  BY DEF Request, Batch, Ask, Look, Drop, SetKey, Register, Describe, BeatRead, BeatWrite, WorkEnds, Close,
         ReleaseGet, ReleaseDel, RequestDies, Written
<1>2. \A c \in Batches : Announced(c) => key = c
  BY <1>1 DEF KeyOfRunning
<1>3. CASE Ask(b)
  <2>1. UNCHANGED <<doc, key>> /\ doc[b] = "none" /\ \A c \in Batches \ {b} : req'[c] = req[c]
    BY <1>3 DEF Ask, Unfinished
  <2>2. ~(req'[b].way = "reserve" /\ req'[b].pc \in {"register", "describe", "running"})
    BY <1>3 DEF Ask, Begins
  <2> QED
    BY <1>2, <2>1, <2>2
<1>4. CASE Look(b)
  BY <1>2, <1>4 DEF Look
<1>5. CASE Drop(b)
  <2>1. key \in Batches /\ doc[key] # "none" /\ ~Running(key)
    BY <1>0, <1>5 DEF Drop, SeenKnown
  <2>2. \A c \in Batches : Announced(c)' => Announced(c)
    BY <1>5 DEF Drop
  <2> QED
    BY <1>2, <2>1, <2>2
<1>6. CASE SetKey(b)
  BY <1>0, <1>2, <1>6 DEF SetKey, Go
<1>7. ASSUME NEW d \in Docs, Written(b, d), \A c \in Batches : (Running(c))' => Running(c) /\ req'[c].way = req[c].way
      PROVE  \A c \in Batches : Announced(c)' => key' = c
  <2>1. enabled /\ d = "bulk" => key \in {0, b}
    BY <1>7 DEF Written
  <2>2. key' = IF enabled /\ d = "bulk" THEN b ELSE key
    BY <1>7 DEF Written
  <2>3. doc' = [doc EXCEPT ![b] = d]
    BY <1>7 DEF Written
  <2>4. ASSUME NEW c \in Batches, Announced(c)' PROVE key' = c
    <3>1. CASE c = b /\ d = "bulk"
      BY <2>2, <3>1
    <3>2. CASE ~(c = b /\ d = "bulk")
      <4>1. Announced(c)
        BY <1>7, <2>3, <2>4, <3>2
      <4>2. key = c
        BY <1>2, <4>1
      <4> QED
        BY <1>0, <2>1, <2>2, <4>2
    <3> QED
      BY <3>1, <3>2
  <2> QED
    BY <2>4
<1>8. CASE Register(b)
  BY <1>7, <1>8 DEF Register, Go
<1>9. CASE Describe(b)
  BY <1>7, <1>9 DEF Describe, Go
<1>10. CASE BeatWrite(b)
  BY <1>7, <1>10 DEF BeatWrite
<1>11. CASE Close(b)
  BY <1>7, <1>11 DEF Close
<1>12. CASE ReleaseDel(b)
  <2>1. ~Running(b) /\ key \in {0, b}
    BY <1>12 DEF ReleaseDel, Unfinished
  <2> QED
    BY <1>0, <1>2, <1>12, <2>1 DEF ReleaseDel
<1>13. CASE BeatRead(b) \/ WorkEnds(b) \/ ReleaseGet(b) \/ RequestDies(b)
  <2>1. key' = key
    BY <1>13 DEF BeatRead, WorkEnds, ReleaseGet, RequestDies
  <2>2. \A c \in Batches : Announced(c)' => Announced(c)
    BY <1>13 DEF BeatRead, WorkEnds, ReleaseGet, RequestDies, Go
  <2> QED
    BY <1>2, <2>1, <2>2
<1> QED
  BY <1>3, <1>4, <1>5, <1>6, <1>8, <1>9, <1>10, <1>11, <1>12, <1>13 DEF Request, Batch

LEMMA KeyKept == TypeOK /\ KeyInv /\ [Next]_vars => KeyInv'
<1> SUFFICES ASSUME TypeOK, KeyInv, [Next]_vars PROVE KeyInv'
  OBVIOUS
<1>0. FixedTypes /\ LockTypes /\ Unfinished /\ SeenKnown /\ KeyOfRunning
  BY TypeParts DEF KeyInv
<1>1. ASSUME NEW b \in Batches, Request(b) \/ Batch(b) \/ BeatRead(b) \/ RequestDies(b) PROVE KeyInv'
  BY <1>0, <1>1, UnfinishedStep, SeenStep, OwnerStep DEF KeyInv
<1>2. ASSUME UNCHANGED <<req, doc, snap, rel, enabled>>, taken => taken',
             key' = key \/ (key \in Batches /\ Running(key) => taken')
      PROVE  KeyInv'
  <2>1. Unfinished' /\ SeenKnown'
    BY <1>0, <1>2 DEF Unfinished, SeenKnown
  <2>2. KeyOfRunning'
    <3> SUFFICES ASSUME enabled, ~taken', NEW b \in Batches, Announced(b) PROVE key' = b
      BY <1>2 DEF KeyOfRunning, Announced, Running
    <3>1. key = b /\ Running(b)
      BY <1>0, <1>2 DEF KeyOfRunning, Announced
    <3> QED
      BY <1>2, <3>1
  <2> QED
    BY <2>1, <2>2 DEF KeyInv
<1>3. ASSUME NEW s \in Schedulers, Schedule(s) \/ RunDies(s) PROVE KeyInv'
  <2>1. CASE CheckDrops(s)
    <3>1. (taken \/ (key # 0 /\ Running(key))) => taken'
      BY <2>1 DEF CheckDrops
    <3> QED
      BY <1>2, <2>1, <3>1 DEF CheckDrops, fixed, Batches
  <2>2. CASE ~CheckDrops(s)
    BY <1>2, <1>3, <2>2 DEF Schedule, Check, Load, Enqueue, Commit, RunDies, lockVars, fixed
  <2> QED
    BY <2>1, <2>2
<1>4. ASSUME NEW d \in Devices, ApplyDaily(d) \/ Switch(d) PROVE KeyInv'
  BY <1>2, <1>4 DEF ApplyDaily, Switch, lockVars, fixed
<1>5. ASSUME KeyExpires PROVE KeyInv'
  <2>1. (taken \/ Running(key)) => taken'
    BY <1>5 DEF KeyExpires
  <2> QED
    BY <1>2, <1>5, <2>1 DEF KeyExpires, fixed
<1>6. ASSUME StopAll PROVE KeyInv'
  <2>1. /\ doc' = [b \in Batches |-> IF doc[b] = "bulk" THEN "done" ELSE doc[b]]
        /\ rel' = [b \in Batches |-> IF doc[b] = "bulk" THEN "get" ELSE rel[b]]
        /\ UNCHANGED <<key, snap, taken, enabled>>
    BY <1>6 DEF StopAll, fixed
  <2>2. \A b \in Batches : /\ req[b].pc = "running" => req'[b].pc \in {"stopped", "over"}
                           /\ req[b].pc # "running" => req'[b].pc = req[b].pc
                           /\ req'[b].way = req[b].way /\ req'[b].saw = req[b].saw
    <3>1. PICK left : req' = [b \in Batches |-> IF req[b].pc # "running" THEN req[b]
                                               ELSE [req[b] EXCEPT !.pc = IF b \in left THEN "stopped" ELSE "over"]]
      BY <1>6 DEF StopAll
    <3> QED
      BY <1>0, <3>1 DEF LockTypes, Requests
  <2>3. Unfinished'
    BY <1>0, <2>1, <2>2 DEF Unfinished
  <2>4. SeenKnown'
    BY <1>0, <2>1, <2>2 DEF SeenKnown
  <2>5. KeyOfRunning'
    BY <1>0, <2>1, <2>2 DEF KeyOfRunning, Announced, Running
  <2> QED
    BY <2>3, <2>4, <2>5 DEF KeyInv
<1>7. ASSUME FlagGone PROVE KeyInv'
  BY <1>2, <1>7 DEF FlagGone, fixed
<1>8. ASSUME DayPasses PROVE KeyInv'
  BY <1>2, <1>8 DEF DayPasses, lockVars, fixed
<1>9. ASSUME UNCHANGED vars PROVE KeyInv'
  BY <1>2, <1>9 DEF vars, lockVars, fixed
<1> QED
  BY <1>1, <1>3, <1>4, <1>5, <1>6, <1>7, <1>8, <1>9 DEF Next

\* For any number of requests that reserve the key, write it or do neither, in
\* any order and with any deaths and stops: with the key enabled, and not taken in
\* one of the known ways, one operation at a time that it knows of runs.
THEOREM OneBatchAdmitted == Spec => []OneBatch
<1>1. TypeOK /\ KeyInv /\ [Next]_vars => TypeOK' /\ KeyInv'
  BY DispatchKept, KeyKept
<1>2. KeyInv => OneBatch
  BY DEF OneBatch, KeyInv, KeyOfRunning
<1> QED
  BY DispatchInit, KeyInit, <1>1, <1>2, PTL DEF Spec

\* Only a check takes the task, and it looks at the batch that has the key.
LEMMA CheckWaits ==
    ASSUME TypeOK, KeyInv, [Next]_vars
    PROVE  \A s \in Schedulers : enabled /\ ~taken /\ run[s] = NoRun /\ run'[s] # NoRun =>
               ~\E b \in Batches : req[b].pc = "running" /\ doc[b] = "bulk" /\ req[b].kind = "backup"
<1> SUFFICES ASSUME NEW s \in Schedulers, enabled, ~taken, run[s] = NoRun, run'[s] # NoRun,
                    NEW b \in Batches, req[b].pc = "running", doc[b] = "bulk", req[b].kind = "backup"
             PROVE  FALSE
  OBVIOUS
<1>1. key = b /\ b # 0
  BY DEF KeyInv, KeyOfRunning, Announced, Running, Batches
<1>2. ~Check(s)
  BY <1>1 DEF Check, Pauses
<1>3. run \in [Schedulers -> {NoRun} \cup Runs]
  BY DEF TypeOK
<1>4. \A t \in Schedulers : Schedule(t) \/ RunDies(t) => t = s
  BY <1>3 DEF Schedule, Check, CheckDrops, Load, Enqueue, Commit, RunDies
<1>5. ~CheckDrops(s) /\ ~Load(s) /\ ~Enqueue(s) /\ ~Commit(s) /\ ~RunDies(s)
  BY DEF CheckDrops, Load, Enqueue, Commit, RunDies, NoRun
<1>6. run' # run
  OBVIOUS
<1>7. \A c \in Batches : ~Request(c) /\ ~Batch(c) /\ ~BeatRead(c) /\ ~RequestDies(c)
  BY <1>6 DEF Request, Batch, Ask, Look, Drop, SetKey, Register, Describe, BeatRead, BeatWrite, WorkEnds, Close,
              ReleaseGet, ReleaseDel, RequestDies, schedVars
<1>8. /\ \A d \in Devices : ~ApplyDaily(d) /\ ~Switch(d)
      /\ ~KeyExpires /\ ~StopAll /\ ~FlagGone /\ ~DayPasses /\ ~(UNCHANGED vars)
  BY <1>6 DEF ApplyDaily, Switch, KeyExpires, StopAll, FlagGone, DayPasses, vars, schedVars
<1> QED
  BY <1>2, <1>4, <1>5, <1>7, <1>8 DEF Next, Schedule

\* For any number of scheduler processes: none starts beside a mass backup that
\* has its document, as long as the key was not taken from it.
THEOREM SchedulerAside == Spec => SchedulerWaits
<1>1. TypeOK /\ KeyInv /\ [Next]_vars => TypeOK' /\ KeyInv'
  BY DispatchKept, KeyKept
<1> QED
  BY DispatchInit, KeyInit, <1>1, CheckWaits, PTL DEF Spec, SchedulerWaits

-----------------------------------------------------------------------------
(* What a run of the scheduler knows when it commits. *)

\* A run that has loaded the schedules and not yet committed.
Underway(s) == run[s].pc \in {"loaded", "queued"}

\* A device has one schedule by each author.
RowsUnique == \A r, q \in rows : r.dev = q.dev /\ r.by = q.by => r = q

\* The schedules a run will add are of devices that had none.
NewHasNone == \A s \in Schedulers : Underway(s) => \A d \in run[s].new : ~\E r \in rows : r.dev = d /\ r.by = s

RunsToday == \A s \in Schedulers : Underway(s) => run[s].day = day

\* A device that is off is known to be.
OffKnown == \A d \in Devices : ~active[d] => off[d]

\* What a run that has queued a due tenant left out was off meanwhile.
QueuedSent ==
    \A s \in Schedulers : run[s].pc = "queued" /\ run[s].due =>
        \A r \in run[s].rows : off[r.dev] \/ r.dev \in Excluded \/ sent[r.dev] >= run[s].day

RunInv == RowsUnique /\ NewHasNone /\ RunsToday /\ OffKnown /\ QueuedSent

LEMMA RunInit == Init => RunInv
<1> SUFFICES ASSUME Init PROVE RunInv
  OBVIOUS
<1>1. RowsUnique
  BY DEF Init, RowsUnique
<1>2. \A s \in Schedulers : run[s].pc = "idle"
  BY DEF Init, NoRun
<1> QED
  BY <1>1, <1>2 DEF RunInv, NewHasNone, RunsToday, OffKnown, QueuedSent, Underway, Init

\* The types this part of the proof needs.
LEMMA RunTypes ==
    ASSUME TypeOK, NEW s \in Schedulers
    PROVE  /\ Underway(s) => /\ run[s].day \in 1..MaxDay /\ run[s].rows \subseteq Rows /\ run[s].new \subseteq Devices
                             /\ run[s].due \in BOOLEAN
           /\ s \in Nat /\ s # 0
           /\ run[s] = NoRun => ~Underway(s)
           /\ run[s].pc \in {"idle", "drop", "load", "loaded", "queued"}
<1>1. s \in Nat /\ s # 0
  BY DEF Schedulers
<1>2. run[s] \in {NoRun} \cup Runs
  BY DEF TypeOK
<1>3. CASE run[s] = NoRun
  BY <1>1, <1>3 DEF NoRun, Underway
<1>4. CASE run[s] \in [pc : {"drop", "load"}]
  <2>1. run[s].pc \in {"drop", "load"}
    BY <1>4
  <2>2. run[s] # NoRun
    BY <2>1 DEF NoRun
  <2> QED
    BY <1>1, <2>1, <2>2 DEF Underway
<1>5. CASE run[s] \in [pc : {"loaded", "queued"}, day : 1..MaxDay, due : BOOLEAN, rows : SUBSET Rows, new : SUBSET Devices]
  <2>1. run[s] # NoRun
    BY <1>5 DEF NoRun
  <2> QED
    BY <1>1, <1>5, <2>1 DEF Underway
<1> QED
  BY <1>2, <1>3, <1>4, <1>5 DEF Runs

\* What each run holds stays as it is while it is under way, or is loaded by Load.
LEMMA LoadKeeps ==
    ASSUME TypeOK, RunInv, NEW s \in Schedulers, Load(s)
    PROVE  RunInv'
<1> USE DEF Underway
<1>1. UNCHANGED <<rows, active, off, sent, day>>
  BY DEF Load
<1>2. RowsUnique' /\ OffKnown'
  BY <1>1 DEF RunInv, RowsUnique, OffKnown
<1>3. ~Underway(s) /\ \A t \in Schedulers \ {s} : run'[t] = run[t]
  BY DEF Load
<1>4. Underway(s)' =>
        /\ run'[s].day = day
        /\ \A d \in run'[s].new : ~\E r \in rows : r.dev = d
        /\ run'[s].pc = "queued" => ~run'[s].due
  <2> DEFINE found == {r \in rows : active[r.dev]}
             new == {d \in Devices : active[d] /\ ~\E r \in found : r.dev = d}
             due == \E r \in found : Due(r)
             load == [pc |-> IF due THEN "loaded" ELSE "queued", day |-> day, due |-> due, rows |-> found, new |-> new]
  <2>1. run'[s] = IF due \/ new # {} THEN load ELSE NoRun
    BY DEF Load, TypeOK
  <2>2. NoRun.pc = "idle"
    BY DEF NoRun
  <2>3. Underway(s)' => run'[s] = load
    BY <2>1, <2>2
  <2>4. \A d \in new : ~\E r \in rows : r.dev = d
    OBVIOUS
  <2>5. load.pc = "queued" => ~load.due
    OBVIOUS
  <2>6. load.day = day /\ load.new = new
    OBVIOUS
  <2> HIDE DEF load, new
  <2> QED
    BY <2>3, <2>4, <2>5, <2>6
<1>5. NewHasNone' /\ RunsToday' /\ QueuedSent'
  BY <1>1, <1>3, <1>4 DEF RunInv, NewHasNone, RunsToday, QueuedSent
<1> QED
  BY <1>2, <1>5 DEF RunInv

LEMMA EnqueueKeeps ==
    ASSUME TypeOK, RunInv, NEW s \in Schedulers, Enqueue(s)
    PROVE  RunInv'
<1> USE DEF Underway
<1>1. UNCHANGED <<rows, active, off, day>>
  BY DEF Enqueue
<1>2. Underway(s) /\ \A t \in Schedulers \ {s} : run'[t] = run[t]
  BY DEF Enqueue
<1>3. run'[s] = [run[s] EXCEPT !.pc = "queued"]
  BY DEF Enqueue, TypeOK
<1>4. run'[s].day = run[s].day /\ run'[s].rows = run[s].rows /\ run'[s].new = run[s].new /\ run'[s].due = run[s].due
  BY <1>3
<1>5. \A d \in Devices : sent[d] \in Int /\ sent'[d] \in Int /\ sent'[d] >= sent[d]
                         /\ (active[d] /\ d \notin Excluded => sent'[d] >= run[s].day)
  <2>1. run[s].day \in Int
    <3>1. run[s].day \in 1..MaxDay
      BY <1>2, RunTypes
    <3> QED
      BY <3>1, BoundAssumption
  <2>2. \A d \in Devices : sent[d] \in Int
    BY DEF TypeOK, Days
  <2> QED
    BY <2>1, <2>2 DEF Enqueue
<1>6. RowsUnique' /\ OffKnown' /\ NewHasNone' /\ RunsToday'
  BY <1>1, <1>2, <1>4 DEF RunInv, RowsUnique, OffKnown, NewHasNone, RunsToday
<1>7. QueuedSent'
  <2> SUFFICES ASSUME NEW t \in Schedulers, run'[t].pc = "queued", run'[t].due, NEW r \in run'[t].rows
               PROVE  off[r.dev] \/ r.dev \in Excluded \/ sent'[r.dev] >= run'[t].day
    BY <1>1 DEF QueuedSent
  <2>1. Underway(t)
    BY <1>2
  <2>2. r.dev \in Devices /\ run[t].day \in Int
    <3>1. run[t].day \in 1..MaxDay /\ run[t].rows \subseteq Rows
      BY <2>1, RunTypes
    <3>2. r \in run[t].rows
      BY <1>2, <1>4
    <3> QED
      BY <3>1, <3>2, BoundAssumption DEF Rows
  <2>3. CASE t = s
    BY <1>4, <1>5, <2>2, <2>3 DEF RunInv, OffKnown
  <2>4. CASE t # s
    BY <1>2, <1>5, <2>2, <2>4 DEF RunInv, QueuedSent
  <2> QED
    BY <2>3, <2>4
<1> QED
  BY <1>6, <1>7 DEF RunInv

\* What becomes of a schedule when a run commits: it moves if the run had it, and
\* whatever the run adds is new.
LEMMA CommitRows ==
    ASSUME TypeOK, RunInv, NEW s \in Schedulers, Commit(s), NEW q \in rows'
    PROVE  \/ \E r \in rows : /\ q.dev = r.dev /\ q.by = r.by
                              /\ \/ q = r /\ ~(run[s].due /\ \E x \in run[s].rows : x.dev = r.dev /\ x.by = r.by)
                                 \/ /\ run[s].due /\ (\E x \in run[s].rows : x.dev = r.dev /\ x.by = r.by)
                                    /\ q = [r EXCEPT !.next = day + 1] /\ q.next = day + 1
           \/ /\ q = [dev |-> q.dev, by |-> s, next |-> day + 1] /\ q.dev \in run[s].new
              /\ ~\E r \in rows : r.dev = q.dev /\ r.by = q.by
<1>1. run[s].pc = "queued" /\ run[s].day = day
  BY DEF Commit, RunInv, RunsToday, Underway
<1>2. q \in Advanced(s) \/ q \in {[dev |-> d, by |-> s, next |-> run[s].day + 1] : d \in run[s].new}
  BY DEF Commit
<1>3. CASE q \in Advanced(s)
  <2>1. PICK r \in rows : q = IF run[s].due /\ (\E x \in run[s].rows : x.dev = r.dev /\ x.by = r.by)
                              THEN [r EXCEPT !.next = run[s].day + 1] ELSE r
    BY <1>3 DEF Advanced
  <2>2. r \in Rows
    BY DEF TypeOK
  <2>3. [r EXCEPT !.next = day + 1].dev = r.dev /\ [r EXCEPT !.next = day + 1].by = r.by /\ [r EXCEPT !.next = day + 1].next = day + 1
    BY <2>2 DEF Rows
  <2> QED
    BY <1>1, <2>1, <2>3
<1>4. ASSUME NEW d \in run[s].new, q = [dev |-> d, by |-> s, next |-> run[s].day + 1]
      PROVE  /\ q = [dev |-> q.dev, by |-> s, next |-> day + 1] /\ q.dev \in run[s].new
             /\ ~\E r \in rows : r.dev = q.dev /\ r.by = q.by
  BY <1>1, <1>4 DEF RunInv, NewHasNone, Underway
<1> QED
  BY <1>2, <1>3, <1>4

LEMMA CommitKeeps ==
    ASSUME TypeOK, RunInv, NEW s \in Schedulers, Commit(s)
    PROVE  RunInv'
<1> USE DEF Underway
<1>1. UNCHANGED <<active, sent, day>> /\ off' = OffAfter(s)
  BY DEF Commit
<1>2. /\ run[s].pc = "queued" /\ \A t \in Schedulers \ {s} : run'[t] = run[t]
      /\ run'[s].pc = "idle"
  BY DEF Commit, TypeOK, NoRun
<1>3. RowsUnique'
  <2> SUFFICES ASSUME NEW p \in rows', NEW q \in rows', p.dev = q.dev, p.by = q.by PROVE p = q
    BY DEF RowsUnique
  <2> DEFINE Had(r) == run[s].due /\ \E x \in run[s].rows : x.dev = r.dev /\ x.by = r.by
  <2>1. CASE \E r \in rows : p.dev = r.dev /\ p.by = r.by
    <3>1. PICK r \in rows : /\ p.dev = r.dev /\ p.by = r.by
                            /\ (p = r /\ ~Had(r)) \/ (Had(r) /\ p = [r EXCEPT !.next = day + 1])
      BY <2>1, CommitRows
    <3>0. \E row \in rows : q.dev = row.dev /\ q.by = row.by
      BY <2>1
    <3>2. PICK z \in rows : /\ q.dev = z.dev /\ q.by = z.by
                            /\ (q = z /\ ~Had(z)) \/ (Had(z) /\ q = [z EXCEPT !.next = day + 1])
      BY <3>0, CommitRows
    <3>3. r = z
      BY <3>1, <3>2 DEF RunInv, RowsUnique
    <3> QED
      BY <3>1, <3>2, <3>3
  <2>2. CASE ~\E r \in rows : p.dev = r.dev /\ p.by = r.by
    BY <2>2, CommitRows
  <2> QED
    BY <2>1, <2>2
<1>4. NewHasNone'
  <2> SUFFICES ASSUME NEW t \in Schedulers, Underway(t)', NEW d \in run'[t].new, NEW q \in rows', q.dev = d, q.by = t
               PROVE  FALSE
    BY DEF NewHasNone
  <2>1. t # s /\ run'[t] = run[t]
    BY <1>2
  <2>2. q.by # s
    BY <2>1
  <2>3. PICK r \in rows : q.dev = r.dev /\ q.by = r.by
    BY <2>2, CommitRows
  <2> QED
    BY <2>1, <2>3 DEF RunInv, NewHasNone
<1>5. RunsToday' /\ OffKnown'
  BY <1>1, <1>2 DEF RunInv, RunsToday, OffKnown, OffAfter
<1>6. QueuedSent'
  <2> SUFFICES ASSUME NEW t \in Schedulers, run'[t].pc = "queued", run'[t].due, NEW r \in run'[t].rows
               PROVE  off'[r.dev] \/ r.dev \in Excluded \/ sent[r.dev] >= run'[t].day
    BY <1>1 DEF QueuedSent
  <2>1. t # s /\ run'[t] = run[t] /\ Underway(t)
    BY <1>2
  <2>2. r.dev \in Devices
    <3>1. run[t].rows \subseteq Rows
      BY <2>1, RunTypes
    <3> QED
      BY <2>1, <3>1 DEF Rows
  <2>3. run[t] # NoRun
    BY <2>1, RunTypes
  <2>4. off[r.dev] => off'[r.dev]
    BY <1>1, <2>1, <2>2, <2>3 DEF OffAfter
  <2> QED
    BY <2>1, <2>4 DEF RunInv, QueuedSent
<1> QED
  BY <1>3, <1>4, <1>5, <1>6 DEF RunInv

LEMMA RunKept == TypeOK /\ RunInv /\ [Next]_vars => RunInv'
<1> SUFFICES ASSUME TypeOK, RunInv, [Next]_vars PROVE RunInv'
  OBVIOUS
<1>1. ASSUME UNCHANGED <<rows, active, off, sent, day>>,
             \A s \in Schedulers : run'[s] = run[s] \/ ~Underway(s)'
      PROVE  RunInv'
  <2>1. \A s \in Schedulers : run'[s].pc = "queued" => Underway(s)'
    BY DEF Underway
  <2> QED
    BY <1>1, <2>1 DEF RunInv, RowsUnique, NewHasNone, RunsToday, OffKnown, QueuedSent, Underway
<1>2. ASSUME NEW b \in Batches, Request(b) \/ Batch(b) \/ BeatRead(b) \/ RequestDies(b) PROVE RunInv'
  <2>1. UNCHANGED schedVars
    BY <1>2 DEF Request, Batch, Ask, Look, Drop, SetKey, Register, Describe, BeatRead, BeatWrite, WorkEnds, Close,
                ReleaseGet, ReleaseDel, RequestDies
  <2> QED
    BY <1>1, <2>1 DEF schedVars
<1>3. ASSUME NEW s \in Schedulers, Check(s) \/ CheckDrops(s) \/ RunDies(s) PROVE RunInv'
  <2>1. UNCHANGED <<rows, active, off, sent, day>>
    BY <1>3 DEF Check, CheckDrops, RunDies
  <2>2. \A t \in Schedulers : run'[t] = run[t] \/ run'[t].pc \in {"idle", "drop", "load"}
    BY <1>3 DEF Check, CheckDrops, RunDies, TypeOK, NoRun, Runs
  <2> QED
    BY <1>1, <2>1, <2>2 DEF Underway
<1>4. ASSUME NEW s \in Schedulers, Load(s) \/ Enqueue(s) \/ Commit(s) PROVE RunInv'
  BY <1>4, LoadKeeps, EnqueueKeeps, CommitKeeps
<1>5. ASSUME NEW d \in Devices, ApplyDaily(d) PROVE RunInv'
  <2>1. UNCHANGED <<active, run, sent, off, day>>
    BY <1>5 DEF ApplyDaily
  <2>2. PICK next \in {day, day + 1} :
            \/ /\ ~\E r \in rows : r.dev = d
               /\ rows' = rows \cup {[dev |-> d, by |-> 0, next |-> next]}
            \/ \E r \in rows : r.dev = d /\ rows' = (rows \ {r}) \cup {[r EXCEPT !.next = next]}
    BY <1>5 DEF ApplyDaily
  <2>3. RowsUnique' /\ NewHasNone'
    <3>1. CASE ~(\E r \in rows : r.dev = d) /\ rows' = rows \cup {[dev |-> d, by |-> 0, next |-> next]}
      BY <2>1, <3>1, RunTypes DEF RunInv, RowsUnique, NewHasNone, Underway
    <3>2. ASSUME NEW r \in rows, rows' = (rows \ {r}) \cup {[r EXCEPT !.next = next]} PROVE RowsUnique' /\ NewHasNone'
      <4>1. r \in Rows
        BY DEF TypeOK
      <4>2. [r EXCEPT !.next = next].dev = r.dev /\ [r EXCEPT !.next = next].by = r.by
        BY <4>1 DEF Rows
      <4>3. \A q \in rows' : \E z \in rows : q.dev = z.dev /\ q.by = z.by /\ (q = z \/ (z = r /\ q = [r EXCEPT !.next = next]))
        BY <3>2, <4>2
      <4>4. r \notin rows' \/ [r EXCEPT !.next = next] = r
        BY <3>2
      <4>5. RowsUnique'
        <5> SUFFICES ASSUME NEW p \in rows', NEW q \in rows', p.dev = q.dev, p.by = q.by PROVE p = q
          BY DEF RowsUnique
        <5>1. PICK y \in rows : p.dev = y.dev /\ p.by = y.by /\ (p = y \/ (y = r /\ p = [r EXCEPT !.next = next]))
          BY <4>3
        <5>2. PICK z \in rows : q.dev = z.dev /\ q.by = z.by /\ (q = z \/ (z = r /\ q = [r EXCEPT !.next = next]))
          BY <4>3
        <5>3. y = z
          BY <5>1, <5>2 DEF RunInv, RowsUnique
        <5> QED
          BY <4>4, <5>1, <5>2, <5>3
      <4>6. NewHasNone'
        BY <2>1, <4>3 DEF RunInv, NewHasNone, Underway
      <4> QED
        BY <4>5, <4>6
    <3> QED
      BY <2>2, <3>1, <3>2
  <2> QED
    BY <2>1, <2>3 DEF RunInv, RunsToday, OffKnown, QueuedSent, Underway
<1>6. ASSUME NEW d \in Devices, Switch(d) PROVE RunInv'
  <2>1. UNCHANGED <<rows, run, sent, day>>
    BY <1>6 DEF Switch
  <2>2. /\ active' = [active EXCEPT ![d] = ~active[d]]
        /\ off' = [off EXCEPT ![d] = off[d] \/ active[d]]
    BY <1>6 DEF Switch
  <2>3. active \in [Devices -> BOOLEAN] /\ off \in [Devices -> BOOLEAN]
    BY DEF TypeOK
  <2>4. \A e \in Devices : (off[e] => off'[e]) /\ (~active'[e] => off'[e])
    BY <2>2, <2>3, Zenon DEF RunInv, OffKnown
  <2>5. RowsUnique' /\ NewHasNone' /\ RunsToday'
    BY <2>1 DEF RunInv, RowsUnique, NewHasNone, RunsToday, Underway
  <2>6. OffKnown'
    BY <2>4 DEF OffKnown
  <2>7. QueuedSent'
    <3> SUFFICES ASSUME NEW t \in Schedulers, run[t].pc = "queued", run[t].due, NEW r \in run[t].rows
                 PROVE  off'[r.dev] \/ r.dev \in Excluded \/ sent[r.dev] >= run[t].day
      BY <2>1 DEF QueuedSent
    <3>1. run[t].rows \subseteq Rows
      BY RunTypes DEF Underway
    <3> QED
      BY <2>4, <3>1 DEF Rows, RunInv, QueuedSent
  <2> QED
    BY <2>5, <2>6, <2>7 DEF RunInv
<1>7. ASSUME KeyExpires \/ StopAll \/ FlagGone \/ UNCHANGED vars PROVE RunInv'
  BY <1>1, <1>7 DEF KeyExpires, StopAll, FlagGone, vars, schedVars
<1>8. ASSUME DayPasses PROVE RunInv'
  <2>1. UNCHANGED <<rows, active, off, sent, run>>
    BY <1>8 DEF DayPasses
  <2>2. \A s \in Schedulers : run[s].pc = "idle"
    BY <1>8 DEF DayPasses, NoRun
  <2> QED
    BY <2>1, <2>2 DEF RunInv, RowsUnique, NewHasNone, RunsToday, OffKnown, QueuedSent, Underway
<1> QED
  BY <1>2, <1>3, <1>4, <1>5, <1>6, <1>7, <1>8 DEF Next, Schedule

\* Only a commit moves a schedule and ends a run.
LEMMA CommitOnly ==
    ASSUME TypeOK, [Next]_vars, NEW s \in Schedulers, run[s] # NoRun, run'[s] = NoRun, crashes' = crashes, rows' # rows
    PROVE  Commit(s)
<1>1. run' # run
  OBVIOUS
<1>2. \A b \in Batches : ~Request(b) /\ ~Batch(b) /\ ~BeatRead(b) /\ ~RequestDies(b)
  BY <1>1 DEF Request, Batch, Ask, Look, Drop, SetKey, Register, Describe, BeatRead, BeatWrite, WorkEnds, Close,
              ReleaseGet, ReleaseDel, RequestDies, schedVars
<1>3. /\ \A d \in Devices : ~ApplyDaily(d) /\ ~Switch(d)
      /\ ~KeyExpires /\ ~StopAll /\ ~FlagGone /\ ~DayPasses /\ ~(UNCHANGED vars)
  BY <1>1 DEF ApplyDaily, Switch, KeyExpires, StopAll, FlagGone, DayPasses, vars, schedVars
<1>4. \A t \in Schedulers : ~Check(t) /\ ~CheckDrops(t) /\ ~Load(t) /\ ~Enqueue(t)
  BY DEF Check, CheckDrops, Load, Enqueue
<1>5. \A t \in Schedulers : ~RunDies(t)
  BY DEF RunDies
<1>6. \A t \in Schedulers : Commit(t) => t = s
  BY DEF Commit
<1> QED
  BY <1>2, <1>3, <1>4, <1>5, <1>6 DEF Next, Schedule

LEMMA DayKept ==
    ASSUME TypeOK, RunInv, [Next]_vars
    PROVE  \A s \in Schedulers : run[s] # NoRun /\ run'[s] = NoRun /\ crashes' = crashes =>
               \A r \in rows, q \in rows' :
                   q.dev = r.dev /\ q.by = r.by /\ q.next > r.next /\ active[r.dev] /\ ~off[r.dev] /\ r.dev \notin Excluded
                       => sent[r.dev] >= r.next
<1> SUFFICES ASSUME NEW s \in Schedulers, run[s] # NoRun, run'[s] = NoRun, crashes' = crashes,
                    NEW r \in rows, NEW q \in rows', q.dev = r.dev, q.by = r.by, q.next > r.next,
                    active[r.dev], ~off[r.dev], r.dev \notin Excluded
             PROVE  sent[r.dev] >= r.next
  OBVIOUS
<1>1. r.next \in Int /\ r.dev \in Devices /\ sent[r.dev] \in Int /\ day \in Int
  BY DEF TypeOK, Rows, Days
<1>2. rows' # rows
  BY <1>1 DEF RunInv, RowsUnique
<1>3. Commit(s) /\ run[s].pc = "queued" /\ run[s].day = day
  BY <1>2, CommitOnly DEF Commit, RunInv, RunsToday, Underway
<1>4. PICK x \in rows : /\ q.dev = x.dev /\ q.by = x.by
                        /\ \/ q = x
                           \/ /\ run[s].due /\ q.next = day + 1
                              /\ \E y \in run[s].rows : y.dev = x.dev /\ y.by = x.by
  BY <1>3, CommitRows
<1>5. x = r
  BY <1>4 DEF RunInv, RowsUnique
<1>6. run[s].due /\ q.next = day + 1 /\ \E y \in run[s].rows : y.dev = r.dev
  BY <1>1, <1>4, <1>5
<1>7. sent[r.dev] >= day
  BY <1>3, <1>6 DEF RunInv, QueuedSent
<1> QED
  BY <1>1, <1>6, <1>7

\* For any number of devices, scheduler processes, edits and deaths: a schedule
\* moves past a day only if its device was queued for it, was off while the run
\* was under way, or is of a type left out.
THEOREM NoDaySkipped == Spec => NoDayMissed
<1>1. TypeOK /\ RunInv /\ [Next]_vars => TypeOK' /\ RunInv'
  BY DispatchKept, RunKept
<1> QED
  BY DispatchInit, RunInit, <1>1, DayKept, PTL DEF Spec, NoDayMissed

-----------------------------------------------------------------------------
(* How often a day is queued. *)

\* Runs that will queue the tenant, and those that may load it again without
\* an edit: a due schedule is left that their commit does not move.
LoadedRuns == {s \in Schedulers : run[s].pc = "loaded"}
Moves(s, r) == Underway(s) /\ run[s].due /\ \E q \in run[s].rows : q.dev = r.dev /\ q.by = r.by
AgainRuns == {s \in Schedulers : \E r \in rows : active[r.dev] /\ Due(r) /\ ~Moves(s, r)}

Allowed == NumSchedulers * (1 + edits) + crashes

\* Each run that may still queue this day is paid for: by the processes there
\* are, by an edit, or by the death of a run.
PassesPaid == passes[day] + Cardinality(LoadedRuns) + Cardinality(AgainRuns) <= Allowed

NoPassYet == \A x \in Days : x > day => passes[x] = 0

LoadedDue == \A s \in Schedulers : run[s].pc = "loaded" => run[s].due

PassInv == PassesPaid /\ NoPassYet /\ LoadedDue /\ PassesBounded

LEMMA RunSets ==
    /\ IsFiniteSet(LoadedRuns) /\ Cardinality(LoadedRuns) \in Nat
    /\ IsFiniteSet(AgainRuns) /\ Cardinality(AgainRuns) \in 0..NumSchedulers
<1>1. IsFiniteSet(Schedulers) /\ Cardinality(Schedulers) = NumSchedulers
  BY FS_Interval, BoundAssumption DEF Schedulers
<1>2. LoadedRuns \subseteq Schedulers /\ AgainRuns \subseteq Schedulers
  BY DEF LoadedRuns, AgainRuns
<1> QED
  BY <1>1, <1>2, FS_Subset, FS_CardinalityType, BoundAssumption

LEMMA AllowedFacts ==
    ASSUME TypeOK
    PROVE  /\ Allowed \in Nat /\ NumSchedulers <= Allowed /\ passes[day] \in Nat
           /\ \A x \in Days : passes[x] \in Nat
           /\ day \in Days /\ day + 1 \in Days
<1>1. edits \in Nat /\ crashes \in Nat
  BY SizeFacts, TypeParts DEF SchedTypes
<1>2. NumSchedulers * (1 + edits) \in Nat /\ NumSchedulers <= NumSchedulers * (1 + edits)
  BY <1>1, BoundAssumption
<1>3. day \in 1..MaxDay /\ passes \in [Days -> Nat]
  BY DEF TypeOK
<1>4. day \in Days /\ day + 1 \in Days
  BY <1>3, BoundAssumption DEF Days
<1> QED
  BY <1>1, <1>2, <1>3, <1>4, BoundAssumption DEF Allowed

\* What an edit, a death and any other step do to what is allowed.
LEMMA AllowedGrows ==
    ASSUME TypeOK
    PROVE  /\ edits' = edits /\ crashes' = crashes => Allowed' = Allowed
           /\ edits' = edits /\ crashes' = crashes + 1 => Allowed' = Allowed + 1
           /\ edits' = edits + 1 /\ crashes' = crashes => Allowed' = Allowed + NumSchedulers
<1>1. edits \in Nat /\ crashes \in Nat
  BY SizeFacts, TypeParts DEF SchedTypes
<1>2. NumSchedulers * (1 + (edits + 1)) = NumSchedulers * (1 + edits) + NumSchedulers
  BY <1>1, BoundAssumption
<1>3. NumSchedulers * (1 + edits) \in Nat
  BY <1>1, BoundAssumption
<1> QED
  BY <1>1, <1>2, <1>3, BoundAssumption DEF Allowed

LEMMA PassInit == Init => PassInv
<1> SUFFICES ASSUME Init PROVE PassInv
  OBVIOUS
<1>1. TypeOK
  BY DispatchInit
<1>2. passes = [x \in Days |-> 0] /\ run = [s \in Schedulers |-> NoRun]
  BY DEF Init
<1>3. LoadedRuns = {}
  BY <1>2 DEF LoadedRuns, NoRun
<1>4. PassesPaid
  BY <1>1, <1>2, <1>3, RunSets, AllowedFacts, FS_EmptySet, BoundAssumption DEF PassesPaid
<1>5. NoPassYet /\ LoadedDue
  BY <1>2 DEF NoPassYet, LoadedDue, NoRun
<1>6. PassesBounded
  BY <1>1, <1>2, AllowedFacts DEF PassesBounded, Allowed
<1> QED
  BY <1>4, <1>5, <1>6 DEF PassInv

\* A step that queues nothing, and no run of which may queue more often than before.
LEMMA PaidStep ==
    ASSUME TypeOK, PassInv, UNCHANGED <<day, passes>>, LoadedDue',
           \/ Allowed' = Allowed /\ LoadedRuns' \subseteq LoadedRuns /\ AgainRuns' \subseteq AgainRuns
           \/ Allowed' = Allowed + NumSchedulers /\ LoadedRuns' \subseteq LoadedRuns /\ Cardinality(AgainRuns)' <= NumSchedulers
           \/ /\ Allowed' = Allowed + 1 /\ LoadedRuns' \subseteq LoadedRuns
              /\ \E s \in Schedulers : AgainRuns' \subseteq AgainRuns \cup {s}
    PROVE  PassInv'
<1>1. Allowed' >= Allowed /\ Allowed' \in Nat /\ Allowed \in Nat /\ passes[day] \in Nat
  BY AllowedFacts, BoundAssumption
<1>2. Cardinality(LoadedRuns') <= Cardinality(LoadedRuns)
  BY RunSets, FS_Subset
<1>3. /\ Cardinality(LoadedRuns) \in Nat /\ Cardinality(AgainRuns) \in Nat
      /\ Cardinality(LoadedRuns)' \in Nat /\ Cardinality(AgainRuns)' \in Nat
  <2>1. IsFiniteSet(LoadedRuns) /\ IsFiniteSet(AgainRuns)
    BY RunSets
  <2>2. LoadedRuns' \subseteq Schedulers /\ AgainRuns' \subseteq Schedulers
    BY DEF LoadedRuns, AgainRuns
  <2>3. IsFiniteSet(Schedulers)
    BY FS_Interval, BoundAssumption DEF Schedulers
  <2> QED
    BY <2>1, <2>2, <2>3, FS_Subset, FS_CardinalityType
<1>4. Cardinality(AgainRuns)' - Cardinality(AgainRuns) <= Allowed' - Allowed
  <2>1. CASE Allowed' = Allowed /\ AgainRuns' \subseteq AgainRuns
    BY <1>1, <1>3, <2>1, RunSets, FS_Subset
  <2>2. CASE Allowed' = Allowed + NumSchedulers /\ Cardinality(AgainRuns)' <= NumSchedulers
    BY <1>1, <1>3, <2>2, BoundAssumption
  <2>3. ASSUME Allowed' = Allowed + 1, NEW s \in Schedulers, AgainRuns' \subseteq AgainRuns \cup {s}
        PROVE  Cardinality(AgainRuns)' - Cardinality(AgainRuns) <= Allowed' - Allowed
    <3>1. /\ IsFiniteSet(AgainRuns \cup {s})
          /\ Cardinality(AgainRuns \cup {s}) = IF s \in AgainRuns THEN Cardinality(AgainRuns) ELSE Cardinality(AgainRuns) + 1
      BY RunSets, FS_AddElement
    <3>2. Cardinality(AgainRuns') <= Cardinality(AgainRuns \cup {s})
      BY <2>3, <3>1, FS_Subset
    <3> QED
      BY <1>1, <1>3, <2>3, <3>1, <3>2
  <2> QED
    BY <2>1, <2>2, <2>3
<1>5. PassesPaid'
  BY <1>1, <1>2, <1>3, <1>4 DEF PassInv, PassesPaid
<1>6. PassesBounded'
  <2>1. \A x \in Days : passes[x] \in Nat /\ passes[x] <= Allowed
    BY AllowedFacts DEF PassInv, PassesBounded, Allowed
  <2>2. \A x \in Days : passes'[x] <= Allowed'
    BY <1>1, <2>1
  <2> QED
    BY <2>2 DEF PassesBounded, Allowed
<1> QED
  BY <1>5, <1>6 DEF PassInv, NoPassYet

\* Queueing the tenant uses what was paid for it.
LEMMA EnqueuePaid ==
    ASSUME TypeOK, RunInv, PassInv, NEW s \in Schedulers, Enqueue(s)
    PROVE  PassInv'
<1> USE DEF Underway
<1>1. /\ run[s].pc = "loaded" /\ run[s].day = day
      /\ \A t \in Schedulers \ {s} : run'[t] = run[t]
      /\ UNCHANGED <<rows, active, day, edits, crashes>>
  BY DEF Enqueue, RunInv, RunsToday
<1>2. run'[s] = [run[s] EXCEPT !.pc = "queued"]
  BY DEF Enqueue, TypeOK
<1>3. run'[s].pc = "queued" /\ run'[s].due = run[s].due /\ run'[s].rows = run[s].rows
  <2>1. run[s] \in [pc : {"loaded", "queued"}, day : 1..MaxDay, due : BOOLEAN, rows : SUBSET Rows, new : SUBSET Devices]
    BY <1>1 DEF TypeOK, Runs, NoRun
  <2> QED
    BY <1>2, <2>1
<1>4. LoadedRuns' = LoadedRuns \ {s} /\ s \in LoadedRuns
  BY <1>1, <1>3 DEF LoadedRuns
<1>5. Cardinality(LoadedRuns)' = Cardinality(LoadedRuns) - 1
  BY <1>4, RunSets, FS_RemoveElement
<1>6. \A t \in Schedulers, r \in rows : Moves(t, r)' <=> Moves(t, r)
  BY <1>1, <1>3 DEF Moves
<1>7. AgainRuns' = AgainRuns
  BY <1>1, <1>6 DEF AgainRuns, Due
<1>8. Allowed' = Allowed
  BY <1>1, AllowedGrows
<1>9. passes' = [passes EXCEPT ![day] = passes[day] + 1] /\ day \in Days /\ passes \in [Days -> Nat]
  BY <1>1, AllowedFacts DEF Enqueue, TypeOK
<1>10. PassesPaid'
  BY <1>1, <1>5, <1>7, <1>8, <1>9, AllowedFacts, RunSets DEF PassInv, PassesPaid
<1>11. PassesBounded'
  <2>1. Cardinality(LoadedRuns)' \in Nat /\ Cardinality(AgainRuns)' \in Nat
    BY <1>4, <1>7, RunSets, FS_RemoveElement, FS_CardinalityType
  <2>2. passes'[day] \in Nat /\ passes'[day] <= Allowed'
    BY <1>1, <1>8, <1>9, <1>10, <2>1, AllowedFacts DEF PassesPaid
  <2>3. \A x \in Days : passes'[x] <= Allowed'
    BY <1>8, <1>9, <2>2 DEF PassInv, PassesBounded, Allowed
  <2> QED
    BY <2>3 DEF PassesBounded, Allowed
<1>12. NoPassYet'
  BY <1>1, <1>9 DEF PassInv, NoPassYet, TypeOK, Days
<1>13. LoadedDue'
  BY <1>1, <1>3 DEF PassInv, LoadedDue
<1> QED
  BY <1>10, <1>11, <1>12, <1>13 DEF PassInv

\* A run that finds a due schedule could load before, and moves it at its commit.
LEMMA LoadPaid ==
    ASSUME TypeOK, RunInv, PassInv, NEW s \in Schedulers, Load(s)
    PROVE  PassInv'
<1> DEFINE found == {r \in rows : active[r.dev]}
           new == {d \in Devices : active[d] /\ ~\E r \in found : r.dev = d}
           due == \E r \in found : Due(r)
           load == [pc |-> IF due THEN "loaded" ELSE "queued", day |-> day, due |-> due, rows |-> found, new |-> new]
<1>1. /\ run[s].pc = "load" /\ \A t \in Schedulers \ {s} : run'[t] = run[t]
      /\ UNCHANGED <<rows, active, day, edits, crashes, passes>>
  BY DEF Load
<1>2. run'[s] = IF due \/ new # {} THEN load ELSE NoRun
  BY DEF Load, TypeOK
<1>3. \A r \in rows : ~Moves(s, r)
  BY <1>1 DEF Moves, Underway
<1>4. \A t \in Schedulers \ {s} : \A r \in rows : Moves(t, r)' <=> Moves(t, r)
  BY <1>1 DEF Moves, Underway
<1>5. Allowed' = Allowed
  BY <1>1, AllowedGrows
<1>6. CASE due
  <2>1. run'[s] = load /\ load.pc = "loaded" /\ load.due /\ load.rows = found
    BY <1>2, <1>6
  <2>2. LoadedRuns' = LoadedRuns \cup {s} /\ s \notin LoadedRuns
    BY <1>1, <2>1 DEF LoadedRuns
  <2>3. s \in AgainRuns
    BY <1>3, <1>6 DEF AgainRuns
  <2>4. \A r \in rows : active[r.dev] => Moves(s, r)'
    BY <2>1 DEF Moves, Underway
  <2>5. AgainRuns' = AgainRuns \ {s}
    BY <1>1, <1>4, <2>4 DEF AgainRuns, Due
  <2>6. Cardinality(LoadedRuns)' = Cardinality(LoadedRuns) + 1
    BY <2>2, RunSets, FS_AddElement
  <2>7. Cardinality(AgainRuns)' = Cardinality(AgainRuns) - 1
    BY <2>3, <2>5, RunSets, FS_RemoveElement
  <2>8. PassesPaid'
    BY <1>1, <1>5, <2>6, <2>7, AllowedFacts, RunSets DEF PassInv, PassesPaid
  <2>9. LoadedDue'
    BY <1>1, <2>1 DEF PassInv, LoadedDue
  <2> QED
    BY <1>1, <2>8, <2>9 DEF PassInv, NoPassYet, PassesBounded
<1>7. CASE ~due
  <2>1. run'[s].pc \in {"queued", "idle"} /\ (run'[s].pc = "queued" => ~run'[s].due)
    BY <1>2, <1>7 DEF NoRun
  <2>2. LoadedRuns' = LoadedRuns
    BY <1>1, <2>1 DEF LoadedRuns
  <2>3. \A t \in Schedulers, r \in rows : Moves(t, r)' <=> Moves(t, r)
    BY <1>3, <1>4, <2>1 DEF Moves, Underway
  <2>4. AgainRuns' = AgainRuns
    BY <1>1, <2>3 DEF AgainRuns, Due
  <2>5. LoadedDue'
    BY <1>1, <2>1 DEF PassInv, LoadedDue
  <2> QED
    BY <1>1, <1>5, <2>2, <2>4, <2>5, PaidStep
<1> QED
  BY <1>6, <1>7

\* What a commit leaves due it would have left due before.
LEMMA CommitPaid ==
    ASSUME TypeOK, RunInv, PassInv, NEW s \in Schedulers, Commit(s)
    PROVE  PassInv'
<1> USE DEF Underway
<1>1. /\ run[s].pc = "queued" /\ \A t \in Schedulers \ {s} : run'[t] = run[t]
      /\ run'[s].pc = "idle"
      /\ UNCHANGED <<active, day, edits, crashes, passes>>
  BY DEF Commit, TypeOK, NoRun
<1>2. day \in Int
  BY DEF TypeOK
<1>3. \A q \in rows' : Due(q)' => q \in rows /\ Due(q) /\ ~Moves(s, q)
  <2> SUFFICES ASSUME NEW q \in rows', q.next <= day PROVE q \in rows /\ q.next <= day /\ ~Moves(s, q)
    BY <1>1 DEF Due
  <2>1. q.next # day + 1
    BY <1>2
  <2>2. q # [dev |-> q.dev, by |-> s, next |-> day + 1]
    BY <2>1
  <2>3. PICK r \in rows : q = r /\ ~(run[s].due /\ \E x \in run[s].rows : x.dev = r.dev /\ x.by = r.by)
    BY <2>1, <2>2, CommitRows
  <2> QED
    BY <2>3 DEF Moves
<1>4. \A t \in Schedulers \ {s}, r \in rows : Moves(t, r)' <=> Moves(t, r)
  BY <1>1 DEF Moves
<1>5. AgainRuns' \subseteq AgainRuns
  <2> SUFFICES ASSUME NEW t \in Schedulers, NEW q \in rows', active[q.dev], Due(q)', ~Moves(t, q)'
               PROVE  \E r \in rows : active[r.dev] /\ Due(r) /\ ~Moves(t, r)
    BY <1>1 DEF AgainRuns
  <2>1. q \in rows /\ Due(q) /\ ~Moves(s, q)
    BY <1>3
  <2>2. ~Moves(t, q)
    BY <1>4, <2>1
  <2> QED
    BY <2>1, <2>2
<1>6. LoadedRuns' \subseteq LoadedRuns /\ LoadedDue'
  BY <1>1 DEF LoadedRuns, PassInv, LoadedDue
<1> QED
  BY <1>1, <1>5, <1>6, PaidStep, AllowedGrows

LEMMA PassKept == TypeOK /\ RunInv /\ PassInv /\ [Next]_vars => PassInv'
<1> SUFFICES ASSUME TypeOK, RunInv, PassInv, [Next]_vars PROVE PassInv'
  OBVIOUS
<1>1. ASSUME UNCHANGED <<rows, active, day, edits, crashes, passes, run>> PROVE PassInv'
  <2>1. LoadedRuns' = LoadedRuns /\ AgainRuns' = AgainRuns /\ LoadedDue'
    BY <1>1 DEF LoadedRuns, AgainRuns, Due, Moves, Underway, PassInv, LoadedDue
  <2> QED
    BY <1>1, <2>1, PaidStep, AllowedGrows
<1>2. ASSUME NEW b \in Batches, Request(b) \/ Batch(b) \/ BeatRead(b) PROVE PassInv'
  <2>1. UNCHANGED <<schedVars, crashes>>
    BY <1>2 DEF Request, Batch, Ask, Look, Drop, SetKey, Register, Describe, BeatRead, BeatWrite, WorkEnds, Close,
                ReleaseGet, ReleaseDel
  <2> QED
    BY <1>1, <2>1 DEF schedVars
<1>3. ASSUME NEW b \in Batches, RequestDies(b) PROVE PassInv'
  <2>1. UNCHANGED schedVars /\ crashes' = crashes + 1
    BY <1>3 DEF RequestDies
  <2>2. UNCHANGED <<rows, active, day, edits, passes, run>>
    BY <2>1 DEF schedVars
  <2>3. LoadedRuns' = LoadedRuns /\ AgainRuns' = AgainRuns /\ LoadedDue'
    BY <2>2 DEF LoadedRuns, AgainRuns, Due, Moves, Underway, PassInv, LoadedDue
  <2>4. Allowed' = Allowed + 1
    BY <2>1, <2>2, AllowedGrows
  <2>5. CASE Schedulers = {}
    <3>1. LoadedRuns' = {} /\ AgainRuns' = {} /\ LoadedRuns = {} /\ AgainRuns = {}
      BY <2>5 DEF LoadedRuns, AgainRuns
    <3>2. PassesPaid'
      BY <2>2, <2>4, <3>1, FS_EmptySet, AllowedFacts DEF PassInv, PassesPaid
    <3>3. PassesBounded'
      BY <2>2, <2>4, AllowedFacts DEF PassInv, PassesBounded, Allowed
    <3> QED
      BY <2>2, <2>3, <3>2, <3>3 DEF PassInv, NoPassYet
  <2>6. CASE Schedulers # {}
    BY <2>2, <2>3, <2>4, <2>6, PaidStep
  <2> QED
    BY <2>5, <2>6
<1>4. ASSUME NEW s \in Schedulers, Check(s) \/ CheckDrops(s) PROVE PassInv'
  <2>1. UNCHANGED <<rows, active, day, edits, crashes, passes>>
    BY <1>4 DEF Check, CheckDrops
  <2>2. /\ \A t \in Schedulers \ {s} : run'[t] = run[t]
        /\ ~Underway(s) /\ run'[s].pc \in {"load", "drop"}
    BY <1>4 DEF Check, CheckDrops, TypeOK, Runs, NoRun, Underway
  <2>3. LoadedRuns' = LoadedRuns /\ LoadedDue'
    BY <2>2 DEF LoadedRuns, PassInv, LoadedDue, Underway
  <2>4. \A t \in Schedulers, r \in rows : Moves(t, r)' <=> Moves(t, r)
    BY <2>2 DEF Moves, Underway
  <2>5. AgainRuns' = AgainRuns
    BY <2>1, <2>4 DEF AgainRuns, Due
  <2> QED
    BY <2>1, <2>3, <2>5, PaidStep, AllowedGrows
<1>5. ASSUME NEW s \in Schedulers, Load(s) \/ Enqueue(s) \/ Commit(s) PROVE PassInv'
  BY <1>5, LoadPaid, EnqueuePaid, CommitPaid
<1>6. ASSUME NEW s \in Schedulers, RunDies(s) PROVE PassInv'
  <2>1. UNCHANGED <<rows, active, day, edits, passes>> /\ crashes' = crashes + 1
    BY <1>6 DEF RunDies
  <2>2. (\A t \in Schedulers \ {s} : run'[t] = run[t]) /\ run'[s].pc = "idle"
    BY <1>6 DEF RunDies, TypeOK, NoRun
  <2>3. LoadedRuns' \subseteq LoadedRuns /\ LoadedDue'
    BY <2>2 DEF LoadedRuns, PassInv, LoadedDue
  <2>4. AgainRuns' \subseteq AgainRuns \cup {s}
    BY <2>1, <2>2 DEF AgainRuns, Due, Moves, Underway
  <2> QED
    BY <2>1, <2>3, <2>4, PaidStep, AllowedGrows
<1>7. ASSUME NEW d \in Devices, ApplyDaily(d) \/ Switch(d) PROVE PassInv'
  <2>1. UNCHANGED <<run, day, crashes, passes>> /\ edits' = edits + 1
    BY <1>7 DEF ApplyDaily, Switch
  <2>2. LoadedRuns' = LoadedRuns /\ LoadedDue'
    BY <2>1 DEF LoadedRuns, PassInv, LoadedDue
  <2>3. Cardinality(AgainRuns)' <= NumSchedulers
    <3>1. IsFiniteSet(Schedulers) /\ Cardinality(Schedulers) = NumSchedulers
      BY FS_Interval, BoundAssumption DEF Schedulers
    <3>2. AgainRuns' \subseteq Schedulers
      BY DEF AgainRuns
    <3> QED
      BY <3>1, <3>2, FS_Subset
  <2> QED
    BY <2>1, <2>2, <2>3, PaidStep, AllowedGrows
<1>8. ASSUME KeyExpires \/ StopAll \/ FlagGone \/ UNCHANGED vars PROVE PassInv'
  BY <1>1, <1>8 DEF KeyExpires, StopAll, FlagGone, vars, schedVars
<1>9. ASSUME DayPasses PROVE PassInv'
  <2>1. UNCHANGED <<rows, active, edits, crashes, passes, run>> /\ day' = day + 1
    BY <1>9 DEF DayPasses
  <2>2. \A s \in Schedulers : run[s].pc = "idle"
    BY <1>9 DEF DayPasses, NoRun
  <2>3. LoadedRuns' = {}
    BY <2>1, <2>2 DEF LoadedRuns
  <2>4. passes'[day'] = 0
    BY <2>1, AllowedFacts DEF PassInv, NoPassYet, TypeOK
  <2>5. Cardinality(AgainRuns)' \in 0..NumSchedulers
    <3>1. IsFiniteSet(Schedulers) /\ Cardinality(Schedulers) = NumSchedulers
      BY FS_Interval, BoundAssumption DEF Schedulers
    <3>2. AgainRuns' \subseteq Schedulers
      BY DEF AgainRuns
    <3> QED
      BY <3>1, <3>2, FS_Subset, FS_CardinalityType, BoundAssumption
  <2>6. PassesPaid'
    BY <2>1, <2>3, <2>4, <2>5, AllowedFacts, AllowedGrows, FS_EmptySet, BoundAssumption DEF PassesPaid
  <2>7. NoPassYet'
    BY <2>1, AllowedFacts DEF PassInv, NoPassYet, TypeOK, Days
  <2> QED
    BY <2>1, <2>2, <2>6, <2>7 DEF PassInv, LoadedDue, PassesBounded
<1> QED
  BY <1>2, <1>3, <1>4, <1>5, <1>6, <1>7, <1>8, <1>9 DEF Next, Schedule

\* For any number of scheduler processes, edits, deaths and days: a day is
\* queued once for each process and each edit, and once more for each death.
THEOREM PassesCounted == Spec => []PassesBounded
<1>1. TypeOK /\ RunInv /\ PassInv /\ [Next]_vars => TypeOK' /\ RunInv' /\ PassInv'
  BY DispatchKept, RunKept, PassKept
<1>2. PassInv => PassesBounded
  BY DEF PassInv
<1> QED
  BY DispatchInit, RunInit, PassInit, <1>1, <1>2, PTL DEF Spec
=============================================================================
