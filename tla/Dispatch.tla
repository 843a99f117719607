------------------------------ MODULE Dispatch ------------------------------
(***************************************************************************)
(* What may start a mass operation of a tenant: the requests of its users, *)
(* kept apart by one key in Redis, and the scheduler, which beat starts    *)
(* every few minutes and which steps aside while a batch runs.  A batch is *)
(* here only its document and its key; BulkBatch is about what it does.    *)
(* A day begins at the daily time of the tenant.                           *)
(***************************************************************************)
EXTENDS Integers, FiniteSets

CONSTANTS Devices,
          Excluded,       \* devices of a type left out of mass backups
          Kinds,          \* what a request for a mass operation asks for
          NumBatches, NumSchedulers, MaxDay,
          Sizes           \* how many requests (and of which kinds), processes that run the scheduler, days,
                          \* crashes, edits and stops a behaviour has, and whether the key is enabled

ASSUME DevicesAssumption == Excluded \subseteq Devices
ASSUME KindsAssumption == Kinds \subseteq {"backup", "audit"}
ASSUME BoundAssumption == NumBatches \in Nat /\ NumSchedulers \in Nat /\ MaxDay \in Nat \ {0}
ASSUME SizesAssumption == Sizes \subseteq [batches : 0..NumBatches, schedulers : 0..NumSchedulers, days : 1..MaxDay,
                                           crashes : Nat, edits : Nat, stops : Nat,
                                           keys : SUBSET BOOLEAN, kinds : SUBSET Kinds]

VARIABLES size,      \* one of Sizes
          enabled,   \* BULK_TENANT_SINGLE_ACTIVE_LOCK_ENABLED
          key,       \* the key of the tenant: a batch or 0
          req,       \* the requests: kind, how they go about the key, where they are, what they looked at
          doc,       \* the document of each batch
          snap,      \* a document read and not yet written back
          rel,       \* a release under way
          flag,      \* force_stop_backups
          day,
          active,    \* device and group active, backup_scheduled
          rows,      \* the schedules
          run,       \* the runs of the scheduler
          crashes, edits, stops,
          taken,     \* the key was taken from a batch in one of the known ways (history)
          passes,    \* runs that queued the tenant for each day (history)
          sent,      \* the last day each device was queued for (history)
          off        \* switched off since a run that no other overlapped (history)

lockVars == <<key, req, doc, snap, rel, flag, stops, taken>>
schedVars == <<day, active, rows, run, edits, passes, sent, off>>
fixed == <<size, enabled>>
vars == <<fixed, lockVars, schedVars, crashes>>

Batches == 1..NumBatches
Schedulers == 1..NumSchedulers
Days == 0..MaxDay + 1
Docs == {"none", "plain", "bulk", "done"}
Rows == [dev : Devices, by : 0..NumSchedulers, next : Days]
Ways == {"reserve", "write", "silent"}
Requests == [kind : Kinds \cup {"none"}, way : Ways \cup {"none"}, saw : Batches \cup {0},
             pc : {"idle", "look", "drop", "set", "register", "describe", "running", "stopped", "over"}]
NoRun == [pc |-> "idle"]
Runs == [pc : {"drop", "load"}] \cup [pc : {"loaded", "queued"}, day : 1..MaxDay, due : BOOLEAN, rows : SUBSET Rows, new : SUBSET Devices]

TypeOK ==
    /\ size \in Sizes /\ enabled \in BOOLEAN /\ flag \in BOOLEAN /\ taken \in BOOLEAN
    /\ key \in Batches \cup {0}
    /\ req \in [Batches -> Requests]
    /\ doc \in [Batches -> Docs]
    /\ snap \in [Batches -> Docs]
    /\ rel \in [Batches -> {"none", "get", "del"}]
    /\ day \in 1..MaxDay
    /\ active \in [Devices -> BOOLEAN]
    /\ rows \subseteq Rows
    /\ run \in [Schedulers -> {NoRun} \cup Runs]
    /\ crashes \in 0..size.crashes /\ edits \in 0..size.edits /\ stops \in 0..size.stops
    /\ passes \in [Days -> Nat]
    /\ sent \in [Devices -> Days]
    /\ off \in [Devices -> BOOLEAN]

Init ==
    /\ size \in Sizes /\ enabled \in size.keys
    /\ key = 0 /\ flag = FALSE /\ taken = FALSE
    /\ req = [b \in Batches |-> [kind |-> "none", way |-> "none", pc |-> "idle", saw |-> 0]]
    /\ doc = [b \in Batches |-> "none"]
    /\ snap = [b \in Batches |-> "none"]
    /\ rel = [b \in Batches |-> "none"]
    /\ day = 1 /\ crashes = 0 /\ edits = 0 /\ stops = 0
    /\ active = [d \in Devices |-> TRUE]
    /\ \E ds \in {{}, Devices} : rows = {[dev |-> d, by |-> 0, next |-> 1] : d \in ds}
    /\ run = [s \in Schedulers |-> NoRun]
    /\ passes = [x \in Days |-> 0]
    /\ sent = [d \in Devices |-> 0]
    /\ off = [d \in Devices |-> FALSE]

-----------------------------------------------------------------------------
(* The key of the tenant. *)

Go(b, pc) == req' = [req EXCEPT ![b].pc = pc]

\* Admitted and not over.
Running(b) == req[b].pc \in {"register", "describe", "running"}

\* Only the requests of the page's scripts reserve the key. Without them a reprocessing,
\* like every audit, writes its document and with it the key all the same, and a mass
\* backup queues its children with no batch at all: no document and no key.
WaysOf(k) == IF k = "backup" THEN Ways ELSE {"write"}
Begins(w) == CASE w = "reserve" -> "look" [] w = "write" -> "register" [] OTHER -> "running"

\* Mass backups lift a stop, reprocessing and audits do not.
Ask(b) ==
    /\ b <= size.batches /\ req[b].pc = "idle" /\ \A c \in 1..(b - 1) : req[c].pc # "idle"
    /\ \E k \in size.kinds : \E w \in WaysOf(k) :
        /\ req' = [req EXCEPT ![b] = [kind |-> k, way |-> w, pc |-> Begins(w), saw |-> 0]]
        /\ flag' \in CASE w = "reserve" -> {flag, FALSE} [] w = "silent" -> {FALSE} [] OTHER -> {flag}
    /\ UNCHANGED <<key, doc, snap, rel, stops, taken, fixed, schedVars, crashes>>

\* Faulty variant: a key without a document counts as free.
HoldsKnown(c) == doc[c] = "bulk"

\* acquire_tenant_bulk_lock: no document yet counts as held.
Holds(c) == doc[c] \in {"bulk", "none"}

Look(b) ==
    /\ req[b].pc = "look"
    /\ req' = [req EXCEPT ![b].pc = IF ~enabled THEN "register"
                                    ELSE IF key = 0 THEN "set"
                                    ELSE IF Holds(key) THEN "over" ELSE "drop",
                          ![b].saw = IF enabled /\ key # 0 /\ ~Holds(key) THEN key ELSE 0]
    /\ UNCHANGED <<key, doc, snap, rel, flag, stops, taken, fixed, schedVars, crashes>>

\* The key of a batch that is registered and not described goes too, and so
\* does whatever key is there by now.
Drop(b) ==
    /\ req[b].pc = "drop"
    /\ key' = 0
    /\ taken' = (taken \/ key # req[b].saw \/ (key # 0 /\ doc[key] # "none" /\ Running(key)))
    /\ req' = [req EXCEPT ![b].pc = "set", ![b].saw = 0]
    /\ UNCHANGED <<doc, snap, rel, flag, stops, fixed, schedVars, crashes>>

\* SET NX
SetKey(b) ==
    /\ req[b].pc = "set"
    /\ key' = IF key = 0 THEN b ELSE key
    /\ Go(b, IF key = 0 THEN "register" ELSE "over")
    /\ UNCHANGED <<doc, snap, rel, flag, stops, taken, fixed, schedVars, crashes>>

\* Every write of a bulk document sets the key to it, or gives it up.
Written(b, d) ==
    /\ doc' = [doc EXCEPT ![b] = d]
    /\ key' = IF enabled /\ d = "bulk" THEN b ELSE key
    /\ taken' = (taken \/ (enabled /\ d = "bulk" /\ key \notin {0, b}))
    /\ rel' = IF enabled /\ d = "done" THEN [rel EXCEPT ![b] = "get"] ELSE rel

Register(b) ==
    /\ req[b].pc = "register"
    /\ Written(b, "plain")
    /\ Go(b, "describe")
    /\ UNCHANGED <<snap, flag, stops, fixed, schedVars, crashes>>

\* Only when all of its tasks are queued.
Describe(b) ==
    /\ req[b].pc = "describe"
    /\ Written(b, "bulk")
    /\ Go(b, "running")
    /\ UNCHANGED <<snap, flag, stops, fixed, schedVars, crashes>>

\* Heartbeats and polls read the document and write it back.
BeatRead(b) ==
    /\ req[b].pc \in {"describe", "running", "stopped"} /\ snap[b] = "none" /\ doc[b] # "none"
    /\ snap' = [snap EXCEPT ![b] = doc[b]]
    /\ UNCHANGED <<key, req, doc, rel, flag, stops, taken, fixed, schedVars, crashes>>

BeatWrite(b) ==
    /\ snap[b] # "none"
    /\ Written(b, snap[b])
    /\ snap' = [snap EXCEPT ![b] = "none"]
    /\ UNCHANGED <<req, flag, stops, fixed, schedVars, crashes>>

\* The last child is done.
WorkEnds(b) ==
    /\ req[b].pc \in {"running", "stopped"}
    /\ Go(b, "over")
    /\ UNCHANGED <<key, doc, snap, rel, flag, stops, taken, fixed, schedVars, crashes>>

\* A poll closes the document of a batch that is over.
Close(b) ==
    /\ req[b].pc = "over" /\ doc[b] = "bulk" /\ rel[b] = "none"
    /\ Written(b, "done")
    /\ UNCHANGED <<req, snap, flag, stops, fixed, schedVars, crashes>>

\* release_tenant_bulk_lock: GET, compare, DELETE.
ReleaseGet(b) ==
    /\ rel[b] = "get"
    /\ rel' = [rel EXCEPT ![b] = IF key \in {0, b} THEN "del" ELSE "none"]
    /\ UNCHANGED <<key, req, doc, snap, flag, stops, taken, fixed, schedVars, crashes>>

ReleaseDel(b) ==
    /\ rel[b] = "del"
    /\ rel' = [rel EXCEPT ![b] = "none"]
    /\ key' = 0
    /\ taken' = (taken \/ key \notin {0, b})
    /\ UNCHANGED <<req, doc, snap, flag, stops, fixed, schedVars, crashes>>

\* The key lives 30 minutes from the last write; the scheduler's own test for
\* a stale batch drops it in the same case.
KeyExpires ==
    /\ key # 0
    /\ key' = 0
    /\ taken' = (taken \/ Running(key))
    /\ UNCHANGED <<req, doc, snap, rel, flag, stops, fixed, schedVars, crashes>>

\* The web process dies; children already queued run on.
RequestDies(b) ==
    /\ req[b].pc \in {"look", "drop", "set", "register", "describe"} /\ crashes < size.crashes
    /\ crashes' = crashes + 1
    /\ \E pc \in {"over"} \cup (IF req[b].pc = "describe" THEN {"running"} ELSE {}) : Go(b, pc)
    /\ UNCHANGED <<key, doc, snap, rel, flag, stops, taken, fixed, schedVars>>

\* stop_all_backups: the flag, then every bulk document, in one sweep of keys. A task
\* of a VPN group that is at work is not terminated, and goes on when its batch is over.
StopAll ==
    /\ stops < size.stops
    /\ stops' = stops + 1
    /\ flag' = TRUE
    /\ doc' = [b \in Batches |-> IF doc[b] = "bulk" THEN "done" ELSE doc[b]]
    /\ rel' = [b \in Batches |-> IF doc[b] = "bulk" THEN "get" ELSE rel[b]]
    /\ \E left \in SUBSET {b \in Batches : req[b].kind = "backup"} :
        req' = [b \in Batches |-> IF req[b].pc # "running" THEN req[b]
                                 ELSE [req[b] EXCEPT !.pc = IF b \in left THEN "stopped" ELSE "over"]]
    /\ UNCHANGED <<key, snap, taken, fixed, schedVars, crashes>>

\* The flag lives three minutes; run_backup of a single device lifts it as well.
FlagGone ==
    /\ flag
    /\ flag' = FALSE
    /\ UNCHANGED <<key, req, doc, snap, rel, stops, taken, fixed, schedVars, crashes>>

-----------------------------------------------------------------------------
(* The scheduler. *)

\* Faulty variant: the kinds to wait for are taken for the kinds to ignore.
PausesForOthers(c) == c # 0 /\ doc[c] = "bulk" /\ req[c].kind = "audit"

\* _has_active_bulk_operation
Pauses(c) == c # 0 /\ doc[c] = "bulk" /\ req[c].kind # "audit"

\* The scheduler is alike in every process: the first idle one takes the task.
Check(s) ==
    /\ s <= size.schedulers /\ run[s] = NoRun /\ (\A t \in 1..(s - 1) : run[t] # NoRun)
    /\ ~flag /\ ~Pauses(key)
    /\ run' = [run EXCEPT ![s] = [pc |-> IF key = 0 \/ doc[key] = "bulk" THEN "load" ELSE "drop"]]
    /\ UNCHANGED <<lockVars, day, active, rows, edits, passes, sent, off, fixed, crashes>>

\* A key whose document is missing, not a batch, or completed is removed.
CheckDrops(s) ==
    /\ run[s].pc = "drop"
    /\ key' = 0
    /\ taken' = (taken \/ (key # 0 /\ Running(key)))
    /\ run' = [run EXCEPT ![s].pc = "load"]
    /\ UNCHANGED <<req, doc, snap, rel, flag, stops, day, active, rows, edits, passes, sent, off, fixed, crashes>>

\* Faulty variant: only what is due this very day.
DueToday(r) == r.next = day

Due(r) == r.next <= day

\* The schedules of active devices; a device without one will have one.
Load(s) ==
    LET found == {r \in rows : active[r.dev]}
        new == {d \in Devices : active[d] /\ ~\E r \in found : r.dev = d}
        due == \E r \in found : Due(r) IN
    /\ run[s].pc = "load"
    /\ run' = [run EXCEPT ![s] = IF due \/ new # {}
                                 THEN [pc |-> IF due THEN "loaded" ELSE "queued", day |-> day, due |-> due, rows |-> found, new |-> new]
                                 ELSE NoRun]
    /\ UNCHANGED <<lockVars, day, active, rows, edits, passes, sent, off, fixed, crashes>>

\* One due schedule queues every active device of the tenant.
Enqueue(s) ==
    /\ run[s].pc = "loaded"
    /\ run' = [run EXCEPT ![s].pc = "queued"]
    /\ passes' = [passes EXCEPT ![run[s].day] = @ + 1]
    /\ sent' = [d \in Devices |-> IF active[d] /\ d \notin Excluded /\ sent[d] < run[s].day THEN run[s].day ELSE sent[d]]
    /\ UNCHANGED <<lockVars, day, active, rows, edits, off, fixed, crashes>>

\* Faulty variant: the next run is computed from the very second of this one.
AdvancedSame(s) ==
    {IF run[s].due /\ (\E q \in run[s].rows : q.dev = r.dev /\ q.by = r.by)
     THEN [r EXCEPT !.next = run[s].day] ELSE r : r \in rows}

\* A tenant that was due has all its loaded schedules at one next time, over what a user set meanwhile.
Advanced(s) ==
    {IF run[s].due /\ (\E q \in run[s].rows : q.dev = r.dev /\ q.by = r.by)
     THEN [r EXCEPT !.next = run[s].day + 1] ELSE r : r \in rows}

\* Runs that overlap another may still take note of a device that was off.
OffAfter(s) == [d \in Devices |-> ~active[d] \/ (off[d] /\ \E t \in Schedulers \ {s} : run[t] # NoRun)]

\* Faulty variant: the commit comes before the queue.
CommitFirst(s) ==
    /\ run[s].pc \in {"loaded", "queued"}
    /\ rows' = Advanced(s) \cup {[dev |-> d, by |-> s, next |-> run[s].day + 1] : d \in run[s].new}
    /\ off' = OffAfter(s)
    /\ run' = [run EXCEPT ![s] = NoRun]
    /\ UNCHANGED <<lockVars, day, active, edits, passes, sent, fixed, crashes>>

\* One commit for everything, after everything was queued.
Commit(s) ==
    /\ run[s].pc = "queued"
    /\ rows' = Advanced(s) \cup {[dev |-> d, by |-> s, next |-> run[s].day + 1] : d \in run[s].new}
    /\ off' = OffAfter(s)
    /\ run' = [run EXCEPT ![s] = NoRun]
    /\ UNCHANGED <<lockVars, day, active, edits, passes, sent, fixed, crashes>>

\* The process dies or the database refuses: what was queued stays queued.
RunDies(s) ==
    /\ run[s] # NoRun /\ crashes < size.crashes
    /\ crashes' = crashes + 1
    /\ run' = [run EXCEPT ![s] = NoRun]
    /\ UNCHANGED <<lockVars, day, active, rows, edits, passes, sent, off, fixed>>

\* apply_daily_schedule moves one schedule of a device to a time still to come, this day or the next.
ApplyDaily(d) ==
    /\ active[d] /\ edits < size.edits
    /\ edits' = edits + 1
    /\ \E next \in {day, day + 1} :
        \/ /\ ~\E r \in rows : r.dev = d
           /\ rows' = rows \cup {[dev |-> d, by |-> 0, next |-> next]}
        \/ \E r \in rows : r.dev = d /\ rows' = (rows \ {r}) \cup {[r EXCEPT !.next = next]}
    /\ UNCHANGED <<lockVars, day, active, run, passes, sent, off, fixed, crashes>>

\* The device or its group is switched off or on, or taken out of the routine.
Switch(d) ==
    /\ edits < size.edits
    /\ edits' = edits + 1
    /\ active' = [active EXCEPT ![d] = ~@]
    /\ off' = [off EXCEPT ![d] = @ \/ active[d]]
    /\ UNCHANGED <<lockVars, day, rows, run, passes, sent, fixed, crashes>>

\* A run takes seconds: none is under way at the daily time.
DayPasses ==
    /\ day < size.days
    /\ \A s \in Schedulers : run[s] = NoRun
    /\ day' = day + 1
    /\ UNCHANGED <<lockVars, active, rows, run, edits, passes, sent, off, fixed, crashes>>

Request(b) == Ask(b) \/ Look(b) \/ Drop(b) \/ SetKey(b) \/ Register(b) \/ Describe(b)

Batch(b) == BeatWrite(b) \/ WorkEnds(b) \/ Close(b) \/ ReleaseGet(b) \/ ReleaseDel(b)

Schedule(s) == Check(s) \/ CheckDrops(s) \/ Load(s) \/ Enqueue(s) \/ Commit(s)

Next ==
    \/ \E b \in Batches : Request(b) \/ Batch(b) \/ BeatRead(b) \/ RequestDies(b)
    \/ \E s \in Schedulers : Schedule(s) \/ RunDies(s)
    \/ \E d \in Devices : ApplyDaily(d) \/ Switch(d)
    \/ KeyExpires \/ StopAll \/ FlagGone \/ DayPasses

Spec == Init /\ [][Next]_vars

\* A request and a task that were taken run on; batches end (BulkBatch) and the
\* browser that shows one closes its document; keys in Redis expire.
FairSpec ==
    /\ Spec
    /\ \A b \in Batches : WF_vars(Request(b) /\ req[b].pc # "idle") /\ WF_vars(Batch(b))
    /\ SF_vars(\E s \in Schedulers : Schedule(s))
    /\ WF_vars(KeyExpires) /\ WF_vars(FlagGone)

-----------------------------------------------------------------------------
\* The key knows of a batch from its reservation, or from its document on.
Announced(b) == Running(b) /\ (req[b].way = "reserve" \/ doc[b] = "bulk")

\* With the key enabled, two mass operations that the key knows of run together
\* only after the key was taken from one of them: it expired under a batch that
\* ran, an operation that reserves nothing wrote its own, a check that was not
\* followed at once by its delete, or a batch not yet described. What the key
\* does not know of is left out: a mass backup requested without the scripts of
\* the page, an operation that reserves nothing until its document is there, and
\* the VPN group task that goes on when its batch is stopped.
OneBatch ==
    enabled /\ ~taken => \A b, c \in Batches : Announced(b) /\ Announced(c) => b = c

\* The scheduler does not start while a batch it can know of runs, under the
\* same exceptions; with the key disabled, which is the default, it does.
SchedulerWaits ==
    [][\A s \in Schedulers : enabled /\ ~taken /\ run[s] = NoRun /\ run'[s] # NoRun =>
        ~\E b \in Batches : req[b].pc = "running" /\ doc[b] = "bulk" /\ req[b].kind = "backup"]_vars

\* Scheduler runs that overlap, runs that die before their commit, and users who
\* move a schedule back to a time of the same day queue a day again; nothing else does.
PassesBounded ==
    \A x \in Days : passes[x] <= NumSchedulers * (1 + edits) + crashes

\* No schedule moves past a day for which its device was not queued, unless the
\* device was off meanwhile or its type is left out.
NoDayMissed ==
    [][\A s \in Schedulers : run[s] # NoRun /\ run'[s] = NoRun /\ crashes' = crashes =>
        \A r \in rows, q \in rows' :
            q.dev = r.dev /\ q.by = r.by /\ q.next > r.next /\ active[r.dev] /\ ~off[r.dev] /\ r.dev \notin Excluded
                => sent[r.dev] >= r.next]_vars

Late(d) == active[d] /\ \E r \in rows : r.dev = d /\ r.next <= day

\* A device that is due is not left waiting, by batches, stops, dead requests
\* or days on which nothing ran.
DueIsServed == size.schedulers > 0 => \A d \in Devices : []<>~Late(d)
=============================================================================
