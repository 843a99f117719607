------------------------------ MODULE BulkBatch ------------------------------
(***************************************************************************)
(* One mass backup ("lote"): the web handler that starts it, the Celery    *)
(* child tasks of its three phases (direct, jump host, VPN), the chord     *)
(* callbacks that start phases two and three, the status endpoint that     *)
(* recomputes its counters, and the two operator actions that stop it.     *)
(*                                                                         *)
(* They share one JSON document in Redis, the bulk meta.  Every update of  *)
(* it is update_task_meta: a GET, a merge in Python and a SETEX, which is  *)
(* not atomic; here it is always a read step and a write step, and every   *)
(* participant can run between the two.                                    *)
(*                                                                         *)
(* A child stands for one Celery task: a device (run_backup_task) or a     *)
(* group of Size[c] devices (run_vpn_group_backups_task).                  *)
(***************************************************************************)
EXTENDS Naturals, FiniteSets

CONSTANTS
    Direct,     \* children of phase 1, enqueued by the handler
    Jump,       \* jump-host groups, phase 2
    Vpn,        \* VPN groups, phase 3
    Size,       \* devices of each child
    Pollers,    \* browsers that poll the status endpoint
    Operators,  \* which stop actions the operator may use
    OtherStops, \* may another tenant set the global stop flag?
    MaxKills    \* bound: tasks killed by the hard limit or a worker crash

Child == Direct \cup Jump \cup Vpn

ASSUME ChildrenAssumption ==
    /\ IsFiniteSet(Child) /\ Child # {}
    /\ Direct \cap Jump = {} /\ Direct \cap Vpn = {} /\ Jump \cap Vpn = {}

ASSUME BoundsAssumption ==
    /\ Size \in [Child -> Nat \ {0}]
    /\ Operators \subseteq {"cancel", "stopall"}
    /\ OtherStops \in BOOLEAN
    /\ MaxKills \in Nat

VARIABLES
    meta,       \* Redis: backup_center:task_meta:<bulk id>
    stop,       \* Redis: backup_center:force_stop_backups
    cel,        \* Celery's view of each child
    revoking,   \* revoke broadcasts sent and not yet acted on
    hpc, hloc,  \* handler run_backup_all: step, locals
    wpc, wloc,  \* each child's worker: step, locals
    cpc, cloc,  \* each chord callback: step, locals
    ppc, ploc,  \* each status poll: step, locals
    opc, oloc,  \* each operator action: step, locals
    kills,      \* tasks killed so far
    everStopped,\* history: a stop was requested or the flag was raised
    collided    \* history: an update was written while another was under way

vars == <<meta, stop, cel, revoking, hpc, hloc, wpc, wloc, cpc, cloc,
          ppc, ploc, opc, oloc, kills, everStopped, collided>>

-----------------------------------------------------------------------------
Status == {"queued", "running", "stopping", "success", "failed", "stopped"}

Meta == [is_bulk: BOOLEAN, child_task_ids: SUBSET Child, total_tasks: Nat,
         done_tasks: Nat, success_tasks: Nat, failed_tasks: Nat,
         cancel_requested: BOOLEAN, completed: BOOLEAN, status: Status,
         force_cancelled: SUBSET Child]

\* The document register_task writes, with the defaults every reader uses for
\* the fields it does not have yet.
Registered ==
    [is_bulk |-> FALSE, child_task_ids |-> {}, total_tasks |-> 0,
     done_tasks |-> 0, success_tasks |-> 0, failed_tasks |-> 0,
     cancel_requested |-> FALSE, completed |-> FALSE, status |-> "queued",
     force_cancelled |-> {}]

Callbacks == {"jumpcb", "vpncb"}

\* The participants that update the document have names of their own.
ASSUME ParticipantsAssumption ==
    IsFiniteSet(Pollers) /\ Callbacks \cap (Child \cup Pollers) = {}

\* OK, BAD: Celery SUCCESS with a result that says success or failure.
\* DROPPED: the message was deleted from its queue, Celery says PENDING.
\* LOST: a REVOKED or FAILURE result that expired, Celery says PENDING.
CelState == {"none", "PENDING", "STARTED", "OK", "BAD", "REVOKED", "FAILURE",
             "DROPPED", "LOST"}
Returned == {"OK", "BAD"}
Ended    == Returned \cup {"REVOKED", "FAILURE", "LOST"}

MaxOf(a, b) == IF a >= b THEN a ELSE b

-----------------------------------------------------------------------------
(* Reads that decide.                                                      *)

\* _should_stop_now: the global flag, or this batch's own cancel mark.
ShouldStopNow == stop \/ meta.cancel_requested

\* Counters only grow: what this poll counted against what the document says.
Monotone(now, prev)  == MaxOf(now, prev)

\* After a cancel a child that has not ended counts as a failure: the ones the
\* cancel revoked, or all of them if it revoked none.
ForcedDone(m) ==
    {c \in m.child_task_ids :
        /\ m.cancel_requested
        /\ c \in m.force_cancelled \/ m.force_cancelled = {}
        /\ cel[c] \in {"none", "PENDING", "STARTED", "DROPPED", "LOST"}}

\* Faulty variant: the cancel is forgotten when the batch closes.
ClosedByCount(cancelled, failures) == IF failures > 0 THEN "failed" ELSE "success"

\* The status of a closed batch.
ClosedStatus(cancelled, failures) ==
    IF cancelled THEN "stopped" ELSE IF failures > 0 THEN "failed" ELSE "success"

\* _refresh_bulk_task_meta: the counters of the document m, from what Celery
\* says of its children now.
Refresh(m) ==
    LET success == {c \in m.child_task_ids : cel[c] = "OK"}
        failed  == ForcedDone(m) \cup
                   {c \in m.child_task_ids : cel[c] \in {"BAD", "REVOKED", "FAILURE"}}
        total   == IF m.total_tasks = 0 THEN Cardinality(m.child_task_ids)
                                        ELSE m.total_tasks
        okN     == Monotone(Cardinality(success), m.success_tasks)
        badN    == Monotone(Cardinality(failed), m.failed_tasks)
        doneN   == MaxOf(Monotone(Cardinality(success \cup failed), m.done_tasks),
                         okN + badN)
        over    == total = 0 \/ m.completed \/ doneN >= total
    IN [m EXCEPT
          !.is_bulk = TRUE, !.total_tasks = total, !.done_tasks = doneN,
          !.success_tasks = okN, !.failed_tasks = badN, !.completed = over,
          !.status = IF over THEN ClosedStatus(m.cancel_requested, badN)
                     ELSE IF m.cancel_requested THEN "stopping" ELSE "running"]

\* The fields of a refreshed document that the poll writes back: everything
\* it returned, including the cancel mark it had read.
RefreshedInto(snap, new) ==
    [new EXCEPT !.child_task_ids = snap.child_task_ids,
                !.force_cancelled = snap.force_cancelled]

-----------------------------------------------------------------------------
Init ==
    /\ meta = Registered /\ stop \in BOOLEAN
    /\ cel = [c \in Child |-> "none"] /\ revoking = {}
    /\ hpc = "clear" /\ hloc = Registered
    /\ wpc = [c \in Child |-> "off"]
    /\ wloc = [c \in Child |-> [snap |-> Registered, out |-> "OK", left |-> 0]]
    /\ cpc = [k \in Callbacks |-> "none"]
    /\ cloc = [k \in Callbacks |-> [snap |-> Registered, new |-> Registered]]
    /\ ppc = [p \in Pollers |-> "idle"]
    /\ ploc = [p \in Pollers |-> [snap |-> Registered, new |-> Registered]]
    /\ opc = [o \in Operators |-> "idle"]
    /\ oloc = [o \in Operators |-> [snap |-> Registered, forced |-> {}]]
    /\ kills = 0 /\ everStopped = FALSE /\ collided = FALSE

\* update_task_meta, in the middle: the participants that have read the
\* document and will write it back.
InFlight ==
    {c \in Child : wpc[c] \in {"touching", "lasting"}}
      \cup {k \in Callbacks : cpc[k] \in {"read", "write", "stopwrite"}}
      \cup {p \in Pollers : ppc[p] # "idle"}
      \cup {o \in Operators : opc[o] = "write"}
      \cup (IF hpc \in {"read", "write"} THEN {"handler"} ELSE {})

\* update_task_meta, its end (_write_task_meta): the merged document replaces
\* whatever is there.
WriteMeta(m) ==
    /\ meta' = m
    /\ collided' = (collided \/ Cardinality(InFlight) > 1)

hvars == <<hpc, hloc>>
wvars == <<wpc, wloc>>
cvars == <<cpc, cloc>>
pvars == <<ppc, ploc>>
ovars == <<opc, oloc>>

-----------------------------------------------------------------------------
(* The handler.                                                            *)

\* run_backup_all removes the global stop flag before anything else.
HClear ==
    /\ hpc = "clear"
    /\ stop' = FALSE /\ hpc' = "register"
    /\ UNCHANGED <<meta, collided, cel, revoking, hloc, wvars, cvars, pvars, ovars, kills, everStopped>>

\* It writes the bulk document (without is_bulk) ...
HRegister ==
    /\ hpc = "register"
    /\ meta' = Registered /\ hpc' = "enqueue"
    /\ UNCHANGED <<collided, stop, cel, revoking, hloc, wvars, cvars, pvars, ovars, kills, everStopped>>

\* The callback task that follows phase 1: with no jump group it delegates
\* to the VPN callback at once.
FirstCallback == IF Jump = {} THEN "vpncb" ELSE "jumpcb"
Deferred      == Jump \cup Vpn # {}

\* ... then hands phase 1 to Celery: a chord when later phases exist, plain
\* tasks when not, the callback alone when phase 1 is empty ...
HEnqueue ==
    /\ hpc = "enqueue"
    /\ cel' = [c \in Child |-> IF c \in Direct THEN "PENDING" ELSE cel[c]]
    /\ cpc' = [cpc EXCEPT ![FirstCallback] =
                 IF ~Deferred THEN "none"
                 ELSE IF Direct = {} THEN "queued" ELSE "armed"]
    /\ hpc' = "merge"
    /\ UNCHANGED <<meta, collided, stop, revoking, hloc, wvars, cloc, pvars, ovars, kills, everStopped>>

\* Faulty variant: only what is enqueued now.
TasksNow == Cardinality(Direct)

\* The tasks the batch will have: also the groups that only the callbacks add.
PlannedTasks == Cardinality(Direct) + (IF Deferred THEN Cardinality(Jump) + Cardinality(Vpn)
                                                   ELSE 0)

\* ... and only then describes the batch: _merge_existing_bulk_children reads
\* the document once ...
HMerge ==
    /\ hpc = "merge"
    /\ LET ids == Direct \cup meta.child_task_ids
       IN hloc' = [Registered EXCEPT
                     !.is_bulk = TRUE, !.status = "running", !.child_task_ids = ids,
                     !.total_tasks = MaxOf(PlannedTasks,
                                           MaxOf(meta.total_tasks, Cardinality(ids)))]
    /\ hpc' = "read"
    /\ UNCHANGED <<meta, collided, stop, cel, revoking, wvars, cvars, pvars, ovars, kills, everStopped>>

\* ... update_task_meta reads it again (all it keeps of this read is the list
\* of forced children) ...
HRead ==
    /\ hpc = "read"
    /\ hloc' = [hloc EXCEPT !.force_cancelled = meta.force_cancelled]
    /\ hpc' = "write"
    /\ UNCHANGED <<meta, collided, stop, cel, revoking, wvars, cvars, pvars, ovars, kills, everStopped>>

\* ... and writes it, counters at zero and cancel_requested False.
HWrite ==
    /\ hpc = "write"
    /\ WriteMeta(hloc) /\ hpc' = "done"
    /\ UNCHANGED <<stop, cel, revoking, hloc, wvars, cvars, pvars, ovars, kills, everStopped>>

-----------------------------------------------------------------------------
(* A child task.  For each device: heartbeat, stop check, backup; then a   *)
(* last heartbeat and the return value.                                    *)

WStart(c) ==
    /\ cel[c] = "PENDING"
    /\ cel' = [cel EXCEPT ![c] = "STARTED"]
    /\ wpc' = [wpc EXCEPT ![c] = "touch"]
    /\ wloc' = [wloc EXCEPT ![c] = [snap |-> Registered, out |-> "OK", left |-> Size[c]]]
    /\ UNCHANGED <<meta, collided, stop, revoking, hvars, cvars, pvars, ovars, kills, everStopped>>

\* _touch_bulk_activity, first half: the document is read ...
WRead(c) ==
    /\ wpc[c] \in {"touch", "last"}
    /\ wloc' = [wloc EXCEPT ![c].snap = meta]
    /\ wpc' = [wpc EXCEPT ![c] = IF @ = "touch" THEN "touching" ELSE "lasting"]
    /\ UNCHANGED <<meta, collided, stop, cel, revoking, hvars, cvars, pvars, ovars, kills, everStopped>>

\* ... second half: it is written back, as it was but for the time stamps.
WWrite(c) ==
    /\ wpc[c] \in {"touching", "lasting"}
    /\ WriteMeta(wloc[c].snap)
    /\ wloc' = [wloc EXCEPT ![c].snap = Registered]
    /\ wpc' = [wpc EXCEPT ![c] = IF @ = "touching" THEN "check" ELSE "return"]
    /\ UNCHANGED <<stop, cel, revoking, hvars, cvars, pvars, ovars, kills, everStopped>>

\* Stop check before a device: a stopped child reports failure.
WCheck(c) ==
    /\ wpc[c] = "check"
    /\ IF ShouldStopNow
         THEN /\ wloc' = [wloc EXCEPT ![c].out = "BAD", ![c].left = 0]
              /\ wpc' = [wpc EXCEPT ![c] = "last"]
         ELSE /\ wpc' = [wpc EXCEPT ![c] = "exec"]
              /\ UNCHANGED wloc
    /\ UNCHANGED <<meta, collided, stop, cel, revoking, hvars, cvars, pvars, ovars, kills, everStopped>>

\* One device is backed up, or is refused, or fails.
WExec(c) ==
    /\ wpc[c] = "exec"
    /\ \E ok \in BOOLEAN :
         wloc' = [wloc EXCEPT ![c].left = @ - 1,
                              ![c].out = IF ok THEN @ ELSE "BAD"]
    /\ wpc' = [wpc EXCEPT ![c] = IF wloc[c].left > 1 THEN "touch" ELSE "last"]
    /\ UNCHANGED <<meta, collided, stop, cel, revoking, hvars, cvars, pvars, ovars, kills, everStopped>>

\* The task returns its result dict; every exception it catches is one too.
WReturn(c) ==
    /\ wpc[c] = "return"
    /\ cel' = [cel EXCEPT ![c] = wloc[c].out]
    /\ wpc' = [wpc EXCEPT ![c] = "off"]
    /\ UNCHANGED <<meta, collided, stop, revoking, hvars, wloc, cvars, pvars, ovars, kills, everStopped>>

\* The hard time limit kills the process (Celery: FAILURE), or the whole
\* worker dies and, without late acknowledgement, the task stays STARTED.
WKill(c) ==
    /\ wpc[c] # "off" /\ kills < MaxKills
    /\ \E s \in {"FAILURE", "STARTED"} : cel' = [cel EXCEPT ![c] = s]
    /\ wpc' = [wpc EXCEPT ![c] = "off"]
    /\ kills' = kills + 1
    /\ UNCHANGED <<meta, collided, stop, revoking, hvars, wloc, cvars, pvars, ovars, everStopped>>

\* A revoke broadcast reaches the worker: the task is discarded or killed.
\* Workers remember the ids of revoked tasks that have not arrived yet.
WRevoked(c) ==
    /\ c \in revoking /\ cel[c] # "none"
    /\ revoking' = revoking \ {c}
    /\ IF cel[c] = "PENDING" \/ wpc[c] # "off"
         THEN /\ cel' = [cel EXCEPT ![c] = "REVOKED"]
              /\ wpc' = [wpc EXCEPT ![c] = "off"]
         ELSE UNCHANGED <<cel, wpc>>
    /\ UNCHANGED <<meta, collided, stop, hvars, wloc, cvars, pvars, ovars, kills, everStopped>>

\* The result backend forgets after a day.  What a task returned is still in
\* its own task meta; a revoked or killed task left nothing there.
ExpireResult(c) ==
    /\ cel[c] \in {"REVOKED", "FAILURE"}
    /\ cel' = [cel EXCEPT ![c] = "LOST"]
    /\ UNCHANGED <<meta, collided, stop, revoking, hvars, wvars, cvars, pvars, ovars, kills, everStopped>>

-----------------------------------------------------------------------------
(* The chord callbacks.                                                    *)

Header(k) == IF k = "vpncb" /\ Jump # {} THEN Jump ELSE Direct

\* The last header task ended: Celery runs the callback if every one of them
\* returned, and fails it if one was revoked or killed.
ChordReturn(k) ==
    /\ cpc[k] = "armed"
    /\ \A c \in Header(k) : cel[c] \in Ended
    /\ cpc' = [cpc EXCEPT ![k] =
                 IF \A c \in Header(k) : cel[c] \in Returned THEN "queued" ELSE "dead"]
    /\ UNCHANGED <<meta, collided, stop, cel, revoking, hvars, wvars, cloc, pvars, ovars, kills, everStopped>>

\* The callback starts with its stop check.  The jump callback then records
\* its groups before it enqueues them, the VPN callback after.
CCheck(k) ==
    /\ cpc[k] = "queued"
    /\ cpc' = [cpc EXCEPT ![k] = IF k = "vpncb" /\ Vpn = {} THEN "done"
                                 ELSE IF ShouldStopNow THEN "stopread"
                                 ELSE IF k = "jumpcb" THEN "merge" ELSE "enqueue"]
    /\ UNCHANGED <<meta, collided, stop, cel, revoking, hvars, wvars, cloc, pvars, ovars, kills, everStopped>>

\* Stopped: update_task_meta(status="stopping"), in two steps, and no more.
CStopRead(k) ==
    /\ cpc[k] = "stopread"
    /\ cloc' = [cloc EXCEPT ![k].snap = meta]
    /\ cpc' = [cpc EXCEPT ![k] = "stopwrite"]
    /\ UNCHANGED <<meta, collided, stop, cel, revoking, hvars, wvars, pvars, ovars, kills, everStopped>>

CStopWrite(k) ==
    /\ cpc[k] = "stopwrite"
    /\ WriteMeta([cloc[k].snap EXCEPT !.status = "stopping"])
    /\ cpc' = [cpc EXCEPT ![k] = "done"]
    /\ cloc' = [cloc EXCEPT ![k].snap = Registered]
    /\ UNCHANGED <<stop, cel, revoking, hvars, wvars, pvars, ovars, kills, everStopped>>

\* Not stopped: the children it adds, merged with the document it reads now.
CMerge(k) ==
    /\ cpc[k] = "merge"
    /\ LET added   == IF k = "jumpcb" THEN Jump ELSE Vpn
           pending == IF k = "jumpcb" THEN Cardinality(Vpn) ELSE 0
           ids     == meta.child_task_ids \cup added
       IN cloc' = [cloc EXCEPT ![k].new =
                     [Registered EXCEPT
                        !.child_task_ids = ids,
                        !.total_tasks = MaxOf(meta.total_tasks,
                                              Cardinality(ids) + pending)]]
    /\ cpc' = [cpc EXCEPT ![k] = "read"]
    /\ UNCHANGED <<meta, collided, stop, cel, revoking, hvars, wvars, pvars, ovars, kills, everStopped>>

CRead(k) ==
    /\ cpc[k] = "read"
    /\ cloc' = [cloc EXCEPT ![k].snap = meta]
    /\ cpc' = [cpc EXCEPT ![k] = "write"]
    /\ UNCHANGED <<meta, collided, stop, cel, revoking, hvars, wvars, pvars, ovars, kills, everStopped>>

CWrite(k) ==
    /\ cpc[k] = "write"
    /\ WriteMeta([cloc[k].snap EXCEPT !.child_task_ids = cloc[k].new.child_task_ids,
                                      !.total_tasks = cloc[k].new.total_tasks,
                                      !.status = "running"])
    /\ cpc' = [cpc EXCEPT ![k] = IF k = "jumpcb" THEN "enqueue" ELSE "done"]
    /\ cloc' = [cloc EXCEPT ![k] = [snap |-> Registered, new |-> Registered]]
    /\ UNCHANGED <<stop, cel, revoking, hvars, wvars, pvars, ovars, kills, everStopped>>

\* Faulty variant: phase 3 is queued beside phase 2 instead of behind it.
CEnqueueJumpNoChord ==
    /\ cpc["jumpcb"] = "enqueue"
    /\ cel' = [c \in Child |-> IF c \in Jump THEN "PENDING" ELSE cel[c]]
    /\ cpc' = [cpc EXCEPT !["jumpcb"] = "done",
                          !["vpncb"] = IF Vpn # {} THEN "queued" ELSE @]
    /\ UNCHANGED <<meta, collided, stop, revoking, hvars, wvars, cloc, pvars, ovars, kills, everStopped>>

\* Faulty variant: phase 2 without a callback.
CEnqueueJumpAlone ==
    /\ cpc["jumpcb"] = "enqueue"
    /\ cel' = [c \in Child |-> IF c \in Jump THEN "PENDING" ELSE cel[c]]
    /\ cpc' = [cpc EXCEPT !["jumpcb"] = "done"]
    /\ UNCHANGED <<meta, collided, stop, revoking, hvars, wvars, cloc, pvars, ovars, kills, everStopped>>

\* Phase 2 goes to Celery as a chord whose callback starts phase 3.
CEnqueueJump ==
    /\ cpc["jumpcb"] = "enqueue"
    /\ cel' = [c \in Child |-> IF c \in Jump THEN "PENDING" ELSE cel[c]]
    /\ cpc' = [cpc EXCEPT !["jumpcb"] = "done",
                          !["vpncb"] = IF Vpn # {} THEN "armed" ELSE @]
    /\ UNCHANGED <<meta, collided, stop, revoking, hvars, wvars, cloc, pvars, ovars, kills, everStopped>>

\* Phase 3 goes to Celery as plain tasks.
CEnqueueVpn ==
    /\ cpc["vpncb"] = "enqueue"
    /\ cel' = [c \in Child |-> IF c \in Vpn THEN "PENDING" ELSE cel[c]]
    /\ cpc' = [cpc EXCEPT !["vpncb"] = "merge"]
    /\ UNCHANGED <<meta, collided, stop, revoking, hvars, wvars, cloc, pvars, ovars, kills, everStopped>>

-----------------------------------------------------------------------------
(* The status endpoint.                                                    *)

\* A poll reads the document; it goes on only for an unfinished bulk.
PRead(p) ==
    /\ ppc[p] = "idle"
    /\ meta.is_bulk /\ ~meta.completed
    /\ ploc' = [ploc EXCEPT ![p].new = meta]
    /\ ppc' = [ppc EXCEPT ![p] = "refresh"]
    /\ UNCHANGED <<meta, collided, stop, cel, revoking, hvars, wvars, cvars, ovars, kills, everStopped>>

PRefresh(p) ==
    /\ ppc[p] = "refresh"
    /\ ploc' = [ploc EXCEPT ![p].new = Refresh(@)]
    /\ ppc' = [ppc EXCEPT ![p] = "read"]
    /\ UNCHANGED <<meta, collided, stop, cel, revoking, hvars, wvars, cvars, ovars, kills, everStopped>>

PUpdateRead(p) ==
    /\ ppc[p] = "read"
    /\ ploc' = [ploc EXCEPT ![p].snap = meta]
    /\ ppc' = [ppc EXCEPT ![p] = "write"]
    /\ UNCHANGED <<meta, collided, stop, cel, revoking, hvars, wvars, cvars, ovars, kills, everStopped>>

PUpdateWrite(p) ==
    /\ ppc[p] = "write"
    /\ WriteMeta(RefreshedInto(ploc[p].snap, ploc[p].new))
    /\ ppc' = [ppc EXCEPT ![p] = "idle"]
    /\ ploc' = [ploc EXCEPT ![p] = [snap |-> Registered, new |-> Registered]]
    /\ UNCHANGED <<stop, cel, revoking, hvars, wvars, cvars, ovars, kills, everStopped>>

-----------------------------------------------------------------------------
(* The operator: cancel this batch, or stop every backup.                  *)

\* Both start from a document that says is_bulk.  Cancel revokes the listed
\* children that Celery does not report ended; stop-all revokes the messages
\* the workers hold and the device tasks (not the groups) they run.
ORevoke(o) ==
    /\ opc[o] = "idle" /\ meta.is_bulk
    /\ \E held \in SUBSET {c \in Child : cel[c] = "PENDING"} :
         LET open == IF o = "cancel"
                       THEN {c \in meta.child_task_ids : cel[c] \notin Ended \ {"LOST"}}
                       ELSE held \cup {c \in Direct : Size[c] = 1 /\ cel[c] = "STARTED"}
         IN /\ revoking' = revoking \cup open
            /\ oloc' = [oloc EXCEPT ![o].forced = open]
    /\ opc' = [opc EXCEPT ![o] = "flag"]
    /\ UNCHANGED <<meta, collided, stop, cel, hvars, wvars, cvars, pvars, kills, everStopped>>

\* Both raise the global flag; stop-all also empties the queues celery and
\* vpn_queue, messages of callbacks included, but not jump_queue.
OFlag(o) ==
    /\ opc[o] = "flag"
    /\ stop' = TRUE /\ everStopped' = TRUE
    /\ IF o = "stopall"
         THEN /\ cel' = [c \in Child |-> IF /\ c \in (Direct \cup Vpn) \ revoking
                                            /\ cel[c] = "PENDING"
                                           THEN "DROPPED" ELSE cel[c]]
              /\ cpc' = [k \in Callbacks |-> IF k = FirstCallback /\ cpc[k] = "queued"
                                               THEN "dead" ELSE cpc[k]]
         ELSE UNCHANGED <<cel, cpc>>
    /\ opc' = [opc EXCEPT ![o] = "read"]
    /\ UNCHANGED <<meta, collided, revoking, hvars, wvars, cloc, pvars, oloc, kills>>

ORead(o) ==
    /\ opc[o] = "read"
    /\ oloc' = [oloc EXCEPT ![o].snap = meta]
    /\ opc' = [opc EXCEPT ![o] = IF o = "stopall" /\ (meta.completed \/ ~meta.is_bulk)
                                   THEN "done" ELSE "write"]
    /\ UNCHANGED <<meta, collided, stop, cel, revoking, hvars, wvars, cvars, pvars, kills, everStopped>>

\* Cancel reopens the document as "stopping"; stop-all closes it as "stopped".
OWrite(o) ==
    /\ opc[o] = "write"
    /\ WriteMeta(IF o = "cancel"
                   THEN [oloc[o].snap EXCEPT !.cancel_requested = TRUE, !.completed = FALSE,
                                             !.status = "stopping",
                                             !.force_cancelled = oloc[o].forced]
                   ELSE [oloc[o].snap EXCEPT !.cancel_requested = TRUE, !.completed = TRUE,
                                             !.status = "stopped"])
    /\ opc' = [opc EXCEPT ![o] = "done"]
    /\ oloc' = [oloc EXCEPT ![o] = [snap |-> Registered, forced |-> {}]]
    /\ UNCHANGED <<stop, cel, revoking, hvars, wvars, cvars, pvars, kills, everStopped>>

\* The flag is global: another tenant's cancel raises it for this batch too.
OtherStop ==
    /\ OtherStops /\ ~stop
    /\ stop' = TRUE /\ everStopped' = TRUE
    /\ UNCHANGED <<meta, collided, cel, revoking, hvars, wvars, cvars, pvars, ovars, kills>>

\* The flag goes: its three minutes are over, or any tenant starts a backup.
FlagGone ==
    /\ stop
    /\ stop' = FALSE
    /\ UNCHANGED <<meta, collided, cel, revoking, hvars, wvars, cvars, pvars, ovars, kills, everStopped>>

-----------------------------------------------------------------------------
Handler == HClear \/ HRegister \/ HEnqueue \/ HMerge \/ HRead \/ HWrite
Worker(c) == WStart(c) \/ WRead(c) \/ WWrite(c) \/ WCheck(c) \/ WExec(c) \/ WReturn(c)
CallbackStep(k) == ChordReturn(k) \/ CCheck(k) \/ CStopRead(k) \/ CStopWrite(k)
                     \/ CMerge(k) \/ CRead(k) \/ CWrite(k)
Poll(p) == PRead(p) \/ PRefresh(p) \/ PUpdateRead(p) \/ PUpdateWrite(p)
Operator(o) == ORevoke(o) \/ OFlag(o) \/ ORead(o) \/ OWrite(o)

Next ==
    \/ Handler
    \/ \E c \in Child : Worker(c) \/ WKill(c) \/ WRevoked(c) \/ ExpireResult(c)
    \/ \E k \in Callbacks : CallbackStep(k)
    \/ CEnqueueJump \/ CEnqueueVpn
    \/ \E p \in Pollers : Poll(p)
    \/ \E o \in Operators : Operator(o)
    \/ OtherStop \/ FlagGone

Spec == Init /\ [][Next]_vars

\* The request runs to its end, workers and broker deliver, an open page keeps
\* polling, and an operator action once begun is finished.
Fairness ==
    /\ WF_vars(Handler)
    /\ \A c \in Child : WF_vars(Worker(c)) /\ WF_vars(WRevoked(c))
    /\ \A k \in Callbacks : WF_vars(CallbackStep(k))
    /\ WF_vars(CEnqueueJump) /\ WF_vars(CEnqueueVpn)
    /\ \A p \in Pollers : WF_vars(Poll(p))
    /\ \A o \in Operators : WF_vars(OFlag(o) \/ ORead(o) \/ OWrite(o))

FairSpec == Spec /\ Fairness

-----------------------------------------------------------------------------
(* Properties.                                                             *)

\* Every variable keeps the shape the code gives it.
TypeOK ==
    /\ meta \in Meta /\ stop \in BOOLEAN
    /\ cel \in [Child -> CelState] /\ revoking \subseteq Child
    /\ hpc \in {"clear", "register", "enqueue", "merge", "read", "write", "done"}
    /\ hloc \in Meta
    /\ wpc \in [Child -> {"off", "touch", "touching", "check", "exec", "last",
                          "lasting", "return"}]
    /\ wloc \in [Child -> [snap: Meta, out: Returned, left: Nat]]
    /\ cpc \in [Callbacks -> {"none", "armed", "queued", "dead", "stopread", "stopwrite",
                              "merge", "read", "write", "enqueue", "done"}]
    /\ cloc \in [Callbacks -> [snap: Meta, new: Meta]]
    /\ ppc \in [Pollers -> {"idle", "refresh", "read", "write"}]
    /\ ploc \in [Pollers -> [snap: Meta, new: Meta]]
    /\ opc \in [Operators -> {"idle", "flag", "read", "write", "done"}]
    /\ oloc \in [Operators -> [snap: Meta, forced: SUBSET Child]]
    /\ kills \in Nat /\ everStopped \in BOOLEAN /\ collided \in BOOLEAN

\* Phases are sequential whatever is cancelled, killed or lost: a jump group
\* is handed to Celery only after every direct child has returned, and a VPN
\* group only after every direct child and every jump group has (docstring of
\* enqueue_jump_and_vpn_after_direct_phase_task).
PhaseOrder ==
    /\ (\E j \in Jump : cel[j] # "none") => \A c \in Direct : cel[c] \in Returned
    /\ (\E v \in Vpn : cel[v] # "none") =>
          \A c \in Direct \cup Jump : cel[c] \in Returned

\* The status endpoint calls a batch complete only when it is: if nobody
\* stopped backups and no two updates of the document collided, every child
\* of every phase, also of the phases not yet enqueued, has ended.
CompletedMeansEnded ==
    meta.completed /\ ~everStopped /\ ~collided => \A c \in Child : cel[c] \in Ended

\* A batch that carries the cancel mark is never shown as a success, also when
\* every child succeeded before the workers saw the stop.
CancelledNeverSuccess ==
    meta.cancel_requested => meta.status # "success"

\* If nobody stops backups and no worker dies, all three phases run to the end,
\* even when updates of the shared document are lost.
AllPhasesRun ==
    <>[](everStopped \/ kills > 0 \/ \A c \in Child : cel[c] \in Returned)

\* A started batch ends, by itself or because it was stopped, if no worker dies
\* and no update is lost.  (The refusal in _reserve_bulk_or_json_error: "Aguarde
\* finalizar ou use Parar lote/Parar todos antes de iniciar outro".)
BatchEnds == (hpc = "done") ~> (meta.completed \/ kills > 0 \/ collided)
=============================================================================
