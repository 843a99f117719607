--------------------------- MODULE BulkBatchProofs ---------------------------
(***************************************************************************)
(* Proofs about BulkBatch, for any sets of children, pollers and any group *)
(* sizes: types, the order of the phases, what a cancelled and a complete  *)
(* batch are shown as.                                                     *)
(***************************************************************************)
EXTENDS BulkBatch, FiniteSetTheorems, TLAPS

\* A worker that is about to touch, check or back up still has a device left:
\* what makes the type of its device counter inductive.
DevicesLeft ==
    \A c \in Child : wpc[c] \in {"touch", "touching", "check", "exec"} => wloc[c].left >= 1

TypeInv == TypeOK /\ DevicesLeft

\* The number of children in a set of children is a natural number.
LEMMA CountIsNat ==
    ASSUME NEW S, S \subseteq Child
    PROVE  Cardinality(S) \in Nat
  BY ChildrenAssumption, FS_Subset, FS_CardinalityType

LEMMA RegisteredType == Registered \in Meta
  BY DEF Registered, Meta, Status

\* _refresh_bulk_task_meta returns a well-formed document.
LEMMA RefreshType ==
    ASSUME NEW m \in Meta
    PROVE  Refresh(m) \in Meta
<1> DEFINE success == {c \in m.child_task_ids : cel[c] = "OK"}
           failed  == ForcedDone(m) \cup
                      {c \in m.child_task_ids : cel[c] \in {"BAD", "REVOKED", "FAILURE"}}
<1>1. /\ success \subseteq Child /\ failed \subseteq Child
      /\ m.child_task_ids \subseteq Child /\ success \cup failed \subseteq Child
  BY DEF Meta, ForcedDone
<1>2. /\ Cardinality(success) \in Nat /\ Cardinality(failed) \in Nat
      /\ Cardinality(m.child_task_ids) \in Nat
      /\ Cardinality(success \cup failed) \in Nat
  BY <1>1, CountIsNat
<1> DEFINE total == IF m.total_tasks = 0 THEN Cardinality(m.child_task_ids)
                                          ELSE m.total_tasks
           okN   == Monotone(Cardinality(success), m.success_tasks)
           badN  == Monotone(Cardinality(failed), m.failed_tasks)
           doneN == MaxOf(Monotone(Cardinality(success \cup failed), m.done_tasks),
                          okN + badN)
           over  == total = 0 \/ m.completed \/ doneN >= total
           st    == IF over THEN ClosedStatus(m.cancel_requested, badN)
                    ELSE IF m.cancel_requested THEN "stopping" ELSE "running"
<1>3. \A a, b \in Nat : MaxOf(a, b) \in Nat /\ Monotone(a, b) \in Nat
  BY DEF MaxOf, Monotone
<1>4. /\ m.total_tasks \in Nat /\ m.done_tasks \in Nat
      /\ m.success_tasks \in Nat /\ m.failed_tasks \in Nat
  BY DEF Meta
<1>5. total \in Nat /\ okN \in Nat /\ badN \in Nat
  BY <1>2, <1>3, <1>4
<1>6. doneN \in Nat
  <2>1. okN + badN \in Nat
    BY <1>5
  <2> QED
    BY <2>1, <1>2, <1>3, <1>4
<1>7. over \in BOOLEAN
  OBVIOUS
<1>8. st \in Status
  BY DEF ClosedStatus, Status
<1>9. Refresh(m) = [m EXCEPT
          !.is_bulk = TRUE, !.total_tasks = total, !.done_tasks = doneN,
          !.success_tasks = okN, !.failed_tasks = badN, !.completed = over,
          !.status = st]
  BY DEF Refresh
<1> HIDE DEF success, failed, total, okN, badN, doneN, over, st
<1> QED
  BY <1>5, <1>6, <1>7, <1>8, <1>9 DEF Meta
\* What the handler, a callback and an operator write is well formed too.
LEMMA UpdateTypes ==
    ASSUME TypeOK
    PROVE  /\ \A ids \in SUBSET Child, n \in Nat :
                /\ [Registered EXCEPT !.is_bulk = TRUE, !.status = "running",
                      !.child_task_ids = ids, !.total_tasks = n] \in Meta
                /\ [Registered EXCEPT !.child_task_ids = ids, !.total_tasks = n] \in Meta
           /\ \A m \in Meta, ids \in SUBSET Child, n \in Nat :
                /\ [m EXCEPT !.force_cancelled = ids] \in Meta
                /\ [m EXCEPT !.status = "stopping"] \in Meta
                /\ [m EXCEPT !.child_task_ids = ids, !.total_tasks = n,
                      !.status = "running"] \in Meta
                /\ [m EXCEPT !.cancel_requested = TRUE, !.completed = FALSE,
                      !.status = "stopping", !.force_cancelled = ids] \in Meta
                /\ [m EXCEPT !.cancel_requested = TRUE, !.completed = TRUE,
                      !.status = "stopped"] \in Meta
           /\ \A m, n \in Meta : RefreshedInto(m, n) \in Meta
<1>1. \A ids \in SUBSET Child, n \in Nat :
        /\ [Registered EXCEPT !.is_bulk = TRUE, !.status = "running",
              !.child_task_ids = ids, !.total_tasks = n] \in Meta
        /\ [Registered EXCEPT !.child_task_ids = ids, !.total_tasks = n] \in Meta
  BY RegisteredType DEF Meta, Status
<1>2. \A m \in Meta, ids \in SUBSET Child, n \in Nat :
        /\ [m EXCEPT !.force_cancelled = ids] \in Meta
        /\ [m EXCEPT !.status = "stopping"] \in Meta
        /\ [m EXCEPT !.child_task_ids = ids, !.total_tasks = n,
              !.status = "running"] \in Meta
        /\ [m EXCEPT !.cancel_requested = TRUE, !.completed = FALSE,
              !.status = "stopping", !.force_cancelled = ids] \in Meta
        /\ [m EXCEPT !.cancel_requested = TRUE, !.completed = TRUE,
              !.status = "stopped"] \in Meta
  BY DEF Meta, Status
<1>3. \A m, n \in Meta : RefreshedInto(m, n) \in Meta
  BY DEF Meta, RefreshedInto
<1> QED
  BY <1>1, <1>2, <1>3

\* Each kind of step keeps the types.
LEMMA HandlerType ==
    ASSUME TypeInv, Handler
    PROVE  TypeInv'
<1> USE DEF TypeInv, TypeOK, DevicesLeft, wvars, cvars, pvars, ovars
<1>1. CASE HClear
  BY <1>1 DEF HClear
<1>2. CASE HRegister
  BY <1>2, RegisteredType DEF HRegister
<1>3. CASE HEnqueue
  BY <1>3 DEF HEnqueue, CelState, FirstCallback, Callbacks
<1>4. CASE HMerge
  <2>1. PICK ids \in SUBSET Child, n \in Nat :
          hloc' = [Registered EXCEPT !.is_bulk = TRUE, !.status = "running",
                     !.child_task_ids = ids, !.total_tasks = n]
    <3> DEFINE ids == Direct \cup meta.child_task_ids
               n   == MaxOf(PlannedTasks, MaxOf(meta.total_tasks, Cardinality(ids)))
    <3>1. ids \in SUBSET Child
      BY DEF Child, Meta
    <3>2. /\ Cardinality(ids) \in Nat /\ Cardinality(Direct) \in Nat
          /\ Cardinality(Jump) \in Nat /\ Cardinality(Vpn) \in Nat
      BY <3>1, CountIsNat DEF Child
    <3>3. meta.total_tasks \in Nat
      BY DEF Meta
    <3>4. PlannedTasks \in Nat
      BY <3>2 DEF PlannedTasks
    <3>5. n \in Nat
      BY <3>2, <3>3, <3>4 DEF MaxOf
    <3>6. hloc' = [Registered EXCEPT !.is_bulk = TRUE, !.status = "running",
                     !.child_task_ids = ids, !.total_tasks = n]
      BY <1>4 DEF HMerge
    <3> QED
      BY <3>1, <3>5, <3>6
  <2>2. hloc' \in Meta
    BY <2>1, UpdateTypes
  <2> QED
    BY <1>4, <2>2 DEF HMerge
<1>5. CASE HRead
  <2>1. meta.force_cancelled \in SUBSET Child
    BY DEF Meta
  <2>2. hloc' \in Meta
    BY <1>5, <2>1, UpdateTypes DEF HRead
  <2> QED
    BY <1>5, <2>2 DEF HRead
<1>6. CASE HWrite
  BY <1>6 DEF HWrite, WriteMeta
<1> QED
  BY <1>1, <1>2, <1>3, <1>4, <1>5, <1>6 DEF Handler

LEMMA WorkerType ==
    ASSUME TypeInv, NEW c \in Child,
           Worker(c) \/ WKill(c) \/ WRevoked(c) \/ ExpireResult(c)
    PROVE  TypeInv'
<1> USE DEF TypeInv, TypeOK, DevicesLeft, hvars, wvars, cvars, pvars, ovars
<1> DEFINE L == [snap: Meta, out: Returned, left: Nat]
<1>0. wloc[c] \in L
  OBVIOUS
<1>1. CASE WStart(c)
  <2> DEFINE r == [snap |-> Registered, out |-> "OK", left |-> Size[c]]
  <2>1. Size[c] \in Nat /\ Size[c] >= 1
    BY BoundsAssumption
  <2>2. r \in L /\ r.left >= 1
    BY <2>1, RegisteredType DEF Returned
  <2>3. wloc' = [wloc EXCEPT ![c] = r]
    BY <1>1 DEF WStart
  <2> HIDE DEF r
  <2> QED
    BY <1>1, <2>2, <2>3 DEF WStart, CelState
<1>2. CASE WRead(c)
  <2>1. wloc' = [wloc EXCEPT ![c] = [wloc[c] EXCEPT !.snap = meta]]
    BY <1>2 DEF WRead
  <2>2. [wloc[c] EXCEPT !.snap = meta] \in L /\ [wloc[c] EXCEPT !.snap = meta].left = wloc[c].left
    BY <1>0
  <2> QED
    BY <1>2, <2>1, <2>2 DEF WRead
<1>3. CASE WWrite(c)
  <2>1. wloc' = [wloc EXCEPT ![c] = [wloc[c] EXCEPT !.snap = Registered]]
    BY <1>3 DEF WWrite
  <2>2. /\ [wloc[c] EXCEPT !.snap = Registered] \in L
        /\ [wloc[c] EXCEPT !.snap = Registered].left = wloc[c].left
    BY <1>0, RegisteredType
  <2>3. meta' \in Meta /\ collided' \in BOOLEAN
    BY <1>0, <1>3 DEF WWrite, WriteMeta
  <2> QED
    BY <1>3, <2>1, <2>2, <2>3 DEF WWrite
<1>4. CASE WCheck(c)
  <2>1. CASE ShouldStopNow
    <3>1. wloc' = [wloc EXCEPT ![c] = [wloc[c] EXCEPT !.out = "BAD", !.left = 0]]
      BY <1>4, <2>1 DEF WCheck
    <3>2. [wloc[c] EXCEPT !.out = "BAD", !.left = 0] \in L
      BY <1>0 DEF Returned
    <3> QED
      BY <1>4, <2>1, <3>1, <3>2 DEF WCheck
  <2>2. CASE ~ShouldStopNow
    BY <1>4, <2>2 DEF WCheck
  <2> QED
    BY <2>1, <2>2
<1>5. CASE WExec(c)
  <2>1. wloc[c].left >= 1 /\ wloc[c].left \in Nat /\ wloc[c].out \in Returned
    BY <1>0, <1>5 DEF WExec
  <2>2. PICK o \in Returned, n \in Nat :
          /\ n = wloc[c].left - 1
          /\ wloc' = [wloc EXCEPT ![c] = [wloc[c] EXCEPT !.left = n, !.out = o]]
    <3>1. PICK ok \in BOOLEAN :
            wloc' = [wloc EXCEPT ![c] = [wloc[c] EXCEPT
                       !.left = wloc[c].left - 1, !.out = IF ok THEN wloc[c].out ELSE "BAD"]]
      BY <1>5 DEF WExec
    <3>2. (IF ok THEN wloc[c].out ELSE "BAD") \in Returned
      BY <2>1 DEF Returned
    <3>3. wloc[c].left - 1 \in Nat
      BY <2>1
    <3> QED
      BY <3>1, <3>2, <3>3
  <2> DEFINE r == [wloc[c] EXCEPT !.left = n, !.out = o]
  <2>3. r \in L /\ r.left = n
    BY <1>0
  <2>4. /\ wloc' = [wloc EXCEPT ![c] = r]
        /\ wpc' = [wpc EXCEPT ![c] = IF wloc[c].left > 1 THEN "touch" ELSE "last"]
    BY <1>5, <2>2 DEF WExec
  <2> HIDE DEF r
  <2>5. wloc' \in [Child -> L] /\ wloc'[c].left = n
    BY <2>3, <2>4
  <2>6. DevicesLeft'
    <3>1. CASE wloc[c].left > 1
      BY <2>1, <2>2, <2>4, <2>5, <3>1
    <3>2. CASE ~(wloc[c].left > 1)
      BY <2>1, <2>4, <2>5, <3>2
    <3> QED
      BY <3>1, <3>2
  <2> QED
    BY <1>5, <2>4, <2>5, <2>6 DEF WExec
<1>6. CASE WReturn(c)
  BY <1>6 DEF WReturn, CelState, Returned
<1>7. CASE WKill(c)
  BY <1>7 DEF WKill, CelState
<1>8. CASE WRevoked(c)
  BY <1>8 DEF WRevoked, CelState
<1>9. CASE ExpireResult(c)
  BY <1>9 DEF ExpireResult, CelState
<1> QED
  BY <1>1, <1>2, <1>3, <1>4, <1>5, <1>6, <1>7, <1>8, <1>9 DEF Worker

\* The locals of a callback and of a poll are two documents.
LEMMA PairType ==
    ASSUME NEW x \in [snap: Meta, new: Meta], NEW m \in Meta
    PROVE  /\ [x EXCEPT !.snap = m] \in [snap: Meta, new: Meta]
           /\ [x EXCEPT !.new = m] \in [snap: Meta, new: Meta]
  OBVIOUS

LEMMA CallbackType ==
    ASSUME TypeInv, NEW k \in Callbacks, CallbackStep(k)
    PROVE  TypeInv'
<1> USE DEF TypeInv, TypeOK, DevicesLeft, hvars, wvars, pvars, ovars
<1>0. cloc[k] \in [snap: Meta, new: Meta]
  OBVIOUS
<1>1. CASE ChordReturn(k)
  BY <1>1 DEF ChordReturn
<1>2. CASE CCheck(k)
  BY <1>2 DEF CCheck
<1>3. CASE CStopRead(k)
  <2>1. cloc' = [cloc EXCEPT ![k] = [cloc[k] EXCEPT !.snap = meta]]
    BY <1>3 DEF CStopRead
  <2> QED
    BY <1>0, <1>3, <2>1, PairType DEF CStopRead
<1>4. CASE CStopWrite(k)
  <2>1. cloc' = [cloc EXCEPT ![k] = [cloc[k] EXCEPT !.snap = Registered]]
    BY <1>4 DEF CStopWrite
  <2>2. cloc' \in [Callbacks -> [snap: Meta, new: Meta]]
    BY <1>0, <2>1, PairType, RegisteredType
  <2>3. meta' \in Meta /\ collided' \in BOOLEAN
    BY <1>0, <1>4, UpdateTypes, ChildrenAssumption DEF CStopWrite, WriteMeta
  <2> QED
    BY <1>4, <2>2, <2>3 DEF CStopWrite
<1>5. CASE CMerge(k)
  <2> DEFINE added   == IF k = "jumpcb" THEN Jump ELSE Vpn
             pending == IF k = "jumpcb" THEN Cardinality(Vpn) ELSE 0
             ids     == meta.child_task_ids \cup added
             n       == MaxOf(meta.total_tasks, Cardinality(ids) + pending)
             doc     == [Registered EXCEPT !.child_task_ids = ids, !.total_tasks = n]
  <2>1. ids \in SUBSET Child /\ meta.total_tasks \in Nat
    BY DEF Child, Meta
  <2>2. Cardinality(ids) \in Nat /\ pending \in Nat
    BY <2>1, CountIsNat DEF Child
  <2>3. n \in Nat
    BY <2>1, <2>2 DEF MaxOf
  <2>4. doc \in Meta
    BY <2>1, <2>3, UpdateTypes
  <2>5. cloc' = [cloc EXCEPT ![k] = [cloc[k] EXCEPT !.new = doc]]
    BY <1>5 DEF CMerge
  <2> HIDE DEF doc
  <2>6. cloc' \in [Callbacks -> [snap: Meta, new: Meta]]
    BY <1>0, <2>4, <2>5, PairType
  <2> QED
    BY <1>5, <2>6 DEF CMerge
<1>6. CASE CRead(k)
  <2>1. cloc' = [cloc EXCEPT ![k] = [cloc[k] EXCEPT !.snap = meta]]
    BY <1>6 DEF CRead
  <2>2. cloc' \in [Callbacks -> [snap: Meta, new: Meta]]
    BY <1>0, <2>1, PairType
  <2> QED
    BY <1>6, <2>2 DEF CRead
<1>7. CASE CWrite(k)
  <2>1. cloc' \in [Callbacks -> [snap: Meta, new: Meta]]
    BY <1>7, RegisteredType DEF CWrite
  <2>2. /\ cloc[k].snap \in Meta /\ cloc[k].new.child_task_ids \in SUBSET Child
        /\ cloc[k].new.total_tasks \in Nat
    BY <1>0 DEF Meta
  <2>3. meta' \in Meta /\ collided' \in BOOLEAN
    BY <1>7, <2>2, UpdateTypes DEF CWrite, WriteMeta
  <2> QED
    BY <1>7, <2>1, <2>3 DEF CWrite
<1> QED
  BY <1>1, <1>2, <1>3, <1>4, <1>5, <1>6, <1>7 DEF CallbackStep

LEMMA EnqueueType ==
    ASSUME TypeInv, CEnqueueJump \/ CEnqueueVpn
    PROVE  TypeInv'
  BY DEF TypeInv, TypeOK, DevicesLeft, hvars, wvars, pvars, ovars,
         CEnqueueJump, CEnqueueVpn, CelState, Callbacks

LEMMA PollType ==
    ASSUME TypeInv, NEW p \in Pollers, Poll(p)
    PROVE  TypeInv'
<1> USE DEF TypeInv, TypeOK, DevicesLeft, hvars, wvars, cvars, ovars
<1>0. ploc[p] \in [snap: Meta, new: Meta]
  OBVIOUS
<1>1. CASE PRead(p)
  <2>1. ploc' = [ploc EXCEPT ![p] = [ploc[p] EXCEPT !.new = meta]]
    BY <1>1 DEF PRead
  <2> QED
    BY <1>0, <1>1, <2>1, PairType DEF PRead
<1>2. CASE PRefresh(p)
  <2>1. ploc' = [ploc EXCEPT ![p] = [ploc[p] EXCEPT !.new = Refresh(ploc[p].new)]]
    BY <1>2 DEF PRefresh
  <2>2. Refresh(ploc[p].new) \in Meta
    BY <1>0, RefreshType
  <2> QED
    BY <1>0, <1>2, <2>1, <2>2, PairType DEF PRefresh
<1>3. CASE PUpdateRead(p)
  <2>1. ploc' = [ploc EXCEPT ![p] = [ploc[p] EXCEPT !.snap = meta]]
    BY <1>3 DEF PUpdateRead
  <2> QED
    BY <1>0, <1>3, <2>1, PairType DEF PUpdateRead
<1>4. CASE PUpdateWrite(p)
  <2>1. meta' \in Meta /\ collided' \in BOOLEAN
    BY <1>0, <1>4, UpdateTypes DEF PUpdateWrite, WriteMeta
  <2> QED
    BY <1>4, <2>1, RegisteredType DEF PUpdateWrite
<1> QED
  BY <1>1, <1>2, <1>3, <1>4 DEF Poll

LEMMA OperatorType ==
    ASSUME TypeInv, NEW o \in Operators, Operator(o)
    PROVE  TypeInv'
<1> USE DEF TypeInv, TypeOK, DevicesLeft, hvars, wvars, cvars, pvars
<1> DEFINE L == [snap: Meta, forced: SUBSET Child]
<1>0. oloc[o] \in L
  OBVIOUS
<1>1. CASE ORevoke(o)
  <2>1. PICK held \in SUBSET {c \in Child : cel[c] = "PENDING"} :
          LET open == IF o = "cancel"
                        THEN {c \in meta.child_task_ids : cel[c] \notin Ended \ {"LOST"}}
                        ELSE held \cup {c \in Direct : Size[c] = 1 /\ cel[c] = "STARTED"}
          IN /\ revoking' = revoking \cup open
             /\ oloc' = [oloc EXCEPT ![o].forced = open]
    BY <1>1 DEF ORevoke
  <2>2. PICK open \in SUBSET Child :
          /\ revoking' = revoking \cup open
          /\ oloc' = [oloc EXCEPT ![o] = [oloc[o] EXCEPT !.forced = open]]
    BY <2>1 DEF Meta, Child
  <2>3. [oloc[o] EXCEPT !.forced = open] \in L
    BY <1>0
  <2> QED
    BY <1>1, <2>2, <2>3 DEF ORevoke
<1>2. CASE OFlag(o)
  BY <1>2 DEF OFlag, CelState, cvars
<1>3. CASE ORead(o)
  <2>1. oloc' = [oloc EXCEPT ![o] = [oloc[o] EXCEPT !.snap = meta]]
    BY <1>3 DEF ORead
  <2>2. [oloc[o] EXCEPT !.snap = meta] \in L
    BY <1>0
  <2>3. oloc' \in [Operators -> L]
    BY <2>1, <2>2
  <2>4. opc' \in [Operators -> {"idle", "flag", "read", "write", "done"}]
    BY <1>3 DEF ORead
  <2> QED
    BY <1>3, <2>3, <2>4 DEF ORead
<1>4. CASE OWrite(o)
  <2>1. meta' \in Meta /\ collided' \in BOOLEAN
    BY <1>0, <1>4, UpdateTypes DEF OWrite, WriteMeta
  <2> QED
    BY <1>4, <2>1, RegisteredType DEF OWrite
<1> QED
  BY <1>1, <1>2, <1>3, <1>4 DEF Operator

LEMMA FlagType ==
    ASSUME TypeInv, OtherStop \/ FlagGone \/ UNCHANGED vars
    PROVE  TypeInv'
  BY DEF TypeInv, TypeOK, DevicesLeft, vars, hvars, wvars, cvars, pvars, ovars,
         OtherStop, FlagGone

LEMMA InitTypes == Init => TypeInv
<1> SUFFICES ASSUME Init PROVE TypeInv
  OBVIOUS
<1>1. wloc \in [Child -> [snap: Meta, out: Returned, left: Nat]]
  BY RegisteredType DEF Init, Returned
<1>2. /\ cloc \in [Callbacks -> [snap: Meta, new: Meta]]
      /\ ploc \in [Pollers -> [snap: Meta, new: Meta]]
      /\ oloc \in [Operators -> [snap: Meta, forced: SUBSET Child]]
  BY RegisteredType DEF Init
<1>3. DevicesLeft
  BY DEF Init, DevicesLeft
<1> QED
  BY <1>1, <1>2, <1>3, RegisteredType DEF Init, TypeInv, TypeOK, CelState

\* Every variable keeps the shape the code gives it, for any number of
\* children, pollers and devices per group.
THEOREM TypeCorrect == Spec => []TypeOK
<1>1. TypeInv /\ [Next]_vars => TypeInv'
  BY HandlerType, WorkerType, CallbackType, EnqueueType, PollType, OperatorType, FlagType
     DEF Next
<1>2. TypeInv => TypeOK
  BY DEF TypeInv
<1> QED
  BY InitTypes, <1>1, <1>2, PTL DEF Spec

-----------------------------------------------------------------------------
(* The order of the phases.  PhaseOrder alone is not inductive: whether the *)
(* next phase may be enqueued is remembered in the callbacks' positions, so *)
(* the invariant ties each position to the children it has waited for.      *)

\* Before the handler enqueues phase 1 nothing of the batch is in Celery.
NothingEnqueued ==
    hpc \in {"clear", "register", "enqueue"} =>
        /\ \A c \in Child : cel[c] = "none"
        /\ \A k \in Callbacks : cpc[k] = "none"

\* A worker runs a child only while Celery says STARTED.
RunningIsStarted == \A c \in Child : wpc[c] # "off" => cel[c] = "STARTED"

\* A callback that was delivered waited for its whole chord header.
WaitedFor(k) == cpc[k] \notin {"none", "armed", "dead"} =>
                    \A c \in Header(k) : cel[c] \in Returned

\* Jump groups are in Celery only after the jump callback has ended, and with
\* jump groups the VPN callback exists only after that, too.
JumpAfterCallback ==
    /\ (\E j \in Jump : cel[j] # "none") => cpc["jumpcb"] = "done"
    /\ Jump # {} /\ cpc["vpncb"] # "none" => cpc["jumpcb"] = "done"
    /\ Jump = {} => cpc["jumpcb"] = "none"

\* VPN groups are in Celery only after the VPN callback enqueued them.
VpnAfterCallback ==
    (\E v \in Vpn : cel[v] # "none") => cpc["vpncb"] \in {"merge", "read", "write", "done"}

PhaseInv ==
    /\ NothingEnqueued /\ RunningIsStarted
    /\ \A k \in Callbacks : WaitedFor(k)
    /\ JumpAfterCallback /\ VpnAfterCallback

\* A step keeps the invariant if it enqueues nothing, takes back no returned
\* child, and moves no handler and no callback.
LEMMA QuietStep ==
    ASSUME PhaseInv, hpc' = hpc, cpc' = cpc, RunningIsStarted',
           \A c \in Child : /\ (cel'[c] = "none") = (cel[c] = "none")
                            /\ cel[c] \in Returned => cel'[c] \in Returned
    PROVE  PhaseInv'
<1>1. NothingEnqueued'
  BY DEF PhaseInv, NothingEnqueued
<1>2. \A k \in Callbacks : WaitedFor(k)'
  BY DEF PhaseInv, WaitedFor, Header, Child
<1>3. JumpAfterCallback' /\ VpnAfterCallback'
  BY DEF PhaseInv, JumpAfterCallback, VpnAfterCallback, Child
<1> QED
  BY <1>1, <1>2, <1>3 DEF PhaseInv

LEMMA WorkerPhases ==
    ASSUME TypeOK, PhaseInv, NEW c \in Child,
           Worker(c) \/ WKill(c) \/ WRevoked(c) \/ ExpireResult(c)
    PROVE  PhaseInv'
<1>1. hpc' = hpc /\ cpc' = cpc
  BY DEF Worker, WStart, WRead, WWrite, WCheck, WExec, WReturn, WKill, WRevoked,
         ExpireResult, hvars, cvars
<1>2. wloc[c].out \in Returned
  BY DEF TypeOK
<1>3. \A x \in Child : /\ (cel'[x] = "none") = (cel[x] = "none")
                       /\ cel[x] \in Returned => cel'[x] \in Returned
  BY <1>2 DEF TypeOK, PhaseInv, RunningIsStarted, Returned, wvars,
         Worker, WStart, WRead, WWrite, WCheck, WExec, WReturn, WKill, WRevoked, ExpireResult
<1>4. RunningIsStarted'
  BY DEF TypeOK, PhaseInv, RunningIsStarted, wvars,
         Worker, WStart, WRead, WWrite, WCheck, WExec, WReturn, WKill, WRevoked, ExpireResult
<1> QED
  BY <1>1, <1>3, <1>4, QuietStep

LEMMA HandlerPhases ==
    ASSUME TypeOK, PhaseInv, Handler
    PROVE  PhaseInv'
<1>1. CASE HEnqueue
  <2>1. /\ \A c \in Child : cel[c] = "none"
        /\ \A k \in Callbacks : cpc[k] = "none"
        /\ \A c \in Child : cel'[c] = IF c \in Direct THEN "PENDING" ELSE "none"
        /\ hpc' = "merge" /\ wpc' = wpc
    BY <1>1 DEF HEnqueue, PhaseInv, NothingEnqueued, wvars
  <2>2. \A k \in Callbacks : cpc'[k] \in {"none", "armed", "queued"}
    BY <1>1, <2>1 DEF HEnqueue, TypeOK
  <2>3. \A k \in Callbacks : WaitedFor(k)'
    <3> SUFFICES ASSUME NEW k \in Callbacks, cpc'[k] = "queued"
                 PROVE  Header(k) = {}
      BY <2>2 DEF WaitedFor
    <3>1. k = FirstCallback /\ Direct = {}
      BY <1>1, <2>1 DEF HEnqueue, TypeOK
    <3> QED
      BY <3>1 DEF FirstCallback, Header
  <2>4. JumpAfterCallback' /\ VpnAfterCallback'
    <3>1. \A c \in Jump \cup Vpn : cel'[c] = "none"
      BY <2>1, ChildrenAssumption DEF Child
    <3>2. Jump # {} => cpc'["vpncb"] = "none"
      BY <1>1, <2>1 DEF HEnqueue, TypeOK, FirstCallback, Callbacks
    <3>3. Jump = {} => cpc'["jumpcb"] = "none"
      BY <1>1, <2>1 DEF HEnqueue, TypeOK, FirstCallback, Callbacks
    <3> QED
      BY <3>1, <3>2, <3>3 DEF JumpAfterCallback, VpnAfterCallback
  <2>5. RunningIsStarted'
    BY <2>1 DEF PhaseInv, RunningIsStarted
  <2> QED
    BY <2>1, <2>3, <2>4, <2>5 DEF PhaseInv, NothingEnqueued
<1>2. CASE HClear \/ HRegister \/ HMerge \/ HRead \/ HWrite
  <2>1. cel' = cel /\ cpc' = cpc /\ wpc' = wpc
    BY <1>2 DEF HClear, HRegister, HMerge, HRead, HWrite, wvars, cvars
  <2>2. hpc' \in {"clear", "register", "enqueue"} =>
          hpc \in {"clear", "register", "enqueue"}
    BY <1>2 DEF HClear, HRegister, HMerge, HRead, HWrite
  <2> QED
    BY <2>1, <2>2 DEF PhaseInv, NothingEnqueued, RunningIsStarted, WaitedFor,
                      JumpAfterCallback, VpnAfterCallback
<1> QED
  BY <1>1, <1>2 DEF Handler

LEMMA CallbackPhases ==
    ASSUME TypeOK, PhaseInv, NEW k \in Callbacks, CallbackStep(k)
    PROVE  PhaseInv'
<1>1. /\ cel' = cel /\ hpc' = hpc /\ wpc' = wpc
      /\ \A x \in Callbacks \ {k} : cpc'[x] = cpc[x]
      /\ cpc[k] # "none" /\ cpc'[k] # "none"
  BY DEF CallbackStep, ChordReturn, CCheck, CStopRead, CStopWrite, CMerge, CRead, CWrite,
         hvars, wvars, TypeOK
<1>2. /\ cpc[k] # "done"
      /\ k = "vpncb" /\ cpc[k] \in {"merge", "read", "write"}
           => cpc'[k] \in {"merge", "read", "write", "done"}
  BY DEF CallbackStep, ChordReturn, CCheck, CStopRead, CStopWrite, CMerge, CRead, CWrite,
         TypeOK
<1>3. NothingEnqueued' /\ RunningIsStarted'
  BY <1>1 DEF PhaseInv, NothingEnqueued, RunningIsStarted
<1>4. \A x \in Callbacks : WaitedFor(x)'
  <2>1. WaitedFor(k)'
    <3>1. CASE ChordReturn(k)
      BY <1>1, <3>1 DEF ChordReturn, WaitedFor, Header, TypeOK
    <3>2. CASE ~ChordReturn(k)
      <4>1. cpc[k] \notin {"none", "armed", "dead"}
        BY <3>2 DEF CallbackStep, CCheck, CStopRead, CStopWrite, CMerge, CRead, CWrite
      <4> QED
        BY <1>1, <4>1 DEF PhaseInv, WaitedFor
    <3> QED
      BY <3>1, <3>2
  <2> QED
    BY <1>1, <2>1 DEF PhaseInv, WaitedFor
<1>5. JumpAfterCallback'
  BY <1>1, <1>2 DEF PhaseInv, JumpAfterCallback, Callbacks
<1>6. VpnAfterCallback'
  BY <1>1, <1>2 DEF PhaseInv, VpnAfterCallback, Callbacks
<1> QED
  BY <1>3, <1>4, <1>5, <1>6 DEF PhaseInv

LEMMA EnqueuePhases ==
    ASSUME TypeOK, PhaseInv, CEnqueueJump \/ CEnqueueVpn
    PROVE  PhaseInv'
<1>1. CASE CEnqueueJump
  <2>1. /\ cpc["jumpcb"] = "enqueue" /\ cpc'["jumpcb"] = "done"
        /\ cpc'["vpncb"] \in {cpc["vpncb"], "armed"}
        /\ \A c \in Child : cel'[c] = IF c \in Jump THEN "PENDING" ELSE cel[c]
        /\ hpc' = hpc /\ wpc' = wpc
    BY <1>1 DEF CEnqueueJump, TypeOK, Callbacks, hvars, wvars
  <2>2. /\ Jump # {} /\ cpc["vpncb"] = "none"
        /\ \A c \in Jump \cup Vpn : cel[c] = "none"
    BY <2>1 DEF PhaseInv, JumpAfterCallback, VpnAfterCallback
  <2>3. \A c \in Direct : cel'[c] \in Returned
    BY <2>1, ChildrenAssumption DEF PhaseInv, WaitedFor, Header, Callbacks, Child
  <2>4. \A k \in Callbacks : WaitedFor(k)'
    BY <2>1, <2>2, <2>3 DEF WaitedFor, Header, Callbacks
  <2>5. NothingEnqueued' /\ RunningIsStarted'
    BY <2>1, <2>2 DEF PhaseInv, NothingEnqueued, RunningIsStarted, Callbacks
  <2>6. \A c \in Vpn : cel'[c] = "none"
    BY <2>1, <2>2, ChildrenAssumption DEF Child
  <2> QED
    BY <2>1, <2>2, <2>4, <2>5, <2>6 DEF PhaseInv, JumpAfterCallback, VpnAfterCallback
<1>2. CASE CEnqueueVpn
  <2>1. /\ cpc["vpncb"] = "enqueue" /\ cpc'["vpncb"] = "merge"
        /\ cpc'["jumpcb"] = cpc["jumpcb"]
        /\ \A c \in Child : cel'[c] = IF c \in Vpn THEN "PENDING" ELSE cel[c]
        /\ hpc' = hpc /\ wpc' = wpc
    BY <1>2 DEF CEnqueueVpn, TypeOK, Callbacks, hvars, wvars
  <2>2. \A c \in Vpn : cel[c] = "none"
    BY <2>1 DEF PhaseInv, VpnAfterCallback
  <2>3. \A c \in Direct \cup Jump : cel'[c] = cel[c]
    BY <2>1, ChildrenAssumption DEF Child
  <2>4. \A k \in Callbacks : WaitedFor(k)'
    BY <2>1, <2>3 DEF PhaseInv, WaitedFor, Header, Callbacks
  <2>5. NothingEnqueued' /\ RunningIsStarted'
    BY <2>1, <2>2 DEF PhaseInv, NothingEnqueued, RunningIsStarted, Callbacks
  <2> QED
    BY <2>1, <2>3, <2>4, <2>5 DEF PhaseInv, JumpAfterCallback, VpnAfterCallback
<1> QED
  BY <1>1, <1>2

LEMMA OperatorPhases ==
    ASSUME TypeOK, PhaseInv, NEW o \in Operators, Operator(o)
    PROVE  PhaseInv'
<1>1. CASE OFlag(o)
  <2>1. /\ hpc' = hpc /\ wpc' = wpc
        /\ \A c \in Child : cel'[c] = cel[c] \/ (cel[c] = "PENDING" /\ cel'[c] = "DROPPED")
        /\ \A k \in Callbacks : cpc'[k] = cpc[k] \/ (cpc[k] = "queued" /\ cpc'[k] = "dead")
    BY <1>1 DEF OFlag, hvars, wvars, TypeOK
  <2>2. \A c \in Child : /\ (cel'[c] = "none") = (cel[c] = "none")
                         /\ cel[c] \in Returned => cel'[c] = cel[c]
    BY <2>1 DEF Returned
  <2>3. NothingEnqueued' /\ RunningIsStarted'
    BY <2>1, <2>2 DEF PhaseInv, NothingEnqueued, RunningIsStarted
  <2>4. \A k \in Callbacks : WaitedFor(k)'
    BY <2>1, <2>2 DEF PhaseInv, WaitedFor, Header, Child
  <2>5. JumpAfterCallback' /\ VpnAfterCallback'
    BY <2>1, <2>2 DEF PhaseInv, JumpAfterCallback, VpnAfterCallback, Callbacks, Child
  <2> QED
    BY <2>3, <2>4, <2>5 DEF PhaseInv
<1>2. CASE ORevoke(o) \/ ORead(o) \/ OWrite(o)
  BY <1>2, QuietStep DEF ORevoke, ORead, OWrite, hvars, wvars, cvars, PhaseInv, RunningIsStarted
<1> QED
  BY <1>1, <1>2 DEF Operator

LEMMA PhasesHold == Spec => []PhaseInv
<1>1. Init => PhaseInv
  BY DEF Init, PhaseInv, NothingEnqueued, RunningIsStarted, WaitedFor,
         JumpAfterCallback, VpnAfterCallback, Callbacks, Child
<1>2. TypeOK /\ PhaseInv /\ [Next]_vars => PhaseInv'
  <2> SUFFICES ASSUME TypeOK, PhaseInv, [Next]_vars PROVE PhaseInv'
    OBVIOUS
  <2>1. ASSUME NEW p \in Pollers, Poll(p) PROVE PhaseInv'
    BY <2>1, QuietStep DEF Poll, PRead, PRefresh, PUpdateRead, PUpdateWrite,
         hvars, wvars, cvars, PhaseInv, RunningIsStarted
  <2>2. CASE OtherStop \/ FlagGone \/ UNCHANGED vars
    BY <2>2, QuietStep DEF OtherStop, FlagGone, vars, hvars, wvars, cvars,
         PhaseInv, RunningIsStarted
  <2> QED
    BY <2>1, <2>2, HandlerPhases, WorkerPhases, CallbackPhases, EnqueuePhases,
       OperatorPhases DEF Next
<1> QED
  BY <1>1, <1>2, TypeCorrect, PTL DEF Spec

\* For any sets of direct, jump and VPN children and any interleaving of
\* workers, callbacks, polls, cancels, kills and expiries, no group of a later
\* phase is handed to Celery before every child of the earlier phases returned.
THEOREM PhasesInOrder == Spec => []PhaseOrder
<1>1. PhaseInv => PhaseOrder
  BY DEF PhaseInv, PhaseOrder, WaitedFor, JumpAfterCallback, VpnAfterCallback, Header,
         Callbacks, Returned
<1> QED
  BY <1>1, PhasesHold, PTL

-----------------------------------------------------------------------------
(* The copies of the document: where each comes from, kind of step by kind  *)
(* of step.                                                                 *)

LEMMA WorkerDocs ==
    ASSUME TypeOK, NEW c \in Child, Worker(c) \/ WKill(c) \/ WRevoked(c) \/ ExpireResult(c)
    PROVE  /\ UNCHANGED <<hpc, hloc, cpc, cloc, ppc, ploc, opc, oloc, everStopped>>
           /\ \A x \in Child : wloc'[x].snap \in {wloc[x].snap, meta, Registered}
           /\ \/ meta' = meta /\ collided' = collided
              \/ WWrite(c) /\ meta' = wloc[c].snap
<1> USE DEF TypeOK
<1>1. wloc \in [Child -> [snap: Meta, out: Returned, left: Nat]]
  OBVIOUS
<1>2. UNCHANGED <<hpc, hloc, cpc, cloc, ppc, ploc, opc, oloc, everStopped>>
  BY DEF Worker, WStart, WRead, WWrite, WCheck, WExec, WReturn, WKill, WRevoked, ExpireResult, hvars, cvars, pvars, ovars
<1>3. (meta' = meta /\ collided' = collided) \/ (WWrite(c) /\ meta' = wloc[c].snap)
  BY DEF Worker, WStart, WRead, WWrite, WriteMeta, WCheck, WExec, WReturn, WKill, WRevoked, ExpireResult
<1>4. ASSUME NEW x \in Child PROVE wloc'[x].snap \in {wloc[x].snap, meta, Registered}
  <2>1. CASE WStart(c)
    BY <1>1, <2>1 DEF WStart
  <2>2. CASE WRead(c)
    <3>1. wloc' = [wloc EXCEPT ![c] = [wloc[c] EXCEPT !.snap = meta]]
      BY <2>2 DEF WRead
    <3>2. [wloc[c] EXCEPT !.snap = meta].snap = meta
      BY <1>1
    <3> QED
      BY <1>1, <3>1, <3>2
  <2>3. CASE WWrite(c)
    <3>1. wloc' = [wloc EXCEPT ![c] = [wloc[c] EXCEPT !.snap = Registered]]
      BY <2>3 DEF WWrite
    <3>2. [wloc[c] EXCEPT !.snap = Registered].snap = Registered
      BY <1>1
    <3> QED
      BY <1>1, <3>1, <3>2
  <2>4. CASE WCheck(c)
    <3>1. wloc' = wloc \/ wloc' = [wloc EXCEPT ![c] = [wloc[c] EXCEPT !.out = "BAD", !.left = 0]]
      BY <2>4 DEF WCheck
    <3>2. [wloc[c] EXCEPT !.out = "BAD", !.left = 0].snap = wloc[c].snap
      BY <1>1
    <3> QED
      BY <1>1, <3>1, <3>2
  <2>5. CASE WExec(c)
    <3>1. PICK ok \in BOOLEAN : wloc' = [wloc EXCEPT ![c] = [wloc[c] EXCEPT
                       !.left = wloc[c].left - 1, !.out = IF ok THEN wloc[c].out ELSE "BAD"]]
      BY <2>5 DEF WExec
    <3> DEFINE l == wloc[c].left - 1
               o == IF ok THEN wloc[c].out ELSE "BAD"
    <3>2. [wloc[c] EXCEPT !.left = l, !.out = o].snap = wloc[c].snap
      BY <1>1
    <3> HIDE DEF l, o
    <3>3. wloc' = [wloc EXCEPT ![c] = [wloc[c] EXCEPT !.left = l, !.out = o]]
      BY <3>1 DEF l, o
    <3> QED
      BY <1>1, <3>2, <3>3
  <2>6. CASE WReturn(c) \/ WKill(c) \/ WRevoked(c) \/ ExpireResult(c)
    BY <2>6 DEF WReturn, WKill, WRevoked, ExpireResult, wvars
  <2> QED
    BY <2>1, <2>2, <2>3, <2>4, <2>5, <2>6 DEF Worker
<1> QED
  BY <1>2, <1>3, <1>4

LEMMA HandlerDocs ==
    ASSUME TypeOK, Handler
    PROVE  /\ UNCHANGED <<wpc, wloc, cloc, ppc, ploc, opc, oloc, everStopped>>
           /\ \/ hloc' = hloc
              \/ /\ HMerge
                 /\ ~hloc'.cancel_requested /\ ~hloc'.completed
                 /\ hloc'.success_tasks = 0 /\ hloc'.failed_tasks = 0 /\ hloc'.done_tasks = 0
                 /\ hloc'.total_tasks = MaxOf(PlannedTasks, MaxOf(meta.total_tasks, Cardinality(Direct \cup meta.child_task_ids)))
              \/ hloc' = [hloc EXCEPT !.force_cancelled = meta.force_cancelled]
           /\ \/ meta' = meta /\ collided' = collided
              \/ HRegister /\ meta' = Registered /\ collided' = collided
              \/ HWrite /\ meta' = hloc
<1>1. UNCHANGED <<wpc, wloc, cloc, ppc, ploc, opc, oloc, everStopped>>
  BY DEF Handler, HClear, HRegister, HEnqueue, HMerge, HRead, HWrite, wvars, cvars, pvars, ovars
<1>2. CASE HMerge
  <2> DEFINE ids == Direct \cup meta.child_task_ids
             n == MaxOf(PlannedTasks, MaxOf(meta.total_tasks, Cardinality(ids)))
  <2>1. hloc' = [Registered EXCEPT !.is_bulk = TRUE, !.status = "running", !.child_task_ids = ids, !.total_tasks = n]
    BY <1>2 DEF HMerge
  <2>2. n = MaxOf(PlannedTasks, MaxOf(meta.total_tasks, Cardinality(Direct \cup meta.child_task_ids)))
    OBVIOUS
  <2> HIDE DEF ids, n
  <2>3. /\ ~hloc'.cancel_requested /\ ~hloc'.completed /\ hloc'.total_tasks = n
        /\ hloc'.success_tasks = 0 /\ hloc'.failed_tasks = 0 /\ hloc'.done_tasks = 0
    BY <2>1 DEF Registered
  <2> QED
    BY <1>1, <1>2, <2>2, <2>3 DEF HMerge
<1>3. CASE HClear \/ HRegister \/ HEnqueue \/ HRead \/ HWrite
  BY <1>1, <1>3 DEF HClear, HRegister, HEnqueue, HRead, HWrite, WriteMeta
<1> QED
  BY <1>2, <1>3 DEF Handler

LEMMA CallbackDocs ==
    ASSUME TypeOK, NEW k \in Callbacks, CallbackStep(k)
    PROVE  /\ UNCHANGED <<hpc, hloc, wpc, wloc, ppc, ploc, opc, oloc, everStopped>>
           /\ \A x \in Callbacks : cloc'[x].snap \in {cloc[x].snap, meta, Registered}
           /\ \A x \in Callbacks \ {k} : cloc'[x] = cloc[x] /\ cpc'[x] = cpc[x]
           /\ \/ meta' = meta /\ collided' = collided
              \/ CStopWrite(k) /\ meta' = [cloc[k].snap EXCEPT !.status = "stopping"]
              \/ /\ CWrite(k)
                 /\ meta' = [cloc[k].snap EXCEPT !.child_task_ids = cloc[k].new.child_task_ids,
                                                 !.total_tasks = cloc[k].new.total_tasks,
                                                 !.status = "running"]
<1> DEFINE R == [snap |-> Registered, new |-> Registered]
<1>1. cloc \in [Callbacks -> [snap: Meta, new: Meta]] /\ R.snap = Registered
  BY DEF TypeOK
<1> HIDE DEF R
<1>2. UNCHANGED <<hpc, hloc, wpc, wloc, ppc, ploc, opc, oloc, everStopped>>
  BY DEF CallbackStep, ChordReturn, CCheck, CStopRead, CStopWrite, CMerge, CRead, CWrite, hvars, wvars, pvars, ovars
<1>3. \A x \in Callbacks \ {k} : cloc'[x] = cloc[x] /\ cpc'[x] = cpc[x]
  BY DEF TypeOK, CallbackStep, ChordReturn, CCheck, CStopRead, CStopWrite, CMerge, CRead, CWrite
<1>4. cloc'[k].snap \in {cloc[k].snap, meta, Registered}
  <2>1. CASE ChordReturn(k) \/ CCheck(k)
    BY <2>1 DEF ChordReturn, CCheck
  <2>2. CASE CStopRead(k) \/ CRead(k)
    <3>1. cloc' = [cloc EXCEPT ![k] = [cloc[k] EXCEPT !.snap = meta]]
      BY <2>2 DEF CStopRead, CRead
    <3> QED
      BY <1>1, <3>1
  <2>3. CASE CStopWrite(k)
    <3>1. cloc' = [cloc EXCEPT ![k] = [cloc[k] EXCEPT !.snap = Registered]]
      BY <2>3 DEF CStopWrite
    <3> QED
      BY <1>1, <3>1
  <2>4. CASE CMerge(k)
    <3>1. PICK d : cloc' = [cloc EXCEPT ![k] = [cloc[k] EXCEPT !.new = d]]
      BY <2>4 DEF CMerge
    <3> QED
      BY <1>1, <3>1
  <2>5. CASE CWrite(k)
    <3>1. cloc' = [cloc EXCEPT ![k] = R]
      BY <2>5 DEF CWrite, R
    <3> QED
      BY <1>1, <3>1
  <2> QED
    BY <2>1, <2>2, <2>3, <2>4, <2>5 DEF CallbackStep
<1>5. \/ meta' = meta /\ collided' = collided
      \/ CStopWrite(k) /\ meta' = [cloc[k].snap EXCEPT !.status = "stopping"]
      \/ /\ CWrite(k)
         /\ meta' = [cloc[k].snap EXCEPT !.child_task_ids = cloc[k].new.child_task_ids,
                                         !.total_tasks = cloc[k].new.total_tasks,
                                         !.status = "running"]
  BY DEF CallbackStep, ChordReturn, CCheck, CStopRead, CStopWrite, CMerge, CRead, CWrite, WriteMeta
<1> QED
  BY <1>2, <1>3, <1>4, <1>5

LEMMA PollDocs ==
    ASSUME TypeOK, NEW p \in Pollers, Poll(p)
    PROVE  /\ UNCHANGED <<hpc, hloc, wpc, wloc, cpc, cloc, opc, oloc, everStopped>>
           /\ \A x \in Pollers \ {p} : ploc'[x] = ploc[x] /\ ppc'[x] = ppc[x]
           /\ \/ ploc'[p].new \in {ploc[p].new, Registered} /\ ppc'[p] # "refresh"
              \/ ploc'[p].new = meta /\ meta.is_bulk
              \/ ppc[p] = "refresh" /\ ploc'[p].new = Refresh(ploc[p].new) /\ ppc'[p] # "refresh"
           /\ \/ meta' = meta /\ collided' = collided
              \/ PUpdateWrite(p) /\ meta' = RefreshedInto(ploc[p].snap, ploc[p].new)
<1> DEFINE R == [snap |-> Registered, new |-> Registered]
<1>1. ploc \in [Pollers -> [snap: Meta, new: Meta]] /\ R.new = Registered /\ ppc \in [Pollers -> {"idle", "refresh", "read", "write"}]
  BY DEF TypeOK
<1> HIDE DEF R
<1>2. UNCHANGED <<hpc, hloc, wpc, wloc, cpc, cloc, opc, oloc, everStopped>>
  BY DEF Poll, PRead, PRefresh, PUpdateRead, PUpdateWrite, hvars, wvars, cvars, ovars
<1>3. \A x \in Pollers \ {p} : ploc'[x] = ploc[x] /\ ppc'[x] = ppc[x]
  BY DEF TypeOK, Poll, PRead, PRefresh, PUpdateRead, PUpdateWrite
<1>4. CASE PRead(p)
  <2>1. ploc' = [ploc EXCEPT ![p] = [ploc[p] EXCEPT !.new = meta]]
    BY <1>4 DEF PRead
  <2> QED
    BY <1>1, <1>2, <1>3, <1>4, <2>1 DEF PRead
<1>5. CASE PRefresh(p)
  <2>1. PICK d : d = Refresh(ploc[p].new) /\ ploc' = [ploc EXCEPT ![p] = [ploc[p] EXCEPT !.new = d]]
    BY <1>5 DEF PRefresh
  <2>2. ploc'[p].new = d /\ ppc[p] = "refresh" /\ ppc'[p] = "read" /\ UNCHANGED <<meta, collided>>
    BY <1>1, <1>5, <2>1 DEF PRefresh
  <2> QED
    BY <1>2, <1>3, <2>1, <2>2
<1>6. CASE PUpdateRead(p)
  <2>1. ploc' = [ploc EXCEPT ![p] = [ploc[p] EXCEPT !.snap = meta]]
    BY <1>6 DEF PUpdateRead
  <2>2. ploc'[p].new = ploc[p].new /\ ppc'[p] = "write" /\ UNCHANGED <<meta, collided>>
    BY <1>1, <1>6, <2>1 DEF PUpdateRead
  <2> QED
    BY <1>2, <1>3, <2>2
<1>7. CASE PUpdateWrite(p)
  <2>1. ploc' = [ploc EXCEPT ![p] = R] /\ ppc'[p] = "idle"
    BY <1>1, <1>7 DEF PUpdateWrite, R
  <2>2. ploc'[p].new = Registered
    BY <1>1, <2>1
  <2>3. meta' = RefreshedInto(ploc[p].snap, ploc[p].new)
    BY <1>7 DEF PUpdateWrite, WriteMeta
  <2> QED
    BY <1>2, <1>3, <1>7, <2>1, <2>2, <2>3
<1> QED
  BY <1>4, <1>5, <1>6, <1>7 DEF Poll

\* No step but an operator's own, and the flag, touches the operator's copies.
LEMMA OperatorDocs ==
    ASSUME TypeOK, NEW o \in Operators, Operator(o)
    PROVE  /\ UNCHANGED <<hloc, wloc, cloc, ppc, ploc>>
           /\ \/ meta' = meta /\ collided' = collided
              \/ /\ OWrite(o) /\ meta'.cancel_requested /\ meta'.status \in {"stopping", "stopped"}
<1>1. UNCHANGED <<hloc, wloc, cloc, ppc, ploc>>
  BY DEF Operator, ORevoke, OFlag, ORead, OWrite, hvars, wvars, cvars, pvars
<1>2. CASE OWrite(o)
  <2>1. oloc[o].snap \in Meta
    BY DEF TypeOK
  <2>2. /\ meta' = [oloc[o].snap EXCEPT !.cancel_requested = TRUE, !.completed = FALSE,
                                        !.status = "stopping", !.force_cancelled = oloc[o].forced]
        \/ meta' = [oloc[o].snap EXCEPT !.cancel_requested = TRUE, !.completed = TRUE, !.status = "stopped"]
    BY <1>2 DEF OWrite, WriteMeta
  <2>3. meta'.cancel_requested /\ meta'.status \in {"stopping", "stopped"}
    BY <2>1, <2>2 DEF Meta
  <2> QED
    BY <1>1, <1>2, <2>3
<1>3. CASE ORevoke(o) \/ OFlag(o) \/ ORead(o)
  BY <1>1, <1>3 DEF ORevoke, OFlag, ORead
<1> QED
  BY <1>2, <1>3 DEF Operator

LEMMA FlagDocs ==
    ASSUME OtherStop \/ FlagGone \/ UNCHANGED vars
    PROVE  UNCHANGED <<meta, collided, hpc, hloc, wpc, wloc, cpc, cloc, ppc, ploc, opc, oloc, cel>>
  BY DEF OtherStop, FlagGone, vars, hvars, wvars, cvars, pvars, ovars

LEMMA EnqueueDocs ==
    ASSUME CEnqueueJump \/ CEnqueueVpn
    PROVE  UNCHANGED <<meta, collided, hpc, hloc, wpc, wloc, cloc, ppc, ploc, opc, oloc, everStopped>>
  BY DEF CEnqueueJump, CEnqueueVpn, hvars, wvars, pvars, ovars

-----------------------------------------------------------------------------
(* The cancel mark.  It is written and taken back by stale copies, so the   *)
(* claim must hold of every copy, not only of the document.                 *)

Marked(m) == m.cancel_requested => m.status # "success"

EveryCopyMarked ==
    /\ Marked(meta) /\ Marked(hloc)
    /\ \A c \in Child : Marked(wloc[c].snap)
    /\ \A k \in Callbacks : Marked(cloc[k].snap)
    /\ \A p \in Pollers : Marked(ploc[p].new)

LEMMA RegisteredMarked == Marked(Registered)
  BY DEF Marked, Registered

LEMMA RefreshShape ==
    ASSUME NEW m \in Meta
    PROVE  /\ Refresh(m).cancel_requested = m.cancel_requested
           /\ m.cancel_requested => Refresh(m).status \in {"stopped", "stopping"}
<1> DEFINE success == {c \in m.child_task_ids : cel[c] = "OK"}
           failed  == ForcedDone(m) \cup {c \in m.child_task_ids : cel[c] \in {"BAD", "REVOKED", "FAILURE"}}
           total   == IF m.total_tasks = 0 THEN Cardinality(m.child_task_ids) ELSE m.total_tasks
           okN     == Monotone(Cardinality(success), m.success_tasks)
           badN    == Monotone(Cardinality(failed), m.failed_tasks)
           doneN   == MaxOf(Monotone(Cardinality(success \cup failed), m.done_tasks), okN + badN)
           over    == total = 0 \/ m.completed \/ doneN >= total
           st      == IF over THEN ClosedStatus(m.cancel_requested, badN)
                      ELSE IF m.cancel_requested THEN "stopping" ELSE "running"
<1>1. Refresh(m) = [m EXCEPT !.is_bulk = TRUE, !.total_tasks = total, !.done_tasks = doneN,
                            !.success_tasks = okN, !.failed_tasks = badN, !.completed = over, !.status = st]
  BY DEF Refresh
<1>2. m.cancel_requested => st \in {"stopped", "stopping"}
  BY DEF ClosedStatus
<1> HIDE DEF success, failed, total, okN, badN, doneN, over, st
<1>3. Refresh(m).cancel_requested = m.cancel_requested /\ Refresh(m).status = st
  BY <1>1 DEF Meta
<1> QED
  BY <1>2, <1>3

\* What a poll computes, and what it writes of it.
LEMMA RefreshMarked ==
    ASSUME NEW m \in Meta, NEW n \in Meta, Marked(n)
    PROVE  Marked(Refresh(m)) /\ Marked(RefreshedInto(m, n))
<1>1. Marked(Refresh(m))
  BY RefreshShape DEF Marked
<1>2. Marked(RefreshedInto(m, n))
  BY DEF Marked, RefreshedInto, Meta
<1> QED
  BY <1>1, <1>2

LEMMA MarksKept == TypeOK /\ EveryCopyMarked /\ [Next]_vars => EveryCopyMarked'
<1> SUFFICES ASSUME TypeOK, EveryCopyMarked, [Next]_vars PROVE EveryCopyMarked'
  OBVIOUS
<1> USE DEF EveryCopyMarked
<1>1. ASSUME NEW c \in Child, Worker(c) \/ WKill(c) \/ WRevoked(c) \/ ExpireResult(c) PROVE EveryCopyMarked'
  <2>1. \A x \in Child : Marked(wloc'[x].snap)
    BY <1>1, WorkerDocs, RegisteredMarked
  <2> QED
    BY <1>1, <2>1, WorkerDocs
<1>2. CASE Handler
  <2>1. Marked(hloc')
    <3>1. hloc \in Meta
      BY DEF TypeOK
    <3>2. Marked([hloc EXCEPT !.force_cancelled = meta.force_cancelled])
      BY <3>1 DEF Marked, Meta
    <3> QED
      BY <1>2, <3>2, HandlerDocs DEF Marked
  <2> QED
    BY <1>2, <2>1, HandlerDocs, RegisteredMarked
<1>3. ASSUME NEW k \in Callbacks, CallbackStep(k) PROVE EveryCopyMarked'
  <2>1. cloc[k].snap \in Meta
    BY DEF TypeOK
  <2>2. Marked(meta')
    <3> DEFINE d1 == [cloc[k].snap EXCEPT !.status = "stopping"]
               d2 == [cloc[k].snap EXCEPT !.child_task_ids = cloc[k].new.child_task_ids,
                                          !.total_tasks = cloc[k].new.total_tasks, !.status = "running"]
    <3>1. Marked(d1) /\ Marked(d2)
      BY <2>1 DEF Meta, Marked
    <3>2. meta' = meta \/ meta' = d1 \/ meta' = d2
      BY <1>3, CallbackDocs
    <3> HIDE DEF d1, d2
    <3> QED
      BY <3>1, <3>2
  <2>3. \A x \in Callbacks : Marked(cloc'[x].snap)
    BY <1>3, CallbackDocs, RegisteredMarked
  <2> QED
    BY <1>3, <2>2, <2>3, CallbackDocs
<1>4. CASE CEnqueueJump \/ CEnqueueVpn
  BY <1>4, EnqueueDocs
<1>5. ASSUME NEW p \in Pollers, Poll(p) PROVE EveryCopyMarked'
  <2>1. ploc[p].new \in Meta /\ ploc[p].snap \in Meta
    BY DEF TypeOK
  <2>2. \A x \in Pollers : Marked(ploc'[x].new)
    BY <1>5, <2>1, PollDocs, RegisteredMarked, RefreshMarked
  <2>3. Marked(meta')
    BY <1>5, <2>1, PollDocs, RefreshMarked
  <2> QED
    BY <1>5, <2>2, <2>3, PollDocs
<1>6. ASSUME NEW o \in Operators, Operator(o) PROVE EveryCopyMarked'
  BY <1>6, OperatorDocs DEF Marked
<1>7. CASE OtherStop \/ FlagGone \/ UNCHANGED vars
  BY <1>7, FlagDocs
<1> QED
  BY <1>1, <1>2, <1>3, <1>4, <1>5, <1>6, <1>7 DEF Next

\* For any number of children and browsers and whoever stops what: a batch that
\* carries the cancel mark is never shown as a success.
THEOREM CancelShown == Spec => []CancelledNeverSuccess
<1>1. Init => EveryCopyMarked
  BY RegisteredMarked DEF Init, EveryCopyMarked
<1>2. EveryCopyMarked => CancelledNeverSuccess
  BY DEF EveryCopyMarked, Marked, CancelledNeverSuccess
<1> QED
  BY <1>1, <1>2, MarksKept, TypeCorrect, PTL DEF Spec

-----------------------------------------------------------------------------
(* A batch is called complete only when it is.  The counters of every copy  *)
(* of the document, also of the stale ones, stay below what Celery says, as *)
(* long as nothing is cancelled; that the total covers all three phases     *)
(* needs that no two updates collided.                                      *)

Failing    == {"BAD", "REVOKED", "FAILURE", "LOST"}
Succeeded  == {c \in Child : cel[c] = "OK"}
Failed     == {c \in Child : cel[c] \in Failing}
Planned(m) == m.is_bulk => m.total_tasks >= Cardinality(Child)

AllEnded   == \A c \in Child : cel[c] \in Ended

\* What a copy of the document may say when s children succeeded, f failed,
\* and it is over or not.
HonestAt(m, s, f, over) ==
    /\ ~m.cancel_requested
    /\ m.success_tasks <= s /\ m.failed_tasks <= f /\ m.done_tasks <= s + f
    /\ m.completed => over
    /\ Planned(m)

Honest(m) == HonestAt(m, Cardinality(Succeeded), Cardinality(Failed), AllEnded)

\* What the callback k will write keeps the total of a document that has one.
KeepsTotal(k) ==
    /\ cpc[k] = "read" /\ meta.is_bulk => cloc[k].new.total_tasks >= Cardinality(Child)
    /\ cpc[k] = "write" /\ cloc[k].snap.is_bulk => cloc[k].new.total_tasks >= Cardinality(Child)

AllHonest ==
    /\ Honest(meta) /\ Honest(hloc)
    /\ \A c \in Child : Honest(wloc[c].snap)
    /\ \A k \in Callbacks : Honest(cloc[k].snap) /\ KeepsTotal(k)
    /\ \A p \in Pollers : Honest(ploc[p].new)

\* An operator who writes has raised the flag; a poll goes on only for a bulk.
Asked ==
    /\ \A o \in Operators : opc[o] \in {"read", "write", "done"} => everStopped
    /\ \A p \in Pollers : ppc[p] = "refresh" => ploc[p].new.is_bulk

CountInv == Asked /\ (~everStopped /\ ~collided => AllHonest)

\* What Celery says of an ended child may be forgotten, not taken back.
LEMMA CountsGrow ==
    ASSUME TypeOK, PhaseInv, [Next]_vars
    PROVE  \A c \in Child : /\ cel[c] = "OK" => cel'[c] = "OK"
                            /\ cel[c] \in Failing => cel'[c] \in Failing
<1> USE DEF TypeOK, Failing
<1>1. ASSUME NEW c \in Child, Worker(c) \/ WKill(c) \/ WRevoked(c) \/ ExpireResult(c)
      PROVE  \A x \in Child : (cel[x] = "OK" => cel'[x] = "OK") /\ (cel[x] \in Failing => cel'[x] \in Failing)
  BY <1>1 DEF PhaseInv, RunningIsStarted, wvars,
       Worker, WStart, WRead, WWrite, WCheck, WExec, WReturn, WKill, WRevoked, ExpireResult
<1>2. CASE HEnqueue
  BY <1>2 DEF HEnqueue, PhaseInv, NothingEnqueued
<1>3. CASE HClear \/ HRegister \/ HMerge \/ HRead \/ HWrite
  BY <1>3 DEF HClear, HRegister, HMerge, HRead, HWrite
<1>4. ASSUME NEW k \in Callbacks, CallbackStep(k) PROVE cel' = cel
  BY <1>4 DEF CallbackStep, ChordReturn, CCheck, CStopRead, CStopWrite, CMerge, CRead, CWrite
<1>5. CASE CEnqueueJump
  <2>1. \A c \in Jump : cel[c] = "none"
    BY <1>5 DEF CEnqueueJump, PhaseInv, JumpAfterCallback
  <2> QED
    BY <1>5, <2>1 DEF CEnqueueJump
<1>6. CASE CEnqueueVpn
  <2>1. \A c \in Vpn : cel[c] = "none"
    BY <1>6 DEF CEnqueueVpn, PhaseInv, VpnAfterCallback
  <2> QED
    BY <1>6, <2>1 DEF CEnqueueVpn
<1>7. ASSUME NEW p \in Pollers, Poll(p) PROVE cel' = cel
  BY <1>7 DEF Poll, PRead, PRefresh, PUpdateRead, PUpdateWrite
<1>8. ASSUME NEW o \in Operators, Operator(o)
      PROVE  \A x \in Child : (cel[x] = "OK" => cel'[x] = "OK") /\ (cel[x] \in Failing => cel'[x] \in Failing)
  BY <1>8 DEF Operator, ORevoke, OFlag, ORead, OWrite
<1>9. CASE OtherStop \/ FlagGone \/ UNCHANGED vars
  BY <1>9, FlagDocs
<1> QED
  BY <1>1, <1>2, <1>3, <1>4, <1>5, <1>6, <1>7, <1>8, <1>9 DEF Next, Handler

LEMMA Counts ==
    ASSUME TypeOK
    PROVE  /\ IsFiniteSet(Succeeded) /\ IsFiniteSet(Failed) /\ IsFiniteSet(Child)
           /\ Cardinality(Succeeded) \in Nat /\ Cardinality(Failed) \in Nat /\ Cardinality(Child) \in Nat \ {0}
           /\ Cardinality(Succeeded \cup Failed) = Cardinality(Succeeded) + Cardinality(Failed)
           /\ Cardinality(Succeeded) + Cardinality(Failed) >= Cardinality(Child) => AllEnded
<1>1. Succeeded \subseteq Child /\ Failed \subseteq Child /\ Succeeded \cap Failed = {}
  BY DEF Succeeded, Failed, Failing
<1>2. IsFiniteSet(Succeeded) /\ IsFiniteSet(Failed) /\ IsFiniteSet(Child)
  BY <1>1, ChildrenAssumption, FS_Subset
<1>3. Cardinality(Succeeded) \in Nat /\ Cardinality(Failed) \in Nat /\ Cardinality(Child) \in Nat \ {0}
  BY <1>2, ChildrenAssumption, FS_CardinalityType, FS_EmptySet
<1>4. Cardinality(Succeeded \cup Failed) = Cardinality(Succeeded) + Cardinality(Failed)
  <2>1. Cardinality(Succeeded \cap Failed) = 0
    BY <1>1, FS_EmptySet
  <2>2. Cardinality(Succeeded \cup Failed) = Cardinality(Succeeded) + Cardinality(Failed) - Cardinality(Succeeded \cap Failed)
    BY <1>2, FS_Union
  <2> QED
    BY <1>3, <2>1, <2>2
<1>5. ASSUME Cardinality(Succeeded) + Cardinality(Failed) >= Cardinality(Child) PROVE AllEnded
  <2>1. Succeeded \cup Failed \subseteq Child
    BY <1>1
  <2>2. Cardinality(Succeeded \cup Failed) = Cardinality(Child)
    BY <1>2, <1>3, <1>4, <1>5, <2>1, FS_Subset
  <2>3. Succeeded \cup Failed = Child
    BY <1>2, <2>1, <2>2, FS_Subset
  <2> QED
    BY <2>3 DEF Succeeded, Failed, Failing, AllEnded, Ended, Returned
<1> QED
  BY <1>2, <1>3, <1>4, <1>5

LEMMA HonestGrows ==
    ASSUME NEW m \in Meta, NEW s \in Nat, NEW f \in Nat, NEW s2 \in Nat, NEW f2 \in Nat, NEW e, NEW e2,
           s <= s2, f <= f2, e => e2, HonestAt(m, s, f, e)
    PROVE  HonestAt(m, s2, f2, e2)
<1>1. m.success_tasks \in Nat /\ m.failed_tasks \in Nat /\ m.done_tasks \in Nat
  BY DEF Meta
<1>2. m.success_tasks <= s2 /\ m.failed_tasks <= f2 /\ m.done_tasks <= s2 + f2
  BY <1>1 DEF HonestAt
<1> QED
  BY <1>2 DEF HonestAt

\* The total the handler announces covers the children of all phases.
LEMMA PlannedIsAll == PlannedTasks = Cardinality(Child)
<1>1. IsFiniteSet(Direct) /\ IsFiniteSet(Jump) /\ IsFiniteSet(Vpn)
  BY ChildrenAssumption, FS_Subset DEF Child
<1>2. /\ Direct \cap Jump = {} /\ (Direct \cup Jump) \cap Vpn = {} /\ IsFiniteSet(Direct \cup Jump)
      /\ Child = (Direct \cup Jump) \cup Vpn
  BY <1>1, ChildrenAssumption, FS_Union DEF Child
<1>3. /\ Cardinality(Direct) \in Nat /\ Cardinality(Jump) \in Nat /\ Cardinality(Vpn) \in Nat
      /\ Cardinality(Direct \cap Jump) = 0 /\ Cardinality((Direct \cup Jump) \cap Vpn) = 0 /\ Cardinality({}) = 0
  BY <1>1, <1>2, FS_CardinalityType, FS_EmptySet
<1>4. Cardinality(Direct \cup Jump) = Cardinality(Direct) + Cardinality(Jump) - Cardinality(Direct \cap Jump)
  BY <1>1, FS_Union
<1>5. Cardinality(Child) = Cardinality(Direct \cup Jump) + Cardinality(Vpn) - Cardinality((Direct \cup Jump) \cap Vpn)
  BY <1>1, <1>2, FS_Union
<1>6. Cardinality(Child) = Cardinality(Direct) + Cardinality(Jump) + Cardinality(Vpn)
  BY <1>3, <1>4, <1>5
<1>7. ~Deferred => Cardinality(Jump) = 0 /\ Cardinality(Vpn) = 0
  BY <1>3 DEF Deferred
<1> QED
  BY <1>3, <1>6, <1>7 DEF PlannedTasks

\* A poll counts no child that has not ended, so it closes no batch too early.
LEMMA RefreshHonest ==
    ASSUME TypeOK, NEW m \in Meta, m.is_bulk, Honest(m)
    PROVE  Honest(Refresh(m))
<1> DEFINE success == {c \in m.child_task_ids : cel[c] = "OK"}
           failed  == ForcedDone(m) \cup {c \in m.child_task_ids : cel[c] \in {"BAD", "REVOKED", "FAILURE"}}
           S       == Cardinality(Succeeded)
           F       == Cardinality(Failed)
           total   == IF m.total_tasks = 0 THEN Cardinality(m.child_task_ids) ELSE m.total_tasks
           okN     == Monotone(Cardinality(success), m.success_tasks)
           badN    == Monotone(Cardinality(failed), m.failed_tasks)
           doneN   == MaxOf(Monotone(Cardinality(success \cup failed), m.done_tasks), okN + badN)
           over    == total = 0 \/ m.completed \/ doneN >= total
           st      == IF over THEN ClosedStatus(m.cancel_requested, badN)
                      ELSE IF m.cancel_requested THEN "stopping" ELSE "running"
<1>1. /\ m.total_tasks \in Nat /\ m.success_tasks \in Nat /\ m.failed_tasks \in Nat /\ m.done_tasks \in Nat
      /\ m.child_task_ids \subseteq Child
  BY DEF Meta
<1>2. S \in Nat /\ F \in Nat /\ Cardinality(Child) \in Nat \ {0}
  BY Counts
<1>3. /\ m.success_tasks <= S /\ m.failed_tasks <= F /\ m.done_tasks <= S + F
      /\ ~m.cancel_requested /\ m.total_tasks >= Cardinality(Child) /\ (m.completed => AllEnded)
  BY DEF Honest, HonestAt, Planned
<1>4. success \subseteq Succeeded /\ failed \subseteq Failed /\ success \cup failed \subseteq Succeeded \cup Failed
  BY <1>1, <1>3 DEF Succeeded, Failed, Failing, ForcedDone
<1>5. /\ Cardinality(success) \in Nat /\ Cardinality(success) <= S
      /\ Cardinality(failed) \in Nat /\ Cardinality(failed) <= F
      /\ Cardinality(success \cup failed) \in Nat /\ Cardinality(success \cup failed) <= S + F
  <2>1. IsFiniteSet(Succeeded) /\ IsFiniteSet(Failed) /\ IsFiniteSet(Succeeded \cup Failed) /\ Cardinality(Succeeded \cup Failed) = S + F
    BY Counts, FS_Union
  <2> HIDE DEF success, failed
  <2> QED
    BY <1>4, <2>1, FS_Subset, FS_CardinalityType
<1>6. Refresh(m) = [m EXCEPT !.is_bulk = TRUE, !.total_tasks = total, !.done_tasks = doneN,
                            !.success_tasks = okN, !.failed_tasks = badN, !.completed = over, !.status = st]
  BY DEF Refresh
<1> HIDE DEF success, failed, S, F
<1>7. okN \in Nat /\ okN <= S /\ badN \in Nat /\ badN <= F
  BY <1>1, <1>2, <1>3, <1>5 DEF Monotone, MaxOf
<1>8. total = m.total_tasks /\ total >= Cardinality(Child) /\ total # 0
  BY <1>1, <1>2, <1>3
<1>9. doneN \in Nat /\ doneN <= S + F
  <2> DEFINE a == okN + badN
             b == Monotone(Cardinality(success \cup failed), m.done_tasks)
  <2>1. a \in Nat /\ a <= S + F
    BY <1>2, <1>7
  <2>2. b \in Nat /\ b <= S + F
    BY <1>1, <1>2, <1>3, <1>5 DEF Monotone, MaxOf
  <2> HIDE DEF a, b
  <2>3. MaxOf(b, a) \in Nat /\ MaxOf(b, a) <= S + F
    BY <2>1, <2>2 DEF MaxOf
  <2> QED
    BY <2>3 DEF a, b
<1> HIDE DEF okN, badN, doneN, total
<1>10. over => AllEnded
  <2>1. CASE m.completed
    BY <1>3, <2>1
  <2>2. CASE doneN >= total
    <3>1. S + F >= Cardinality(Child)
      BY <1>1, <1>2, <1>8, <1>9, <2>2
    <3> QED
      BY <3>1, Counts DEF S, F
  <2> QED
    BY <1>8, <2>1, <2>2
<1> HIDE DEF over, st
<1>11. LET r == Refresh(m) IN
         /\ r.cancel_requested = m.cancel_requested /\ r.success_tasks = okN /\ r.failed_tasks = badN
         /\ r.done_tasks = doneN /\ r.completed = over /\ r.total_tasks = total
  BY <1>6 DEF Meta
<1> QED
  BY <1>3, <1>7, <1>8, <1>9, <1>10, <1>11 DEF Honest, HonestAt, Planned, S, F

LEMMA TwoInFlight ==
    ASSUME NEW x \in InFlight, NEW y \in InFlight, x # y
    PROVE  Cardinality(InFlight) > 1
<1>1. IsFiniteSet(InFlight)
  <2> DEFINE All == ((Child \cup Callbacks) \cup (Pollers \cup Operators)) \cup {"handler"}
  <2>1. IsFiniteSet({"handler"}) /\ IsFiniteSet(Callbacks) /\ IsFiniteSet({"cancel", "stopall"})
    <3>1. Callbacks = {"jumpcb"} \cup {"vpncb"} /\ {"cancel", "stopall"} = {"cancel"} \cup {"stopall"}
      BY DEF Callbacks
    <3>2. \A name : IsFiniteSet({name})
      BY FS_Singleton
    <3>3. IsFiniteSet({"jumpcb"} \cup {"vpncb"})
      BY <3>2, FS_Union
    <3>4. IsFiniteSet({"cancel"} \cup {"stopall"})
      BY <3>2, FS_Union
    <3> QED
      BY <3>1, <3>2, <3>3, <3>4
  <2>2. IsFiniteSet(Child) /\ IsFiniteSet(Pollers) /\ IsFiniteSet(Operators)
    BY <2>1, ChildrenAssumption, ParticipantsAssumption, BoundsAssumption, FS_Subset
  <2>3. IsFiniteSet(Child \cup Callbacks) /\ IsFiniteSet(Pollers \cup Operators)
    BY <2>1, <2>2, FS_Union
  <2>4. IsFiniteSet((Child \cup Callbacks) \cup (Pollers \cup Operators))
    BY <2>3, FS_Union
  <2>5. IsFiniteSet(All)
    BY <2>1, <2>4, FS_Union
  <2>6. InFlight \subseteq All
    BY DEF InFlight
  <2> QED
    BY <2>5, <2>6, FS_Subset
<1>2. IsFiniteSet({x, y}) /\ Cardinality({x, y}) = 2
  <2>1. {x, y} = {x} \cup {y} /\ IsFiniteSet({x}) /\ Cardinality({x}) = 1 /\ y \notin {x}
    BY FS_Singleton
  <2>2. IsFiniteSet({x} \cup {y}) /\ Cardinality({x} \cup {y}) = 1 + 1
    BY <2>1, FS_AddElement
  <2> QED
    BY <2>1, <2>2
<1>3. {x, y} \in SUBSET InFlight
  OBVIOUS
<1>4. Cardinality({x, y}) <= Cardinality(InFlight) /\ Cardinality(InFlight) \in Nat
  BY <1>1, <1>3, FS_Subset, FS_CardinalityType
<1> QED
  BY <1>2, <1>4

\* Whoever writes while the callback k is between its read and its write collides.
LEMMA WriterCollides ==
    ASSUME NEW k \in Callbacks, cpc[k] \in {"read", "write"}, ~collided',
           \/ \E c \in Child : WWrite(c)
           \/ \E p \in Pollers : PUpdateWrite(p)
           \/ \E o \in Operators : OWrite(o)
           \/ HWrite
           \/ \E l \in Callbacks \ {k} : CWrite(l) \/ CStopWrite(l)
    PROVE  FALSE
<1>1. k \in InFlight
  BY DEF InFlight
<1>2. Cardinality(InFlight) > 1 => collided'
  BY DEF WWrite, PUpdateWrite, OWrite, HWrite, CWrite, CStopWrite, WriteMeta
<1>3. \A y \in InFlight : y = k
  BY <1>1, <1>2, TwoInFlight
<1>4. ASSUME NEW c \in Child, WWrite(c) PROVE FALSE
  <2>1. c \in InFlight
    BY <1>4 DEF WWrite, InFlight
  <2> QED
    BY <1>3, <2>1, ParticipantsAssumption
<1>5. ASSUME NEW p \in Pollers, PUpdateWrite(p) PROVE FALSE
  <2>1. p \in InFlight
    BY <1>5 DEF PUpdateWrite, InFlight
  <2> QED
    BY <1>3, <2>1, ParticipantsAssumption
<1>6. ASSUME NEW o \in Operators, OWrite(o) PROVE FALSE
  <2>1. o \in InFlight
    BY <1>6 DEF OWrite, InFlight
  <2>2. o \notin Callbacks
    BY BoundsAssumption DEF Callbacks
  <2> QED
    BY <1>3, <2>1, <2>2
<1>7. CASE HWrite
  <2>1. "handler" \in InFlight
    BY <1>7 DEF HWrite, InFlight
  <2>2. "handler" \notin Callbacks
    BY DEF Callbacks
  <2> QED
    BY <1>3, <2>1, <2>2
<1>8. ASSUME NEW l \in Callbacks \ {k}, CWrite(l) \/ CStopWrite(l) PROVE FALSE
  <2>1. l \in InFlight
    BY <1>8 DEF CWrite, CStopWrite, InFlight
  <2> QED
    BY <1>3, <2>1
<1> QED
  BY <1>4, <1>5, <1>6, <1>7, <1>8

\* Neither history is ever taken back.
LEMMA FlagsStay ==
    ASSUME TypeOK, [Next]_vars
    PROVE  (everStopped => everStopped') /\ (collided => collided')
<1>0. \A m : WriteMeta(m) => (collided => collided')
  BY Zenon DEF WriteMeta
<1>1. ASSUME NEW c \in Child, Worker(c) \/ WKill(c) \/ WRevoked(c) \/ ExpireResult(c)
      PROVE  (everStopped => everStopped') /\ (collided => collided')
  BY <1>0, <1>1 DEF Worker, WStart, WRead, WWrite, WCheck, WExec, WReturn, WKill, WRevoked, ExpireResult
<1>2. ASSUME Handler PROVE (everStopped => everStopped') /\ (collided => collided')
  BY <1>0, <1>2 DEF Handler, HClear, HRegister, HEnqueue, HMerge, HRead, HWrite
<1>3. ASSUME NEW k \in Callbacks, CallbackStep(k) PROVE (everStopped => everStopped') /\ (collided => collided')
  BY <1>0, <1>3 DEF CallbackStep, ChordReturn, CCheck, CStopRead, CStopWrite, CMerge, CRead, CWrite
<1>4. ASSUME NEW p \in Pollers, Poll(p) PROVE (everStopped => everStopped') /\ (collided => collided')
  BY <1>0, <1>4 DEF Poll, PRead, PRefresh, PUpdateRead, PUpdateWrite
<1>5. ASSUME NEW o \in Operators, Operator(o) PROVE (everStopped => everStopped') /\ (collided => collided')
  BY <1>0, <1>5 DEF Operator, ORevoke, OFlag, ORead, OWrite
<1>6. ASSUME OtherStop \/ FlagGone \/ UNCHANGED vars \/ CEnqueueJump \/ CEnqueueVpn
      PROVE  (everStopped => everStopped') /\ (collided => collided')
  BY <1>0, <1>6 DEF OtherStop, FlagGone, vars, CEnqueueJump, CEnqueueVpn
<1> QED
  BY <1>1, <1>2, <1>3, <1>4, <1>5, <1>6 DEF Next

LEMMA AskedKept == TypeOK /\ Asked /\ [Next]_vars => Asked'
<1> SUFFICES ASSUME TypeOK, Asked, [Next]_vars PROVE Asked'
  OBVIOUS
<1> USE DEF Asked
<1>1. everStopped => everStopped'
  BY FlagsStay
<1>2. ASSUME UNCHANGED <<opc, ppc, ploc>> PROVE Asked'
  BY <1>1, <1>2
<1>3. ASSUME NEW c \in Child, Worker(c) \/ WKill(c) \/ WRevoked(c) \/ ExpireResult(c) PROVE Asked'
  BY <1>2, <1>3, WorkerDocs
<1>4. CASE Handler
  BY <1>2, <1>4, HandlerDocs
<1>5. ASSUME NEW k \in Callbacks, CallbackStep(k) PROVE Asked'
  BY <1>2, <1>5, CallbackDocs
<1>6. CASE CEnqueueJump \/ CEnqueueVpn
  BY <1>2, <1>6, EnqueueDocs
<1>7. ASSUME NEW p \in Pollers, Poll(p) PROVE Asked'
  <2>1. ppc'[p] = "refresh" => ploc'[p].new.is_bulk
    BY <1>7, PollDocs
  <2>2. opc' = opc /\ everStopped' = everStopped
    BY <1>7, PollDocs
  <2>3. \A x \in Pollers \ {p} : ploc'[x] = ploc[x] /\ ppc'[x] = ppc[x]
    BY <1>7, PollDocs
  <2> QED
    BY <2>1, <2>2, <2>3
<1>8. ASSUME NEW o \in Operators, Operator(o) PROVE Asked'
  <2>1. UNCHANGED <<ppc, ploc>>
    BY <1>8, OperatorDocs
  <2>2. opc \in [Operators -> {"idle", "flag", "read", "write", "done"}]
    BY DEF TypeOK
  <2>3. \A x \in Operators \ {o} : opc'[x] = opc[x]
    BY <1>8, <2>2 DEF Operator, ORevoke, OFlag, ORead, OWrite
  <2>4. opc'[o] \in {"read", "write", "done"} => everStopped'
    BY <1>1, <1>8, <2>2 DEF Operator, ORevoke, OFlag, ORead, OWrite
  <2> QED
    BY <1>1, <2>1, <2>3, <2>4
<1>9. CASE OtherStop \/ FlagGone \/ UNCHANGED vars
  BY <1>2, <1>9, FlagDocs
<1> QED
  BY <1>3, <1>4, <1>5, <1>6, <1>7, <1>8, <1>9 DEF Next

LEMMA RegisteredHonest == TypeOK => Honest(Registered)
<1> SUFFICES ASSUME TypeOK PROVE Honest(Registered)
  OBVIOUS
<1>1. Cardinality(Succeeded) \in Nat /\ Cardinality(Failed) \in Nat
  BY Counts
<1> QED
  BY <1>1 DEF Honest, HonestAt, Planned, Registered

\* A copy that was honest is honest after any step.
LEMMA HonestStays ==
    ASSUME TypeOK, TypeOK', PhaseInv, [Next]_vars
    PROVE  /\ Cardinality(Succeeded) \in Nat /\ Cardinality(Succeeded)' \in Nat /\ Cardinality(Succeeded) <= Cardinality(Succeeded)'
           /\ Cardinality(Failed) \in Nat /\ Cardinality(Failed)' \in Nat /\ Cardinality(Failed) <= Cardinality(Failed)'
           /\ AllEnded => AllEnded'
<1>1. \A c \in Child : /\ cel[c] = "OK" => cel'[c] = "OK"
                       /\ cel[c] \in Failing => cel'[c] \in Failing
  BY CountsGrow
<1>2. Succeeded \subseteq Succeeded' /\ Failed \subseteq Failed'
  BY <1>1 DEF Succeeded, Failed
<1>3. /\ IsFiniteSet(Succeeded) /\ Cardinality(Succeeded) \in Nat
      /\ IsFiniteSet(Failed) /\ Cardinality(Failed) \in Nat
  BY Counts
<1>4. Succeeded' \subseteq Child /\ Failed' \subseteq Child
  BY DEF Succeeded, Failed
<1>5. /\ IsFiniteSet(Succeeded') /\ Cardinality(Succeeded') \in Nat
      /\ IsFiniteSet(Failed') /\ Cardinality(Failed') \in Nat
  BY <1>4, ChildrenAssumption, FS_Subset, FS_CardinalityType
<1>6. Cardinality(Succeeded) <= Cardinality(Succeeded') /\ Cardinality(Failed) <= Cardinality(Failed')
  BY <1>2, <1>5, FS_Subset
<1>7. AllEnded => AllEnded'
  BY <1>1 DEF AllEnded, Ended, Returned, Failing, TypeOK
<1> QED
  BY <1>3, <1>5, <1>6, <1>7

LEMMA HonestKept ==
    ASSUME TypeOK, TypeOK', PhaseInv, Asked, [Next]_vars, AllHonest, ~everStopped', ~collided'
    PROVE  AllHonest'
<1> USE DEF AllHonest
<1> DEFINE S == Cardinality(Succeeded)'
           F == Cardinality(Failed)'
           E == AllEnded'
           H(m) == HonestAt(m, S, F, E)
\* H(m): the copy m is honest after the step.
<1>1. S \in Nat /\ F \in Nat
  BY HonestStays
<1>2. \A m \in Meta : Honest(m) => H(m)
  <2> SUFFICES ASSUME NEW m \in Meta, Honest(m) PROVE H(m)
    OBVIOUS
  <2> HIDE DEF S, F, E
  <2> QED
    BY HonestStays, HonestGrows DEF Honest, S, F, E
<1>3. Registered \in Meta /\ H(Registered)
  BY <1>2, RegisteredType, RegisteredHonest
<1>4. /\ meta \in Meta /\ hloc \in Meta
      /\ \A c \in Child : wloc[c].snap \in Meta
      /\ \A k \in Callbacks : cloc[k].snap \in Meta /\ cloc[k].new \in Meta
      /\ \A p \in Pollers : ploc[p].snap \in Meta /\ ploc[p].new \in Meta
  BY DEF TypeOK
<1>5. /\ H(meta) /\ H(hloc)
      /\ \A c \in Child : H(wloc[c].snap)
      /\ \A k \in Callbacks : H(cloc[k].snap)
      /\ \A p \in Pollers : H(ploc[p].new)
  BY <1>2, <1>4
<1> HIDE DEF H
<1>6. SUFFICES /\ H(meta') /\ H(hloc')
               /\ \A c \in Child : H(wloc'[c].snap)
               /\ \A k \in Callbacks : H(cloc'[k].snap) /\ KeepsTotal(k)'
               /\ \A p \in Pollers : H(ploc'[p].new)
  BY DEF H, Honest
<1>7. ASSUME NEW k \in Callbacks, cpc'[k] = cpc[k], cloc'[k] = cloc[k], meta' = meta PROVE KeepsTotal(k)'
  BY <1>7 DEF KeepsTotal
\* Another's write would have collided.
<1>8. ASSUME NEW k \in Callbacks, cpc'[k] = cpc[k], cloc'[k] = cloc[k],
             \/ \E c \in Child : WWrite(c)
             \/ \E p \in Pollers : PUpdateWrite(p)
             \/ HWrite
             \/ \E l \in Callbacks \ {k} : CWrite(l) \/ CStopWrite(l)
      PROVE  KeepsTotal(k)'
  <2>1. cpc[k] \notin {"read", "write"}
    BY <1>8, WriterCollides
  <2> QED
    BY <1>8, <2>1 DEF KeepsTotal
<1>9. ASSUME NEW c \in Child, Worker(c) \/ WKill(c) \/ WRevoked(c) \/ ExpireResult(c) PROVE <1>6!1
  <2>1. \A x \in Child : H(wloc'[x].snap)
    BY <1>3, <1>5, <1>9, WorkerDocs
  <2>2. H(meta')
    BY <1>5, <1>9, WorkerDocs
  <2>3. \A k \in Callbacks : KeepsTotal(k)'
    BY <1>7, <1>8, <1>9, WorkerDocs
  <2> QED
    BY <1>5, <1>9, <2>1, <2>2, <2>3, WorkerDocs
<1>10. CASE Handler
  <2>1. H(hloc')
    <3>1. H([hloc EXCEPT !.force_cancelled = meta.force_cancelled])
      BY <1>4, <1>5 DEF H, HonestAt, Planned, Meta
    <3>2. ASSUME ~hloc'.cancel_requested, ~hloc'.completed, hloc'.success_tasks = 0, hloc'.failed_tasks = 0, hloc'.done_tasks = 0,
                 hloc'.total_tasks = MaxOf(PlannedTasks, MaxOf(meta.total_tasks, Cardinality(Direct \cup meta.child_task_ids)))
          PROVE  H(hloc')
      <4>1. Direct \cup meta.child_task_ids \subseteq Child /\ meta.total_tasks \in Nat
        BY <1>4 DEF Meta, Child
      <4>2. Cardinality(Direct \cup meta.child_task_ids) \in Nat /\ PlannedTasks \in Nat /\ PlannedTasks = Cardinality(Child)
        BY <4>1, CountIsNat, PlannedIsAll
      <4>3. hloc'.total_tasks >= Cardinality(Child)
        BY <3>2, <4>1, <4>2 DEF MaxOf
      <4> HIDE DEF S, F, E
      <4> QED
        BY <1>1, <3>2, <4>3 DEF H, HonestAt, Planned
    <3> QED
      BY <1>5, <1>10, <3>1, <3>2, HandlerDocs
  <2>2. H(meta')
    BY <1>3, <1>5, <1>10, HandlerDocs
  <2>3. ASSUME NEW k \in Callbacks PROVE KeepsTotal(k)'
    <3>1. cloc'[k] = cloc[k]
      BY <1>10, HandlerDocs
    <3>2. CASE HEnqueue
      <4>1. cpc'[k] = cpc[k] \/ cpc'[k] \in {"none", "queued", "armed"}
        BY <3>2 DEF HEnqueue, TypeOK
      <4>2. meta' = meta
        BY <3>2 DEF HEnqueue
      <4> QED
        BY <1>7, <3>1, <4>1, <4>2 DEF KeepsTotal
    <3>3. CASE HRegister
      <4>1. ~meta'.is_bulk /\ cpc' = cpc
        BY <3>3 DEF HRegister, Registered, cvars
      <4> QED
        BY <3>1, <4>1 DEF KeepsTotal
    <3>4. CASE HClear \/ HMerge \/ HRead
      BY <1>7, <3>1, <3>4 DEF HClear, HMerge, HRead, cvars
    <3>5. CASE HWrite
      BY <1>8, <3>1, <3>5 DEF HWrite, cvars
    <3> QED
      BY <1>10, <3>2, <3>3, <3>4, <3>5 DEF Handler
  <2> QED
    BY <1>5, <1>10, <2>1, <2>2, <2>3, HandlerDocs
<1>11. ASSUME NEW k \in Callbacks, CallbackStep(k) PROVE <1>6!1
  <2>1. \A x \in Callbacks : H(cloc'[x].snap)
    BY <1>3, <1>5, <1>11, CallbackDocs
  <2>2. H(meta')
    <3> DEFINE d1 == [cloc[k].snap EXCEPT !.status = "stopping"]
               d2 == [cloc[k].snap EXCEPT !.child_task_ids = cloc[k].new.child_task_ids,
                                          !.total_tasks = cloc[k].new.total_tasks, !.status = "running"]
    <3>1. H(d1)
      BY <1>4, <1>5 DEF H, HonestAt, Planned, Meta
    <3>2. ASSUME CWrite(k) PROVE H(d2)
      <4>1. cloc[k].snap.is_bulk => cloc[k].new.total_tasks >= Cardinality(Child)
        BY <3>2 DEF KeepsTotal, CWrite
      <4>2. /\ d2.is_bulk = cloc[k].snap.is_bulk /\ d2.total_tasks = cloc[k].new.total_tasks
            /\ d2.cancel_requested = cloc[k].snap.cancel_requested /\ d2.completed = cloc[k].snap.completed
            /\ d2.success_tasks = cloc[k].snap.success_tasks /\ d2.failed_tasks = cloc[k].snap.failed_tasks
            /\ d2.done_tasks = cloc[k].snap.done_tasks
        BY <1>4 DEF Meta
      <4>3. H(cloc[k].snap)
        BY <1>5
      <4> HIDE DEF d2, S, F, E
      <4> QED
        BY <4>1, <4>2, <4>3 DEF H, HonestAt, Planned
    <3>3. meta' = meta \/ meta' = d1 \/ (CWrite(k) /\ meta' = d2)
      BY <1>11, CallbackDocs
    <3> HIDE DEF d1, d2
    <3> QED
      BY <1>5, <3>1, <3>2, <3>3
  <2>3. ASSUME NEW x \in Callbacks \ {k} PROVE KeepsTotal(x)'
    BY <1>7, <1>8, <1>11, CallbackDocs
  <2>4. KeepsTotal(k)'
    <3>1. cpc \in [Callbacks -> {"none", "armed", "queued", "dead", "stopread", "stopwrite",
                                 "merge", "read", "write", "enqueue", "done"}]
          /\ cloc \in [Callbacks -> [snap: Meta, new: Meta]]
      BY DEF TypeOK
    <3>2. CASE ChordReturn(k) \/ CCheck(k) \/ CStopRead(k) \/ CStopWrite(k) \/ CWrite(k)
      <4>1. cpc'[k] \notin {"read", "write"}
        BY <3>1, <3>2 DEF ChordReturn, CCheck, CStopRead, CStopWrite, CWrite
      <4> QED
        BY <4>1 DEF KeepsTotal
    <3>3. CASE CMerge(k)
      <4> DEFINE added   == IF k = "jumpcb" THEN Jump ELSE Vpn
                 pending == IF k = "jumpcb" THEN Cardinality(Vpn) ELSE 0
                 ids     == meta.child_task_ids \cup added
                 n       == MaxOf(meta.total_tasks, Cardinality(ids) + pending)
                 d       == [Registered EXCEPT !.child_task_ids = ids, !.total_tasks = n]
      <4>1. cpc'[k] = "read" /\ meta' = meta /\ cloc' = [cloc EXCEPT ![k] = [cloc[k] EXCEPT !.new = d]]
        BY <3>1, <3>3 DEF CMerge
      <4>2. meta.total_tasks \in Nat /\ ids \subseteq Child /\ Vpn \subseteq Child
        BY <1>4 DEF Meta, Child
      <4>3. Cardinality(ids) + pending \in Nat
        BY <4>2, CountIsNat
      <4>4. n \in Nat /\ n >= meta.total_tasks
        BY <4>2, <4>3 DEF MaxOf
      <4>5. meta.is_bulk => meta.total_tasks >= Cardinality(Child)
        BY <1>5 DEF H, HonestAt, Planned
      <4>6. Cardinality(Child) \in Nat
        BY Counts
      <4>7. d.total_tasks = n
        BY DEF Registered
      <4> HIDE DEF d, n
      <4>8. cloc'[k].new = d
        BY <3>1, <4>1
      <4>9. meta.is_bulk => cloc'[k].new.total_tasks >= Cardinality(Child)
        BY <4>2, <4>4, <4>5, <4>6, <4>7, <4>8
      <4> QED
        BY <4>1, <4>9 DEF KeepsTotal
    <3>4. CASE CRead(k)
      <4>1. cloc' = [cloc EXCEPT ![k] = [cloc[k] EXCEPT !.snap = meta]] /\ cpc[k] = "read" /\ cpc'[k] = "write"
        BY <3>1, <3>4 DEF CRead
      <4>2. cloc'[k].snap = meta /\ cloc'[k].new = cloc[k].new
        BY <3>1, <4>1
      <4> QED
        BY <4>1, <4>2 DEF KeepsTotal
    <3> QED
      BY <1>11, <3>2, <3>3, <3>4 DEF CallbackStep
  <2> QED
    BY <1>5, <1>11, <2>1, <2>2, <2>3, <2>4, CallbackDocs
<1>12. CASE CEnqueueJump \/ CEnqueueVpn
  <2>1. ASSUME NEW k \in Callbacks PROVE KeepsTotal(k)'
    <3>1. cpc'[k] = cpc[k] \/ cpc'[k] \in {"done", "armed", "merge"}
      BY <1>12 DEF CEnqueueJump, CEnqueueVpn, TypeOK, Callbacks
    <3> QED
      BY <1>7, <1>12, <3>1, EnqueueDocs DEF KeepsTotal
  <2> QED
    BY <1>5, <1>12, <2>1, EnqueueDocs
<1>13. ASSUME NEW p \in Pollers, Poll(p) PROVE <1>6!1
  <2>1. ASSUME ppc[p] = "refresh" PROVE H(Refresh(ploc[p].new))
    <3>1. ploc[p].new.is_bulk /\ Honest(ploc[p].new)
      BY <2>1 DEF Asked
    <3>2. Honest(Refresh(ploc[p].new)) /\ Refresh(ploc[p].new) \in Meta
      BY <1>4, <3>1, RefreshHonest, RefreshType
    <3> QED
      BY <1>2, <3>2 DEF H
  <2>2. H(RefreshedInto(ploc[p].snap, ploc[p].new))
    <3> DEFINE n == ploc[p].new
    <3>1. n \in Meta /\ H(n)
      BY <1>4, <1>5
    <3> HIDE DEF n
    <3>2. H(RefreshedInto(ploc[p].snap, n))
      BY <3>1 DEF RefreshedInto, H, HonestAt, Planned, Meta
    <3> QED
      BY <3>2 DEF n
  <2>3. \A x \in Pollers : H(ploc'[x].new)
    BY <1>3, <1>5, <1>13, <2>1, PollDocs
  <2>4. H(meta')
    BY <1>5, <1>13, <2>2, PollDocs
  <2>5. \A k \in Callbacks : KeepsTotal(k)'
    BY <1>7, <1>8, <1>13, PollDocs
  <2> QED
    BY <1>5, <1>13, <2>3, <2>4, <2>5, PollDocs
<1>14. ASSUME NEW o \in Operators, Operator(o) PROVE <1>6!1
  <2>1. ~OFlag(o)
    BY DEF OFlag
  <2>2. ~OWrite(o)
    BY FlagsStay DEF OWrite, Asked
  <2>3. CASE ORevoke(o) \/ ORead(o)
    BY <1>5, <1>7, <2>3 DEF ORevoke, ORead, hvars, wvars, cvars, pvars
  <2> QED
    BY <1>14, <2>1, <2>2, <2>3 DEF Operator
<1>15. CASE OtherStop \/ FlagGone \/ UNCHANGED vars
  BY <1>5, <1>7, <1>15, FlagDocs
<1> QED
  BY <1>9, <1>10, <1>11, <1>12, <1>13, <1>14, <1>15 DEF Next

\* For any batch: the status endpoint calls it complete only when every child
\* of every phase has ended, if nobody stopped backups and no two updates of
\* the document collided.
THEOREM CompleteIsEnded == Spec => []CompletedMeansEnded
<1>1. Init => TypeInv
  BY InitTypes
<1>2. Init => CountInv
  <2> SUFFICES ASSUME Init PROVE CountInv
    OBVIOUS
  <2>1. Honest(Registered)
    BY <1>1, RegisteredHonest DEF TypeInv
  <2> QED
    BY <2>1 DEF Init, CountInv, Asked, AllHonest, KeepsTotal
<1>3. TypeOK /\ TypeOK' /\ PhaseInv /\ CountInv /\ [Next]_vars => CountInv'
  BY HonestKept, AskedKept, FlagsStay DEF CountInv
<1>4. CountInv => CompletedMeansEnded
  BY DEF CountInv, AllHonest, Honest, HonestAt, AllEnded, CompletedMeansEnded
<1> QED
  BY <1>2, <1>3, <1>4, TypeCorrect, PhasesHold, PTL DEF Spec
=============================================================================
