---------------------------- MODULE JumpHostSlots ----------------------------
(***************************************************************************)
(* The slots of one jump host: _jump_host_lock_context around a backup.    *)
(* A slot is a Redis lock with a TTL.  A task tries the slots up to the    *)
(* limit it resolved when it came, again and again, until it gets one, is  *)
(* stopped, or has waited too long; then it runs its SSH session and       *)
(* releases the slot if the lock is still its own.                         *)
(*                                                                         *)
(* Time is counted in ticks: a tick takes one from every lock's TTL, every *)
(* running task's hard limit and every waiter's patience.  How the limit   *)
(* moves is SlotLimit's business, which AdaptiveSlots implements.          *)
(***************************************************************************)
EXTENDS Naturals, FiniteSets

CONSTANTS
    Tasks,      \* the tasks for this jump host, each worker's one after another
    First, Ceiling,  \* of SlotLimit
    SlotTTL,    \* JUMP_HOST_SLOT_TTL_SECONDS
    HardLimit,  \* BACKUP_TASK_TIME_LIMIT_SECONDS; a larger value stands for no limit
    Patience,   \* _effective_jump_host_wait_seconds
    RedisFails  \* may a task find no Redis and go on without a slot?

ASSUME TimesAssumption ==
    /\ SlotTTL \in Nat \ {0} /\ HardLimit \in Nat \ {0} /\ Patience \in Nat
    /\ RedisFails \in BOOLEAN
ASSUME CeilingAssumption == Ceiling \in Nat /\ First \in 1 .. Ceiling

VARIABLES
    limit,       \* what _resolve_effective_jump_host_slots answers now
    owner, ttl,  \* each slot's lock: who took it last, ticks before it expires
    stop,        \* _should_stop_now
    pc, max, at, left, wait \* each task: step, slots it may use, slot it tries
                            \* or has (0: none), hard limit and patience left

lockvars == <<owner, ttl>>
taskvars == <<pc, max, at, left, wait>>
vars == <<limit, lockvars, stop, taskvars>>

Slots == 1 .. Ceiling
NoTask == 0 \* owner of a slot never taken; task names are not numbers

Waiting == {"top", "try", "sleep"}

Limit == INSTANCE SlotLimit

-----------------------------------------------------------------------------
Init ==
    /\ Limit!Init
    /\ owner = [s \in Slots |-> NoTask] /\ ttl = [s \in Slots |-> 0]
    /\ stop = FALSE
    /\ pc = [t \in Tasks |-> "idle"] /\ max = [t \in Tasks |-> 1]
    /\ at = [t \in Tasks |-> 0] /\ left = [t \in Tasks |-> 0]
    /\ wait = [t \in Tasks |-> 0]

Go(t, step) == pc' = [pc EXCEPT ![t] = step]

\* Faulty variant: the adapted limit is not read.
ResolveCeiling(t) ==
    /\ pc[t] = "idle"
    /\ max' = [max EXCEPT ![t] = Ceiling] /\ at' = [at EXCEPT ![t] = 0]
    /\ left' = [left EXCEPT ![t] = HardLimit] /\ wait' = [wait EXCEPT ![t] = Patience]
    /\ Go(t, "top")
    /\ UNCHANGED <<limit, lockvars, stop>>

\* A task starts and resolves the limit, once: later changes of the limit do
\* not reach it.
Resolve(t) ==
    /\ pc[t] = "idle"
    /\ max' = [max EXCEPT ![t] = limit] /\ at' = [at EXCEPT ![t] = 0]
    /\ left' = [left EXCEPT ![t] = HardLimit] /\ wait' = [wait EXCEPT ![t] = Patience]
    /\ Go(t, "top")
    /\ UNCHANGED <<limit, lockvars, stop>>

\* The same when the limit cannot be read: the configured one counts.
ResolveBlind(t) ==
    /\ RedisFails /\ pc[t] = "idle"
    /\ max' = [max EXCEPT ![t] = First] /\ at' = [at EXCEPT ![t] = 0]
    /\ left' = [left EXCEPT ![t] = HardLimit] /\ wait' = [wait EXCEPT ![t] = Patience]
    /\ Go(t, "top")
    /\ UNCHANGED <<limit, lockvars, stop>>

\* Without Redis the backup runs without a slot.
NoLock(t) ==
    /\ RedisFails /\ pc[t] = "idle"
    /\ at' = [at EXCEPT ![t] = 0] /\ left' = [left EXCEPT ![t] = HardLimit]
    /\ Go(t, "session")
    /\ UNCHANGED <<limit, lockvars, stop, max, wait>>

\* Faulty variant: patience is not checked.
LeaveIfStopped(t) ==
    /\ pc[t] = "top"
    /\ Go(t, IF stop THEN "idle" ELSE "try")
    /\ at' = [at EXCEPT ![t] = 1]
    /\ UNCHANGED <<limit, lockvars, stop, max, left, wait>>

\* The top of the waiting loop: JumpHostSlotCancelledError, then
\* JumpHostSlotTimeoutError, else a round over the slots.
LoopTop(t) ==
    /\ pc[t] = "top"
    /\ IF stop \/ wait[t] = 0
         THEN Go(t, "idle") /\ at' = [at EXCEPT ![t] = 0]
         ELSE Go(t, "try") /\ at' = [at EXCEPT ![t] = 1]
    /\ UNCHANGED <<limit, lockvars, stop, max, left, wait>>

\* Faulty variant: the answer of acquire is ignored.
TryAnyway(t) ==
    /\ pc[t] = "try" /\ at[t] <= max[t]
    /\ owner' = [owner EXCEPT ![at[t]] = t] /\ ttl' = [ttl EXCEPT ![at[t]] = SlotTTL]
    /\ Go(t, "session")
    /\ UNCHANGED <<limit, stop, max, at, left, wait>>

\* One acquire(blocking=False): SET NX on the next slot of the round.
Try(t) ==
    /\ pc[t] = "try"
    /\ LET s == at[t] IN
         \/ /\ s <= max[t] /\ ttl[s] = 0
            /\ owner' = [owner EXCEPT ![s] = t] /\ ttl' = [ttl EXCEPT ![s] = SlotTTL]
            /\ Go(t, "session") /\ UNCHANGED at
         \/ /\ s <= max[t] /\ ttl[s] > 0
            /\ at' = [at EXCEPT ![t] = s + 1] /\ UNCHANGED <<lockvars, pc>>
         \/ /\ s > max[t]
            /\ Go(t, "sleep") /\ at' = [at EXCEPT ![t] = 0] /\ UNCHANGED lockvars
    /\ UNCHANGED <<limit, stop, max, left, wait>>

\* An acquire raises: the next slot is tried.  The SET may have been executed
\* although its answer was lost; then the lock is nobody's until it expires.
TryFails(t) ==
    /\ RedisFails /\ pc[t] = "try" /\ at[t] <= max[t]
    /\ \/ UNCHANGED lockvars
       \/ /\ ttl[at[t]] = 0
          /\ owner' = [owner EXCEPT ![at[t]] = NoTask] /\ ttl' = [ttl EXCEPT ![at[t]] = SlotTTL]
    /\ at' = [at EXCEPT ![t] = @ + 1]
    /\ UNCHANGED <<limit, stop, pc, max, left, wait>>

\* _sleep_with_stop_poll(1) between two rounds.
Sleep(t) ==
    /\ pc[t] = "sleep"
    /\ Go(t, IF stop THEN "idle" ELSE "top")
    /\ UNCHANGED <<limit, lockvars, stop, max, at, left, wait>>

\* Faulty variant: ownership is not checked.
ReleaseAny(t) ==
    /\ pc[t] = "session"
    /\ ttl' = IF at[t] # 0 THEN [ttl EXCEPT ![at[t]] = 0] ELSE ttl
    /\ Go(t, "idle") /\ at' = [at EXCEPT ![t] = 0]
    /\ UNCHANGED <<limit, owner, stop, max, left, wait>>

\* The session ends, in success, failure or soft limit; the finally block
\* releases the lock if it is still owned.
Release(t) ==
    /\ pc[t] = "session"
    /\ ttl' = IF at[t] # 0 /\ owner[at[t]] = t THEN [ttl EXCEPT ![at[t]] = 0] ELSE ttl
    /\ Go(t, "idle") /\ at' = [at EXCEPT ![t] = 0]
    /\ UNCHANGED <<limit, owner, stop, max, left, wait>>

\* The soft limit interrupts the wait: nothing was acquired.
SoftLimit(t) ==
    /\ pc[t] \in Waiting
    /\ Go(t, "idle") /\ at' = [at EXCEPT ![t] = 0]
    /\ UNCHANGED <<limit, lockvars, stop, max, left, wait>>

\* The hard limit, a revoke or a crash kills the process: the lock stays.
Kill(t) ==
    /\ pc[t] # "idle"
    /\ Go(t, "idle") /\ at' = [at EXCEPT ![t] = 0]
    /\ UNCHANGED <<limit, lockvars, stop, max, left, wait>>

Less(n) == IF n = 0 THEN 0 ELSE n - 1

\* Time passes, but not beyond a running task's hard limit.
Tick ==
    /\ \A t \in Tasks : pc[t] # "idle" => left[t] > 0
    /\ ttl' = [s \in Slots |-> Less(ttl[s])]
    /\ left' = [t \in Tasks |-> Less(left[t])]
    /\ wait' = [t \in Tasks |-> IF pc[t] \in Waiting THEN Less(wait[t]) ELSE 0]
    /\ UNCHANGED <<limit, owner, stop, pc, max, at>>

LimitChanges ==
    /\ Limit!Change
    /\ UNCHANGED <<lockvars, stop, taskvars>>

StopChanges ==
    /\ stop' = ~stop
    /\ UNCHANGED <<limit, lockvars, taskvars>>

Wait(t) == LoopTop(t) \/ Try(t) \/ Sleep(t)

Next ==
    \/ \E t \in Tasks : \/ Resolve(t) \/ ResolveBlind(t) \/ NoLock(t) \/ Wait(t) \/ TryFails(t)
                       \/ Release(t) \/ SoftLimit(t) \/ Kill(t)
    \/ Tick \/ LimitChanges \/ StopChanges

Spec == Init /\ [][Next]_vars

\* A waiter goes on, time passes, and a session ends at the latest when the
\* hard limit kills it.  That the limit kills a waiter too is not counted on:
\* the wait has to end by its own deadline.
FairSpec ==
    /\ Spec /\ WF_vars(Tick)
    /\ \A t \in Tasks : WF_vars(Wait(t)) /\ WF_vars(pc[t] = "session" /\ left[t] = 0 /\ Kill(t))

-----------------------------------------------------------------------------
(* Properties.                                                             *)

\* Every variable keeps the shape the code gives it.
TypeOK ==
    /\ limit \in Slots /\ stop \in BOOLEAN
    /\ owner \in [Slots -> Tasks \cup {NoTask}] /\ ttl \in [Slots -> 0 .. SlotTTL]
    /\ pc \in [Tasks -> {"idle", "top", "try", "sleep", "session"}]
    /\ max \in [Tasks -> Slots] /\ at \in [Tasks -> 0 .. Ceiling + 1]
    /\ left \in [Tasks -> 0 .. HardLimit] /\ wait \in [Tasks -> 0 .. Patience]

\* A session that has run for as long as a slot's lock lives.
Late(t) == pc[t] = "session" /\ left[t] + SlotTTL <= HardLimit

\* Two tasks run a session in the same slot of the jump host only if one of
\* them has outlived the TTL of its lock: never when the TTL exceeds the hard
\* limit, as by default, though killed tasks leave locks behind, locks expire by
\* themselves and answers of Redis are lost.
OneSessionPerSlot ==
    \A t, u \in Tasks :
        pc[t] = "session" /\ pc[u] = "session" /\ at[t] # 0 /\ at[t] = at[u]
           => t = u \/ Late(t) \/ Late(u)

\* Even when a session outlives its lock and another task has taken the slot,
\* nobody takes a live lock from its session: it goes with its owner or by TTL.
LiveLockKept ==
    [][\A t \in Tasks :
          LET s == at[t] IN
          pc[t] = "session" /\ s # 0 /\ owner[s] = t /\ ttl[s] > 1 /\ pc'[t] = "session"
             => owner'[s] = t /\ ttl'[s] >= ttl[s] - 1]_vars

\* No task waits for a slot for ever.
WaitEnds == \A t \in Tasks : pc[t] \in Waiting ~> pc[t] \notin Waiting

\* When the limit has settled, sessions in slots above it come to an end, though
\* tasks that resolved a larger limit may still take such slots for a while.
LimitTakesHold ==
    \A n \in Slots :
        <>[](limit = n) => <>[](\A t \in Tasks : pc[t] = "session" => at[t] <= n)
=============================================================================
