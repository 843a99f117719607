---------------------------- MODULE AdaptiveSlots ----------------------------
(***************************************************************************)
(* How the slot limit of one jump host follows the outcomes of backups:    *)
(* _adapt_jump_host_slots, run by every task when its backup has ended.    *)
(* The limit, two streak counters and a cool-down mark are separate Redis  *)
(* keys, read and written one command at a time; a step here is a command. *)
(***************************************************************************)
EXTENDS Naturals

CONSTANTS
    Adapters,       \* tasks that may be adapting at the same time
    BaseSlots,      \* JUMP_HOST_MAX_SLOTS
    Override,       \* JUMP_HOST_SLOTS_OVERRIDES for this host, 0 if none
    MaxBoost,       \* JUMP_HOST_ADAPTIVE_MAX_BOOST
    FailStreak,     \* JUMP_HOST_ADAPTIVE_FAIL_STREAK
    SevereStreak,   \* JUMP_HOST_ADAPTIVE_SEVERE_FAIL_STREAK
    SuccessStreak,  \* JUMP_HOST_ADAPTIVE_SUCCESS_STREAK
    DropToOne,      \* JUMP_HOST_ADAPTIVE_SEVERE_DROP_TO_ONE
    MaxTrouble      \* bound: failures, expiries, Redis errors and resets

ASSUME SlotsAssumption ==
    /\ BaseSlots \in 1 .. 16 /\ Override \in 0 .. 16 /\ MaxBoost \in 0 .. 8
    /\ FailStreak \in Nat \ {0} /\ SevereStreak \in Nat \ {0}
    /\ SuccessStreak \in Nat \ {0}
    /\ DropToOne \in BOOLEAN /\ MaxTrouble \in Nat

VARIABLES
    slots,      \* hash jump_host_adaptive_slots; 0 when the field is absent
    fails, oks, \* the streak counters
    cooldown,   \* the cool-down key
    phase, cur, out, next, \* each task: step, limit it read, outcome, limit it writes
    trouble     \* history: how much of MaxTrouble is used

adaptvars == <<slots, fails, oks, cooldown, phase, cur, out, next, trouble>>

-----------------------------------------------------------------------------
Outcomes == {"ok", "plain", "saturated", "severe"}

AtLeast1(n) == IF n < 1 THEN 1 ELSE n
AtMost16(n) == IF n > 16 THEN 16 ELSE n
Lower(a, b) == IF a < b THEN a ELSE b

\* A counter that is only compared with thresholds saturates at the largest.
Top == LET a == IF FailStreak > SevereStreak THEN FailStreak ELSE SevereStreak
       IN IF SuccessStreak > a THEN SuccessStreak ELSE a
Count(n) == Lower(n + 1, Top)

\* _resolve_effective_jump_host_slots: base, or the override, or what was adapted.
StartSlots  == IF Override > 0 THEN Override ELSE BaseSlots
Effective   == AtLeast1(AtMost16(IF slots > 0 THEN slots ELSE StartSlots))
AllowedMax  == AtLeast1(AtMost16(BaseSlots + MaxBoost))
CeilingSlots == IF StartSlots > AllowedMax THEN StartSlots ELSE AllowedMax

\* Faulty variants: no ceiling; recovery stops one short.
VerdictUncapped(o, n, have) ==
    IF o = "ok" THEN IF n >= SuccessStreak THEN have + 1 ELSE 0
    ELSE IF have > 1 /\ n >= FailStreak THEN have - 1 ELSE 0
VerdictShort(o, n, have) ==
    IF o = "ok" THEN IF n >= SuccessStreak /\ have + 1 < AllowedMax THEN have + 1 ELSE 0
    ELSE IF have > 1 /\ n >= FailStreak THEN have - 1 ELSE 0

\* The limit a task writes that read the limit have, when its streak is now n;
\* 0 when it writes none.
Verdict(o, n, have) ==
    LET severe == o = "severe" /\ n >= SevereStreak
    IN CASE o = "ok" /\ n >= SuccessStreak /\ have < AllowedMax -> Lower(AllowedMax, have + 1)
         [] o # "ok" /\ have > 1 /\ severe -> IF DropToOne \/ have <= 2 THEN 1 ELSE have - 2
         [] o # "ok" /\ have > 1 /\ ~severe /\ n >= FailStreak -> have - 1
         [] OTHER -> 0

-----------------------------------------------------------------------------
AdaptInit ==
    /\ slots = 0 /\ fails = 0 /\ oks = 0 /\ cooldown = FALSE
    /\ phase = [t \in Adapters |-> "idle"] /\ cur = [t \in Adapters |-> 1]
    /\ out = [t \in Adapters |-> "ok"] /\ next = [t \in Adapters |-> 1]
    /\ trouble = 0

Goes(t, step) == phase' = [phase EXCEPT ![t] = step]

\* A backup has ended: the task reads the present limit.
AStart(t) ==
    /\ phase[t] = "idle"
    /\ \E o \in Outcomes :
         /\ o # "ok" => trouble < MaxTrouble
         /\ trouble' = IF o = "ok" THEN trouble ELSE trouble + 1
         /\ out' = [out EXCEPT ![t] = o]
    /\ cur' = [cur EXCEPT ![t] = Effective]
    /\ Goes(t, "cool")
    /\ UNCHANGED <<slots, fails, oks, cooldown, next>>

\* The same when HGET fails: the error is logged and the configured limit counts.
AStartBlind(t) ==
    /\ phase[t] = "idle" /\ trouble < MaxTrouble /\ trouble' = trouble + 1
    /\ \E o \in Outcomes : out' = [out EXCEPT ![t] = o]
    /\ cur' = [cur EXCEPT ![t] = StartSlots]
    /\ Goes(t, "cool")
    /\ UNCHANGED <<slots, fails, oks, cooldown, next>>

\* In the cool-down nothing is counted; a failure that does not look like
\* saturation is not counted either.
ACool(t) ==
    /\ phase[t] = "cool"
    /\ Goes(t, IF cooldown \/ out[t] = "plain" THEN "idle" ELSE "count")
    /\ UNCHANGED <<slots, fails, oks, cooldown, cur, out, next, trouble>>

\* INCR of its own streak, whose new value decides ...
ACount(t) ==
    /\ phase[t] = "count"
    /\ IF out[t] = "ok" THEN oks' = Count(oks) /\ UNCHANGED fails
                        ELSE fails' = Count(fails) /\ UNCHANGED oks
    /\ next' = [next EXCEPT ![t] = Verdict(out[t], Count(IF out[t] = "ok" THEN oks ELSE fails),
                                           cur[t])]
    /\ Goes(t, "clear")
    /\ UNCHANGED <<slots, cooldown, cur, out, trouble>>

\* ... DEL of the other one ...
AClear(t) ==
    /\ phase[t] = "clear"
    /\ IF out[t] = "ok" THEN fails' = 0 /\ UNCHANGED oks
                        ELSE oks' = 0 /\ UNCHANGED fails
    /\ Goes(t, IF next[t] = 0 THEN "idle" ELSE "set")
    /\ UNCHANGED <<slots, cooldown, cur, out, next, trouble>>

\* ... and, if the limit changes: HSET, SETEX of the cool-down, DEL of the streak.
ASet(t) ==
    /\ phase[t] = "set"
    /\ slots' = next[t]
    /\ Goes(t, "arm")
    /\ UNCHANGED <<fails, oks, cooldown, cur, out, next, trouble>>

AArm(t) ==
    /\ phase[t] = "arm"
    /\ cooldown' = TRUE
    /\ Goes(t, "reset")
    /\ UNCHANGED <<slots, fails, oks, cur, out, next, trouble>>

AReset(t) ==
    /\ phase[t] = "reset"
    /\ IF out[t] = "ok" THEN oks' = 0 /\ UNCHANGED fails
                        ELSE fails' = 0 /\ UNCHANGED oks
    /\ Goes(t, "idle")
    /\ UNCHANGED <<slots, cooldown, cur, out, next, trouble>>

Trouble == trouble < MaxTrouble /\ trouble' = trouble + 1

\* Redis fails in the middle: the exception is logged and the rest is skipped.
ARedisError(t) ==
    /\ Trouble /\ phase[t] # "idle"
    /\ Goes(t, "idle")
    /\ UNCHANGED <<slots, fails, oks, cooldown, cur, out, next>>

CooldownEnds ==
    /\ cooldown /\ cooldown' = FALSE
    /\ UNCHANGED <<slots, fails, oks, phase, cur, out, next, trouble>>

\* The streak keys expire.
StreaksExpire ==
    /\ Trouble
    /\ fails' \in {0, fails} /\ oks' \in {0, oks}
    /\ UNCHANGED <<slots, cooldown, phase, cur, out, next>>

\* reset_circuit_breakers_for_new_batch: its pattern jump_host_adaptive:*
\* finds the streaks and the cool-down, not the hash with the limit.
NewBatch ==
    /\ Trouble
    /\ fails' = 0 /\ oks' = 0 /\ cooldown' = FALSE
    /\ UNCHANGED <<slots, phase, cur, out, next>>

Adapt(t) == ACool(t) \/ ACount(t) \/ AClear(t) \/ ASet(t) \/ AArm(t) \/ AReset(t)

AdaptNext ==
    \/ \E t \in Adapters : AStart(t) \/ AStartBlind(t) \/ Adapt(t) \/ ARedisError(t)
    \/ CooldownEnds \/ StreaksExpire \/ NewBatch

AdaptSpec == AdaptInit /\ [][AdaptNext]_adaptvars

\* Backups keep ending, a task that started to adapt goes on, time passes.
AdaptFairSpec ==
    /\ AdaptSpec
    /\ \A t \in Adapters : WF_adaptvars(AStart(t) \/ Adapt(t))
    /\ WF_adaptvars(CooldownEnds)

-----------------------------------------------------------------------------
(* Properties.                                                             *)

\* Every variable keeps the shape the code gives it.
AdaptTypeOK ==
    /\ slots \in 0 .. CeilingSlots /\ fails \in 0 .. Top /\ oks \in 0 .. Top
    /\ cooldown \in BOOLEAN /\ trouble \in 0 .. MaxTrouble
    /\ phase \in [Adapters -> {"idle", "cool", "count", "clear", "set", "arm", "reset"}]
    /\ cur \in [Adapters -> 1 .. CeilingSlots] /\ next \in [Adapters -> 0 .. CeilingSlots]
    /\ out \in [Adapters -> Outcomes]

AdaptedLimit == INSTANCE SlotLimit WITH limit <- Effective, First <- StartSlots,
                                        Ceiling <- CeilingSlots

\* Whatever tasks adapt at once, from whatever limits they read, and wherever
\* Redis fails: the limit a new task resolves is never 0, never above the
\* larger of the configured limit and base + boost.
LimitImplemented == AdaptedLimit!Spec

\* When failures stop, successes bring the limit back up to base + boost, also
\* after severe drops and concurrent changes.
Recovers == <>[](Effective >= AllowedMax)
=============================================================================
