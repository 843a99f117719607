---------------------------- MODULE JumpHostProofs ----------------------------
(***************************************************************************)
(* Slots of a jump host are exclusive, for any number of tasks and slots   *)
(* and any times, but for sessions that have outlived their lock; and the  *)
(* limit on them, adapted by any number of tasks at once, implements       *)
(* SlotLimit; the circuit breaker forgets what a reset met and opens on    *)
(* nothing but transport failures.                                         *)
(***************************************************************************)
EXTENDS JumpHostSlots, AdaptiveSlots, CircuitBreaker, FiniteSetTheorems, TLAPS

-----------------------------------------------------------------------------
(* The slots. *)

\* Where a task is in its round over the slots.
RoundOK ==
    \A t \in Tasks : /\ pc[t] = "try" => at[t] >= 1 /\ at[t] <= max[t] + 1
                     /\ pc[t] = "session" => at[t] <= Ceiling

\* The strengthening: a session owns its slot's live lock, which has run no
\* longer than the session, or it is late.
LockOrLate ==
    \A t \in Tasks : pc[t] = "session" /\ at[t] # 0 =>
        \/ /\ owner[at[t]] = t /\ ttl[at[t]] > 0
           /\ ttl[at[t]] + HardLimit >= left[t] + SlotTTL
        \/ Late(t)

SlotInv == TypeOK /\ RoundOK

\* The types and the rounds are kept by every step, whatever the times.
LEMMA SlotInvKept == SlotInv /\ [Next]_vars => SlotInv'
<1> SUFFICES ASSUME SlotInv, [Next]_vars PROVE SlotInv'
  OBVIOUS
<1> USE TimesAssumption, CeilingAssumption
    DEF SlotInv, TypeOK, RoundOK, Slots, Waiting, Go, lockvars, taskvars
<1>0. /\ Ceiling \in Nat
      /\ \A t \in Tasks : max[t] \in Nat /\ max[t] <= Ceiling /\ at[t] \in Nat
      /\ {0, 1} \subseteq 0 .. Ceiling + 1
  OBVIOUS
<1>1. ASSUME NEW t \in Tasks, Resolve(t) PROVE SlotInv'
  <2>1. 0 \in 0 .. Ceiling + 1 /\ HardLimit \in 0 .. HardLimit /\ Patience \in 0 .. Patience
    OBVIOUS
  <2>2. /\ max' \in [Tasks -> Slots] /\ at' \in [Tasks -> 0 .. Ceiling + 1]
        /\ left' \in [Tasks -> 0 .. HardLimit] /\ wait' \in [Tasks -> 0 .. Patience]
    BY <1>1, <2>1 DEF Resolve
  <2>3. TypeOK'
    BY <1>1, <2>2 DEF Resolve
  <2> QED
    BY <1>1, <2>3 DEF Resolve
<1>11. ASSUME NEW t \in Tasks, ResolveBlind(t) PROVE SlotInv'
  <2>1. First \in Slots /\ 0 \in 0 .. Ceiling + 1 /\ HardLimit \in 0 .. HardLimit /\ Patience \in 0 .. Patience
    OBVIOUS
  <2>2. /\ max' \in [Tasks -> Slots] /\ at' \in [Tasks -> 0 .. Ceiling + 1]
        /\ left' \in [Tasks -> 0 .. HardLimit] /\ wait' \in [Tasks -> 0 .. Patience]
    BY <1>11, <2>1 DEF ResolveBlind
  <2>3. TypeOK'
    BY <1>11, <2>2 DEF ResolveBlind
  <2> QED
    BY <1>11, <2>3 DEF ResolveBlind
<1>10. ASSUME NEW t \in Tasks, TryFails(t) PROVE SlotInv'
  <2>1. at[t] >= 1 /\ at[t] <= max[t] /\ at[t] \in Slots
    BY <1>0, <1>10 DEF TryFails
  <2>2. at[t] + 1 \in 0 .. Ceiling + 1 /\ at[t] + 1 <= max[t] + 1 /\ at[t] + 1 >= 1
    BY <1>0, <2>1
  <2>3. ttl' \in [Slots -> 0 .. SlotTTL] /\ owner' \in [Slots -> Tasks \cup {NoTask}]
    <3>1. SlotTTL \in 0 .. SlotTTL /\ NoTask \in Tasks \cup {NoTask}
      OBVIOUS
    <3>2. CASE UNCHANGED <<owner, ttl>>
      BY <3>2
    <3>3. CASE /\ owner' = [owner EXCEPT ![at[t]] = NoTask]
               /\ ttl' = [ttl EXCEPT ![at[t]] = SlotTTL]
      BY <2>1, <3>1, <3>3
    <3> QED
      BY <1>10, <3>2, <3>3 DEF TryFails
  <2>4. TypeOK'
    BY <1>10, <2>2, <2>3 DEF TryFails
  <2>5. RoundOK'
    BY <1>10, <2>2 DEF TryFails
  <2> QED
    BY <2>4, <2>5
<1>8. ASSUME NEW t \in Tasks, NoLock(t) PROVE SlotInv'
  <2>1. TypeOK'
    BY <1>8 DEF NoLock
  <2> QED
    BY <1>8, <2>1 DEF NoLock
<1>2. ASSUME NEW t \in Tasks, LoopTop(t) PROVE SlotInv'
  <2>1. TypeOK'
    BY <1>0, <1>2 DEF LoopTop
  <2> QED
    <3>1. CASE stop \/ wait[t] = 0
      BY <1>2, <2>1, <3>1 DEF LoopTop
    <3>2. CASE ~(stop \/ wait[t] = 0)
      <4>1. /\ pc' = [pc EXCEPT ![t] = "try"] /\ at' = [at EXCEPT ![t] = 1] /\ max' = max
        BY <1>2, <3>2 DEF LoopTop
      <4>2. RoundOK'
        BY <1>0, <4>1
      <4> QED
        BY <2>1, <4>2
    <3> QED
      BY <3>1, <3>2
<1>3. ASSUME NEW t \in Tasks, Try(t) PROVE SlotInv'
  <2>1. at[t] >= 1 /\ at[t] <= max[t] + 1
    BY <1>3 DEF Try
  <2>2. CASE at[t] <= max[t] /\ ttl[at[t]] = 0
    <3>1. /\ owner' = [owner EXCEPT ![at[t]] = t] /\ ttl' = [ttl EXCEPT ![at[t]] = SlotTTL]
          /\ pc' = [pc EXCEPT ![t] = "session"]
          /\ UNCHANGED <<limit, stop, max, at, left, wait>>
      BY <1>0, <1>3, <2>1, <2>2 DEF Try
    <3>2. TypeOK'
      <4>1. SlotTTL \in 0 .. SlotTTL
        OBVIOUS
      <4>2. ttl' \in [Slots -> 0 .. SlotTTL] /\ owner' \in [Slots -> Tasks \cup {NoTask}]
        BY <3>1, <4>1
      <4> QED
        BY <3>1, <4>2
    <3>3. \A u \in Tasks : pc'[u] = "try" => pc[u] = "try"
      BY <3>1
    <3>4. at[t] <= Ceiling
      BY <1>0, <2>2
    <3>5. RoundOK'
      BY <3>1, <3>3, <3>4
    <3> QED
      BY <3>2, <3>5
  <2>3. CASE at[t] <= max[t] /\ ttl[at[t]] > 0
    <3>1. /\ at' = [at EXCEPT ![t] = at[t] + 1]
          /\ UNCHANGED <<limit, owner, ttl, stop, pc, max, left, wait>>
      BY <1>0, <1>3, <2>1, <2>3 DEF Try
    <3>2. at[t] + 1 \in 0 .. Ceiling + 1 /\ at[t] + 1 <= max[t] + 1 /\ at[t] + 1 >= 1
      BY <1>0, <2>1, <2>3
    <3>3. TypeOK'
      BY <3>1, <3>2
    <3>4. RoundOK'
      BY <1>3, <3>1, <3>2 DEF Try
    <3> QED
      BY <3>3, <3>4
  <2>4. CASE at[t] > max[t]
    <3>1. /\ pc' = [pc EXCEPT ![t] = "sleep"] /\ at' = [at EXCEPT ![t] = 0]
          /\ UNCHANGED <<limit, owner, ttl, stop, max, left, wait>>
      BY <1>0, <1>3, <2>1, <2>4 DEF Try
    <3>2. TypeOK'
      BY <1>0, <3>1
    <3>3. RoundOK'
      BY <3>1
    <3> QED
      BY <3>2, <3>3
  <2>5. \/ at[t] <= max[t] /\ ttl[at[t]] = 0
        \/ at[t] <= max[t] /\ ttl[at[t]] > 0
        \/ at[t] > max[t]
    BY <1>3 DEF Try
  <2> QED
    BY <2>2, <2>3, <2>4, <2>5
<1>4. ASSUME NEW t \in Tasks, Sleep(t) PROVE SlotInv'
  BY <1>4 DEF Sleep
<1>5. ASSUME NEW t \in Tasks, SoftLimit(t) \/ Kill(t) PROVE SlotInv'
  <2>1. TypeOK'
    BY <1>0, <1>5 DEF SoftLimit, Kill
  <2> QED
    BY <1>5, <2>1 DEF SoftLimit, Kill
<1>9. ASSUME NEW t \in Tasks, Release(t) PROVE SlotInv'
  <2>1. ttl' \in [Slots -> 0 .. SlotTTL]
    BY <1>9 DEF Release
  <2>2. TypeOK'
    BY <1>9, <2>1 DEF Release
  <2> QED
    BY <1>9, <2>2 DEF Release
<1>6. CASE Tick
  BY <1>6 DEF Tick, Less
<1>7. CASE LimitChanges \/ StopChanges \/ UNCHANGED vars
  BY <1>7 DEF LimitChanges, StopChanges, Limit!Change, vars
<1> QED
  BY <1>1, <1>2, <1>3, <1>4, <1>5, <1>6, <1>7, <1>8, <1>9, <1>10, <1>11 DEF Next, Wait

LEMMA SlotInvInit == Init => SlotInv
<1> USE TimesAssumption, CeilingAssumption
<1>1. {0, 1} \subseteq 0 .. Ceiling + 1 /\ 1 \in 1 .. Ceiling
  OBVIOUS
<1>2. 0 \in 0 .. SlotTTL /\ 0 \in 0 .. HardLimit /\ 0 \in 0 .. Patience
  OBVIOUS
<1>3. Init => RoundOK
  BY DEF Init, RoundOK
<1>4. Init => limit \in Slots /\ stop \in BOOLEAN
  BY DEF Init, Limit!Init, Slots
<1>5. Init => /\ owner \in [Slots -> Tasks \cup {NoTask}] /\ ttl \in [Slots -> 0 .. SlotTTL]
              /\ max \in [Tasks -> Slots] /\ at \in [Tasks -> 0 .. Ceiling + 1]
  BY <1>1, <1>2 DEF Init, Slots
<1>6. Init => left \in [Tasks -> 0 .. HardLimit] /\ wait \in [Tasks -> 0 .. Patience]
  BY <1>2 DEF Init
<1> QED
  BY <1>3, <1>4, <1>5, <1>6 DEF Init, SlotInv, TypeOK

\* Every variable keeps its type.
THEOREM SlotTypes == Spec => []TypeOK
<1>1. SlotInv => TypeOK
  BY DEF SlotInv
<1> QED
  BY <1>1, SlotInvInit, SlotInvKept, PTL DEF Spec

\* A lock runs out under a session only when the session is late.
LEMMA LockKept ==
    ASSUME SlotInv, LockOrLate, [Next]_vars
    PROVE  LockOrLate'
<1> USE TimesAssumption, CeilingAssumption
    DEF SlotInv, TypeOK, RoundOK, Slots, Waiting, LockOrLate, Late, Go, lockvars, taskvars
<1>1. ASSUME NEW t \in Tasks, Resolve(t) \/ ResolveBlind(t) \/ NoLock(t) \/ LoopTop(t) \/ Sleep(t)
                               \/ SoftLimit(t) \/ Kill(t)
      PROVE  LockOrLate'
  BY <1>1 DEF Resolve, ResolveBlind, NoLock, LoopTop, Sleep, SoftLimit, Kill
<1>2. ASSUME NEW t \in Tasks, Try(t) PROVE LockOrLate'
  <2>1. CASE at[t] <= max[t] /\ ttl[at[t]] = 0
    <3>1. at[t] \in Slots
      BY <1>2, <2>1 DEF Try
    <3>2. \A u \in Tasks \ {t} : pc[u] = "session" /\ at[u] = at[t] => Late(u)
      <4> SUFFICES ASSUME NEW u \in Tasks, pc[u] = "session", at[u] = at[t] PROVE Late(u)
        OBVIOUS
      <4>1. at[u] # 0 /\ ~(ttl[at[u]] > 0)
        BY <2>1, <3>1
      <4> QED
        BY <4>1
    <3>3. /\ owner' = [owner EXCEPT ![at[t]] = t] /\ ttl' = [ttl EXCEPT ![at[t]] = SlotTTL]
          /\ pc' = [pc EXCEPT ![t] = "session"] /\ UNCHANGED <<at, left>>
      BY <1>2, <2>1, <3>1 DEF Try
    <3>4. owner'[at[t]] = t /\ ttl'[at[t]] > 0 /\ ttl'[at[t]] + HardLimit >= left[t] + SlotTTL
      BY <3>1, <3>3
    <3>5. \A u \in Tasks \ {t} : pc'[u] = "session" /\ at[u] # 0
            => \/ /\ owner'[at[u]] = u /\ ttl'[at[u]] > 0
                  /\ ttl'[at[u]] + HardLimit >= left[u] + SlotTTL
               \/ Late(u)
      BY <3>1, <3>2, <3>3
    <3> QED
      BY <3>3, <3>4, <3>5
  <2>2. CASE ~(at[t] <= max[t] /\ ttl[at[t]] = 0)
    BY <1>2, <2>2 DEF Try
  <2> QED
    BY <2>1, <2>2
<1>6. ASSUME NEW t \in Tasks, TryFails(t) PROVE LockOrLate'
  <2>1. pc[t] # "session" /\ at[t] \in Slots /\ UNCHANGED <<pc, left>>
        /\ at' = [at EXCEPT ![t] = @ + 1]
    BY <1>6 DEF TryFails
  <2>2. ASSUME NEW u \in Tasks, pc[u] = "session", at[u] # 0, ~Late(u)
        PROVE  /\ owner'[at[u]] = u /\ ttl'[at[u]] > 0
               /\ ttl'[at[u]] + HardLimit >= left[u] + SlotTTL
    <3>1. at[u] \in Slots /\ left[u] \in Nat
      BY <2>2
    <3>2. owner[at[u]] = u /\ ttl[at[u]] > 0 /\ ttl[at[u]] + HardLimit >= left[u] + SlotTTL
      BY <2>2
    <3>3. CASE UNCHANGED <<owner, ttl>>
      BY <3>2, <3>3
    <3>4. CASE /\ ttl[at[t]] = 0 /\ owner' = [owner EXCEPT ![at[t]] = NoTask]
               /\ ttl' = [ttl EXCEPT ![at[t]] = SlotTTL]
      <4>1. at[u] # at[t]
        BY <3>1, <3>2, <3>4
      <4> QED
        BY <2>1, <3>1, <3>2, <3>4, <4>1
    <3> QED
      BY <1>6, <3>3, <3>4 DEF TryFails
  <2> QED
    BY <2>1, <2>2
<1>3. ASSUME NEW t \in Tasks, Release(t) PROVE LockOrLate'
  <2>1. /\ pc' = [pc EXCEPT ![t] = "idle"] /\ at' = [at EXCEPT ![t] = 0]
        /\ UNCHANGED <<owner, left>>
    BY <1>3 DEF Release
  <2>2. ASSUME NEW u \in Tasks, u # t, pc[u] = "session", at[u] # 0, owner[at[u]] = u
        PROVE  ttl'[at[u]] = ttl[at[u]]
    <3>1. at[u] \in Slots
      BY <2>2
    <3>2. CASE at[t] # 0 /\ owner[at[t]] = t
      <4>1. at[u] # at[t] /\ ttl' = [ttl EXCEPT ![at[t]] = 0]
        BY <1>3, <2>2, <3>2 DEF Release
      <4> QED
        BY <3>1, <4>1
    <3>3. CASE ~(at[t] # 0 /\ owner[at[t]] = t)
      BY <1>3, <3>3 DEF Release
    <3> QED
      BY <3>2, <3>3
  <2> QED
    BY <2>1, <2>2
<1>4. CASE Tick
  <2> SUFFICES ASSUME NEW t \in Tasks, pc[t] = "session", at[t] # 0
               PROVE  \/ /\ owner[at[t]] = t /\ ttl'[at[t]] > 0
                         /\ ttl'[at[t]] + HardLimit >= left'[t] + SlotTTL
                      \/ left'[t] + SlotTTL <= HardLimit
    BY <1>4 DEF Tick
  <2>1. /\ at[t] \in Slots /\ left[t] \in Nat /\ ttl[at[t]] \in Nat
        /\ SlotTTL \in Nat /\ HardLimit \in Nat
    OBVIOUS
  <2>2. left'[t] = left[t] - 1 /\ left[t] > 0
    BY <1>4, <2>1 DEF Tick, Less
  <2>3. ttl'[at[t]] = IF ttl[at[t]] = 0 THEN 0 ELSE ttl[at[t]] - 1
    BY <1>4, <2>1 DEF Tick, Less
  <2>4. CASE Late(t)
    BY <2>1, <2>2, <2>4
  <2>5. CASE ~Late(t)
    <3>1. owner[at[t]] = t /\ ttl[at[t]] > 0 /\ ttl[at[t]] + HardLimit >= left[t] + SlotTTL
      BY <2>5
    <3> HIDE DEF TypeOK, SlotInv, RoundOK, LockOrLate
    <3>2. CASE ttl[at[t]] > 1
      BY <2>1, <2>2, <2>3, <3>1, <3>2
    <3>3. CASE ttl[at[t]] = 1
      BY <2>1, <2>2, <2>3, <3>1, <3>3
    <3> QED
      BY <2>1, <3>1, <3>2, <3>3
  <2> QED
    BY <2>4, <2>5
<1>5. CASE LimitChanges \/ StopChanges \/ UNCHANGED vars
  BY <1>5 DEF LimitChanges, StopChanges, vars
<1> QED
  BY <1>1, <1>2, <1>3, <1>4, <1>5, <1>6 DEF Next, Wait

\* What the slots promise, whatever the times: two tasks run a session in the
\* same slot only when one of them has outlived its lock, for any number of
\* tasks and slots, and whoever is killed, stopped or late.
THEOREM SlotsExclusive == Spec => []OneSessionPerSlot
<1> DEFINE Inv == SlotInv /\ LockOrLate
<1>1. Init => Inv
  BY SlotInvInit DEF Init, LockOrLate
<1>2. Inv /\ [Next]_vars => Inv'
  BY SlotInvKept, LockKept
<1>3. Inv => OneSessionPerSlot
  BY DEF OneSessionPerSlot, LockOrLate
<1> QED
  BY <1>1, <1>2, <1>3, PTL DEF Spec

\* No slot is shared at all.
NeverShared ==
    \A t, u \in Tasks :
        pc[t] = "session" /\ pc[u] = "session" /\ at[t] # 0 /\ at[t] = at[u] => t = u

\* If a slot's lock lives longer than the hard limit of a task (1200 s and 540 s
\* by default), two tasks never run a session in the same slot.
THEOREM SlotsNeverShared == SlotTTL > HardLimit => (Spec => []NeverShared)
<1> SUFFICES ASSUME SlotTTL > HardLimit PROVE Spec => []NeverShared
  OBVIOUS
<1>1. TypeOK /\ OneSessionPerSlot => NeverShared
  BY TimesAssumption DEF TypeOK, OneSessionPerSlot, NeverShared, Late
<1> QED
  BY <1>1, SlotTypes, SlotsExclusive, PTL

\* A session is in a slot its task may use.
AtMostMax == \A t \in Tasks : pc[t] = "session" /\ at[t] # 0 => at[t] <= max[t]

\* A slot above the limit its task resolved is never tried.
LEMMA MaxKept ==
    ASSUME SlotInv, AtMostMax, [Next]_vars
    PROVE  AtMostMax'
<1> USE DEF SlotInv, TypeOK, AtMostMax, Go
<1>1. ASSUME NEW t \in Tasks, Try(t) PROVE AtMostMax'
  <2>1. CASE at[t] <= max[t] /\ pc' = [pc EXCEPT ![t] = "session"] /\ at' = at
    BY <1>1, <2>1 DEF Try
  <2>2. CASE pc' = pc /\ at' = [at EXCEPT ![t] = at[t] + 1]
    BY <1>1, <2>2 DEF Try
  <2>3. CASE pc' = [pc EXCEPT ![t] = "sleep"] /\ at' = [at EXCEPT ![t] = 0]
    BY <1>1, <2>3 DEF Try
  <2> QED
    BY <1>1, <2>1, <2>2, <2>3 DEF Try
<1>2. ASSUME NEW t \in Tasks, \/ Resolve(t) \/ ResolveBlind(t) \/ NoLock(t) \/ LoopTop(t) \/ Sleep(t)
                              \/ TryFails(t) \/ Release(t) \/ SoftLimit(t) \/ Kill(t)
      PROVE  AtMostMax'
  BY <1>2 DEF Resolve, ResolveBlind, NoLock, LoopTop, Sleep, TryFails, Release, SoftLimit, Kill
<1>3. CASE Tick \/ LimitChanges \/ StopChanges \/ UNCHANGED vars
  BY <1>3 DEF Tick, LimitChanges, StopChanges, vars, taskvars
<1> QED
  BY <1>1, <1>2, <1>3 DEF Next, Wait

\* The sessions in a slot, on time, of the tasks that resolved a limit of at most n.
InSlots(n) == {t \in Tasks : pc[t] = "session" /\ at[t] # 0 /\ max[t] <= n /\ ~Late(t)}

SessionsBounded == \A n \in Slots : IsFiniteSet(InSlots(n)) /\ Cardinality(InSlots(n)) <= n

\* What the slots are for: of the tasks that were told a limit of at most n, no more
\* than n run a session in a slot at once, but for those that have outlived their locks;
\* for any number of tasks, whatever the limit was in between and whoever was killed.
THEOREM SessionsWithinLimit == Spec => []SessionsBounded
<1> DEFINE Inv == SlotInv /\ AtMostMax
<1>1. Init => Inv
  BY SlotInvInit DEF Init, AtMostMax
<1>2. Inv /\ [Next]_vars => Inv'
  BY SlotInvKept, MaxKept
<1>3. ASSUME Inv, OneSessionPerSlot, NEW n \in Slots
      PROVE  IsFiniteSet(InSlots(n)) /\ Cardinality(InSlots(n)) <= n
  <2> DEFINE slot == [t \in InSlots(n) |-> at[t]]
  <2>1. n \in Int /\ n >= 1
    BY CeilingAssumption DEF Slots
  <2>2. ASSUME NEW t \in InSlots(n) PROVE at[t] \in 1 .. n
    <3>1. at[t] \in Nat /\ max[t] \in Nat /\ at[t] # 0 /\ at[t] <= max[t] /\ max[t] <= n
      BY <1>3, CeilingAssumption DEF SlotInv, TypeOK, AtMostMax, InSlots, Slots
    <3> QED
      BY <2>1, <3>1
  <2>3. \A t, u \in InSlots(n) : at[t] = at[u] => t = u
    BY <1>3 DEF OneSessionPerSlot, InSlots
  <2>4. slot \in Injection(InSlots(n), 1 .. n)
    BY <2>2, <2>3 DEF Injection, IsInjective
  <2>5. IsFiniteSet(1 .. n) /\ Cardinality(1 .. n) = n
    BY <2>1, FS_Interval
  <2> HIDE DEF slot
  <2> QED
    BY <2>4, <2>5, FS_Injection
<1>4. Inv /\ OneSessionPerSlot => SessionsBounded
  BY <1>3 DEF SessionsBounded
<1> QED
  BY <1>1, <1>2, <1>4, SlotsExclusive, PTL DEF Spec

\* A step touches a live lock only by letting time pass, or by the hand of the
\* task that owns it.
LEMMA LiveLockStep ==
    ASSUME SlotInv, [Next]_vars, NEW t \in Tasks, NEW s \in Slots, s = at[t],
           pc[t] = "session", owner[s] = t, ttl[s] > 1, pc'[t] = "session"
    PROVE  owner'[s] = t /\ ttl'[s] >= ttl[s] - 1
<1> USE DEF SlotInv, TypeOK, Go
<1>0. ttl[s] \in Nat
  BY TimesAssumption
<1>1. ASSUME UNCHANGED <<owner, ttl>> PROVE owner'[s] = t /\ ttl'[s] >= ttl[s] - 1
  BY <1>0, <1>1
<1>2. ASSUME NEW u \in Tasks, Try(u) PROVE owner'[s] = t /\ ttl'[s] >= ttl[s] - 1
  <2>1. CASE at[u] <= max[u] /\ ttl[at[u]] = 0
    <3>1. at[u] # s
      BY <2>1
    <3>2. /\ owner' = [owner EXCEPT ![at[u]] = u] /\ ttl' = [ttl EXCEPT ![at[u]] = SlotTTL]
      <4>1. at[u] \in Nat /\ max[u] \in Nat
        BY CeilingAssumption DEF Slots
      <4> QED
        BY <1>2, <2>1, <4>1 DEF Try
    <3>3. owner'[s] = owner[s] /\ ttl'[s] = ttl[s]
      BY <3>1, <3>2
    <3> QED
      BY <1>0, <3>3
  <2>2. CASE ~(at[u] <= max[u] /\ ttl[at[u]] = 0)
    BY <1>1, <1>2, <2>2 DEF Try, lockvars
  <2> QED
    BY <2>1, <2>2
<1>3. ASSUME NEW u \in Tasks, TryFails(u) PROVE owner'[s] = t /\ ttl'[s] >= ttl[s] - 1
  <2>1. CASE ttl[at[u]] = 0 /\ owner' = [owner EXCEPT ![at[u]] = NoTask]
             /\ ttl' = [ttl EXCEPT ![at[u]] = SlotTTL]
    <3>1. at[u] # s
      BY <2>1
    <3>2. owner'[s] = owner[s] /\ ttl'[s] = ttl[s]
      BY <2>1, <3>1
    <3> QED
      BY <1>0, <3>2
  <2> QED
    BY <1>1, <1>3, <2>1 DEF TryFails, lockvars
<1>4. ASSUME NEW u \in Tasks, Release(u) PROVE owner'[s] = t /\ ttl'[s] >= ttl[s] - 1
  <2>1. u # t
    BY <1>4 DEF Release
  <2>2. CASE at[u] # 0 /\ owner[at[u]] = u
    <3>1. at[u] # s /\ ttl' = [ttl EXCEPT ![at[u]] = 0] /\ owner' = owner
      BY <1>4, <2>1, <2>2 DEF Release
    <3>2. owner'[s] = owner[s] /\ ttl'[s] = ttl[s]
      BY <3>1
    <3> QED
      BY <1>0, <3>2
  <2>3. CASE ~(at[u] # 0 /\ owner[at[u]] = u)
    BY <1>1, <1>4, <2>3 DEF Release
  <2> QED
    BY <2>2, <2>3
<1>5. ASSUME Tick PROVE owner'[s] = t /\ ttl'[s] >= ttl[s] - 1
  <2>1. ttl'[s] = ttl[s] - 1 /\ owner' = owner
    BY <1>0, <1>5 DEF Tick, Less
  <2> QED
    BY <1>0, <2>1
<1>6. ASSUME NEW u \in Tasks, \/ Resolve(u) \/ ResolveBlind(u) \/ NoLock(u) \/ LoopTop(u)
                              \/ Sleep(u) \/ SoftLimit(u) \/ Kill(u)
      PROVE  UNCHANGED <<owner, ttl>>
  BY <1>6 DEF Resolve, ResolveBlind, NoLock, LoopTop, Sleep, SoftLimit, Kill, lockvars
<1>7. LimitChanges \/ StopChanges \/ UNCHANGED vars => UNCHANGED <<owner, ttl>>
  BY DEF LimitChanges, StopChanges, vars, lockvars
<1> QED
  BY <1>1, <1>2, <1>3, <1>4, <1>5, <1>6, <1>7 DEF Next, Wait

\* Whatever the times and however late a session is, nobody else takes, frees or
\* shortens the lock it still owns: its TTL is all it has to fear.
THEOREM LockIsOwn == Spec => LiveLockKept
<1>1. ASSUME SlotInv, [Next]_vars, NEW t \in Tasks, pc[t] = "session", at[t] # 0,
             owner[at[t]] = t, ttl[at[t]] > 1, pc'[t] = "session"
      PROVE  owner'[at[t]] = t /\ ttl'[at[t]] >= ttl[at[t]] - 1
  <2>1. at[t] \in Slots
    BY <1>1, CeilingAssumption DEF SlotInv, TypeOK, RoundOK, Slots
  <2> QED
    BY <1>1, <2>1, LiveLockStep
<1>2. SlotInv /\ [Next]_vars =>
        \A t \in Tasks :
          LET s == at[t] IN
          pc[t] = "session" /\ s # 0 /\ owner[s] = t /\ ttl[s] > 1 /\ pc'[t] = "session"
             => owner'[s] = t /\ ttl'[s] >= ttl[s] - 1
  BY <1>1
<1> QED
  BY <1>2, SlotInvInit, SlotInvKept, PTL DEF Spec, LiveLockKept

-----------------------------------------------------------------------------
(* The limit: AdaptiveSlots. *)

\* A task about to write a limit has one to write.
HasLimit == \A t \in Adapters : phase[t] = "set" => next[t] >= 1

AdaptInv == AdaptTypeOK /\ HasLimit

LEMMA CeilingFacts ==
    /\ StartSlots \in 1 .. 16 /\ AllowedMax \in 1 .. 16 /\ CeilingSlots \in 1 .. 16
    /\ StartSlots <= CeilingSlots /\ AllowedMax <= CeilingSlots
<1>1. StartSlots \in 1 .. 16
  BY SlotsAssumption DEF StartSlots
<1>2. AllowedMax \in 1 .. 16
  BY SlotsAssumption DEF AllowedMax, AtLeast1, AtMost16
<1> QED
  BY <1>1, <1>2 DEF CeilingSlots

\* The counters saturate at their largest threshold.
LEMMA CountType == Top \in Nat \ {0} /\ \A n \in 0 .. Top : Count(n) \in 0 .. Top
<1>1. Top \in Nat \ {0}
  BY SlotsAssumption DEF Top
<1> QED
  BY <1>1 DEF Count, Lower

\* What a task decides to write, from any limit it may have read.
LEMMA VerdictType ==
    ASSUME NEW o \in Outcomes, NEW n \in Nat, NEW have \in 1 .. CeilingSlots
    PROVE  Verdict(o, n, have) \in 0 .. CeilingSlots
<1> USE CeilingFacts, SlotsAssumption
<1> DEFINE severe == o = "severe" /\ n >= SevereStreak
<1>1. CASE o = "ok" /\ n >= SuccessStreak /\ have < AllowedMax
  BY <1>1 DEF Verdict, Lower
<1>2. CASE o # "ok" /\ have > 1 /\ severe
  BY <1>2 DEF Verdict
<1>3. CASE o # "ok" /\ have > 1 /\ ~severe /\ n >= FailStreak
  BY <1>3 DEF Verdict
<1>4. CASE /\ ~(o = "ok" /\ n >= SuccessStreak /\ have < AllowedMax)
           /\ ~(o # "ok" /\ have > 1 /\ severe)
           /\ ~(o # "ok" /\ have > 1 /\ ~severe /\ n >= FailStreak)
  BY <1>4 DEF Verdict
<1> QED
  BY <1>1, <1>2, <1>3, <1>4

\* What a new task resolves is in range whenever the hash is.
LEMMA EffectiveType ==
    ASSUME slots \in 0 .. CeilingSlots
    PROVE  Effective \in 1 .. CeilingSlots
  BY CeilingFacts DEF Effective, AtLeast1, AtMost16

LEMMA AdaptKept == AdaptInv /\ [AdaptNext]_adaptvars => AdaptInv'
<1> SUFFICES ASSUME AdaptInv, [AdaptNext]_adaptvars PROVE AdaptInv'
  OBVIOUS
<1> USE DEF AdaptInv, AdaptTypeOK, HasLimit, Goes
<1>0. MaxTrouble \in Nat /\ CeilingSlots \in Nat
  BY SlotsAssumption, CeilingFacts
<1>1. ASSUME NEW t \in Adapters, AStart(t) PROVE AdaptInv'
  <2>1. Effective \in 1 .. CeilingSlots
    BY EffectiveType
  <2>2. cur' \in [Adapters -> 1 .. CeilingSlots]
    BY <1>1, <2>1 DEF AStart
  <2>3. trouble' \in 0 .. MaxTrouble /\ out' \in [Adapters -> Outcomes]
    BY <1>0, <1>1 DEF AStart
  <2> QED
    BY <1>1, <2>2, <2>3 DEF AStart
<1>13. ASSUME NEW t \in Adapters, AStartBlind(t) PROVE AdaptInv'
  <2>1. cur' \in [Adapters -> 1 .. CeilingSlots]
    BY <1>13, CeilingFacts DEF AStartBlind
  <2>2. trouble' \in 0 .. MaxTrouble /\ out' \in [Adapters -> Outcomes]
    BY <1>0, <1>13 DEF AStartBlind
  <2> QED
    BY <1>13, <2>1, <2>2 DEF AStartBlind
<1>2. ASSUME NEW t \in Adapters, ACool(t) PROVE AdaptInv'
  BY <1>2 DEF ACool
<1>3. ASSUME NEW t \in Adapters, ACount(t) PROVE AdaptInv'
  <2> DEFINE n == Count(IF out[t] = "ok" THEN oks ELSE fails)
  <2>1. n \in Nat /\ fails' \in 0 .. Top /\ oks' \in 0 .. Top
    BY <1>3, CountType DEF ACount
  <2>2. Verdict(out[t], n, cur[t]) \in 0 .. CeilingSlots
    BY <2>1, VerdictType
  <2>3. next' \in [Adapters -> 0 .. CeilingSlots]
    BY <1>3, <2>2 DEF ACount
  <2>4. \A u \in Adapters : phase'[u] = "set" => phase[u] = "set" /\ next'[u] = next[u]
    BY <1>3 DEF ACount
  <2> QED
    BY <1>3, <2>1, <2>3, <2>4 DEF ACount
<1>4. ASSUME NEW t \in Adapters, AClear(t) PROVE AdaptInv'
  <2>1. fails' \in 0 .. Top /\ oks' \in 0 .. Top
    BY <1>4, CountType DEF AClear
  <2>2. next[t] = 0 \/ next[t] >= 1
    BY <1>0
  <2> QED
    BY <1>4, <2>1, <2>2 DEF AClear
<1>5. ASSUME NEW t \in Adapters, ASet(t) \/ AArm(t) PROVE AdaptInv'
  <2>1. CASE ASet(t)
    <3>1. slots' \in 0 .. CeilingSlots /\ phase' = [phase EXCEPT ![t] = "arm"]
      BY <2>1 DEF ASet
    <3>2. AdaptTypeOK'
      BY <2>1, <3>1 DEF ASet
    <3> QED
      BY <2>1, <3>1, <3>2 DEF ASet
  <2>2. CASE AArm(t)
    <3>1. cooldown' \in BOOLEAN /\ phase' = [phase EXCEPT ![t] = "reset"]
      BY <2>2 DEF AArm
    <3>2. AdaptTypeOK'
      BY <2>2, <3>1 DEF AArm
    <3> QED
      BY <2>2, <3>1, <3>2 DEF AArm
  <2> QED
    BY <1>5, <2>1, <2>2
<1>6. ASSUME NEW t \in Adapters, AReset(t) PROVE AdaptInv'
  <2>1. fails' \in 0 .. Top /\ oks' \in 0 .. Top
    BY <1>6, CountType DEF AReset
  <2> QED
    BY <1>6, <2>1 DEF AReset
<1>7. Trouble => trouble' \in 0 .. MaxTrouble
  BY <1>0 DEF Trouble
<1>8. ASSUME NEW t \in Adapters, ARedisError(t) PROVE AdaptInv'
  BY <1>7, <1>8 DEF ARedisError
<1>9. CASE CooldownEnds
  BY <1>9 DEF CooldownEnds
<1>10. CASE StreaksExpire
  BY <1>7, <1>10, CountType DEF StreaksExpire
<1>11. CASE NewBatch
  <2>1. 0 \in 0 .. Top
    BY CountType
  <2> QED
    BY <1>7, <1>11, <2>1 DEF NewBatch
<1>12. CASE UNCHANGED adaptvars
  BY <1>12 DEF adaptvars
<1> QED
  BY <1>1, <1>2, <1>3, <1>4, <1>5, <1>6, <1>8, <1>9, <1>10, <1>11, <1>12, <1>13
  DEF AdaptNext, Adapt

LEMMA AdaptStarts == AdaptInit => AdaptInv
<1>1. 0 \in 0 .. Top /\ 0 \in 0 .. MaxTrouble
  BY CountType, SlotsAssumption
<1>2. 0 \in 0 .. CeilingSlots /\ 1 \in 0 .. CeilingSlots /\ 1 \in 1 .. CeilingSlots
  BY CeilingFacts
<1> QED
  BY <1>1, <1>2 DEF AdaptInit, AdaptInv, AdaptTypeOK, HasLimit, Outcomes

\* Every variable keeps its type, for any thresholds and any number of tasks.
THEOREM AdaptTypes == AdaptSpec => []AdaptTypeOK
<1>1. AdaptInv => AdaptTypeOK
  BY DEF AdaptInv
<1> QED
  BY <1>1, AdaptStarts, AdaptKept, PTL DEF AdaptSpec

\* _adapt_jump_host_slots, run by any number of tasks at once, implements
\* SlotLimit: the limit starts as configured and every change of it stays
\* between 1 and the ceiling.
THEOREM LimitRefinement == AdaptSpec => LimitImplemented
<1>1. AdaptInit => AdaptedLimit!Init
  BY CeilingFacts, SlotsAssumption DEF AdaptInit, AdaptedLimit!Init, Effective, AtLeast1, AtMost16
<1>2. AdaptInv /\ AdaptInv' /\ [AdaptNext]_adaptvars => [AdaptedLimit!Change]_Effective
  <2> SUFFICES ASSUME AdaptInv' PROVE Effective' \in 1 .. CeilingSlots
    BY DEF AdaptedLimit!Change
  <2>1. slots' \in 0 .. CeilingSlots
    BY DEF AdaptInv, AdaptTypeOK
  <2> QED
    BY <2>1, CeilingFacts DEF Effective, AtLeast1, AtMost16
<1> QED
  BY <1>1, <1>2, AdaptStarts, AdaptKept, PTL DEF AdaptSpec, LimitImplemented, AdaptedLimit!Spec

-----------------------------------------------------------------------------
(* The circuit breaker: CircuitBreaker. *)

\* A task that is not between its reading and its verdict holds no entries.
SnapInCheck == \A t \in Callers : stage[t] \notin {"prune", "judge"} => snap[t] = {}

\* Unless a check was under way at the reset, nothing of before it is left.
OldForgotten == ~dirty => outcomes \cap old = {} /\ \A t \in Callers : snap[t] \cap old = {}

BreakerInv == BreakerTypeOK /\ SnapInCheck /\ OldForgotten

LEMMA BreakerStarts == BreakerInit => BreakerInv
<1> SUFFICES ASSUME BreakerInit PROVE BreakerInv
  OBVIOUS
<1>1. BreakerTypeOK
  <2>1. open \in 0 .. OpenTTL /\ age \in [Entries -> 0 .. Window + 1] /\ resets \in 0 .. MaxResets
    BY LimitsAssumption DEF BreakerInit
  <2>2. dirty \in BOOLEAN
    BY Zenon DEF BreakerInit
  <2> QED
    BY <2>1, <2>2 DEF BreakerInit, BreakerTypeOK, AllKinds
<1>2. SnapInCheck /\ OldForgotten
  BY DEF BreakerInit, SnapInCheck, OldForgotten
<1> QED
  BY <1>1, <1>2 DEF BreakerInv

LEMMA BreakerKept == BreakerInv /\ [BreakerNext]_breakervars => BreakerInv'
<1> SUFFICES ASSUME BreakerInv, [BreakerNext]_breakervars PROVE BreakerInv'
  OBVIOUS
<1> USE LimitsAssumption DEF BreakerInv, BreakerTypeOK, SnapInCheck, OldForgotten, GoOn, entryvars, resetvars
<1>0. Used \subseteq Entries
  BY DEF Used
<1>1. ASSUME NEW t \in Callers, CheckOpen(t) PROVE BreakerInv'
  BY <1>1 DEF CheckOpen
<1>2. ASSUME NEW t \in Callers, Refused(t) PROVE BreakerInv'
  BY <1>2 DEF Refused
<1>3. ASSUME NEW t \in Callers, CheckList(t) PROVE BreakerInv'
  BY <1>3 DEF CheckList
<1>4. ASSUME NEW t \in Callers, Prune(t) PROVE BreakerInv'
  BY <1>4 DEF Prune
<1>5. ASSUME NEW t \in Callers, Judge(t) PROVE BreakerInv'
  BY <1>5 DEF Judge
<1>6. ASSUME NEW t \in Callers, Record(t) PROVE BreakerInv'
  <2>1. PICK k \in Kinds : IF Recorded(k) = "none" THEN UNCHANGED <<outcomes, kind, age, old>>
         ELSE \E e \in Entries \ Used :
                /\ outcomes' = outcomes \cup {e} /\ old' = old \ {e}
                /\ kind' = [kind EXCEPT ![e] = k] /\ age' = [age EXCEPT ![e] = 0]
    BY <1>6 DEF Record
  <2>2. CASE Recorded(k) = "none"
    BY <1>6, <2>1, <2>2 DEF Record
  <2>3. CASE Recorded(k) # "none"
    <3>1. PICK e \in Entries \ Used :
             /\ outcomes' = outcomes \cup {e} /\ old' = old \ {e}
             /\ kind' = [kind EXCEPT ![e] = k] /\ age' = [age EXCEPT ![e] = 0]
      BY <2>1, <2>3
    <3>2. k \in AllKinds
      BY KindsAssumption
    <3> QED
      BY <1>6, <3>1, <3>2 DEF Record
  <2> QED
    BY <2>2, <2>3
<1>7. ASSUME NEW t \in Callers, CheckFails(t) PROVE BreakerInv'
  BY <1>7 DEF CheckFails
<1>8. ASSUME NEW t \in Callers, RecordFails(t) PROVE BreakerInv'
  BY <1>8 DEF RecordFails
<1>9. ASSUME ResetOpen PROVE BreakerInv'
  BY <1>9 DEF ResetOpen
<1>10. ASSUME ResetOutcomes PROVE BreakerInv'
  BY <1>0, <1>10 DEF ResetOutcomes
<1>11. ASSUME BreakerTick PROVE BreakerInv'
  <2>1. \A e \in Entries : age'[e] \in 0 .. Window + 1 /\ kind'[e] \in AllKinds
    BY <1>11 DEF BreakerTick, Valid, AllKinds
  <2>2. age' \in [Entries -> 0 .. Window + 1] /\ kind' \in [Entries -> AllKinds]
    BY <1>11, <2>1 DEF BreakerTick
  <2>3. open' \in 0 .. OpenTTL
    BY <1>11 DEF BreakerTick
  <2> QED
    BY <1>11, <2>2, <2>3 DEF BreakerTick
<1>12. ASSUME ListExpires PROVE BreakerInv'
  BY <1>12 DEF ListExpires
<1>13. ASSUME UNCHANGED breakervars PROVE BreakerInv'
  BY <1>13 DEF breakervars
<1> QED
  BY <1>1, <1>2, <1>3, <1>4, <1>5, <1>6, <1>7, <1>8, <1>9, <1>10, <1>11, <1>12, <1>13 DEF BreakerNext, Task

\* Every reachable state has the declared types.
THEOREM BreakerTypes == BreakerSpec => []BreakerTypeOK
<1>1. BreakerInv => BreakerTypeOK
  BY DEF BreakerInv
<1> QED
  BY BreakerStarts, BreakerKept, <1>1, PTL DEF BreakerSpec

\* After a reset that met no check in flight the breaker never opens on an
\* outcome of a batch before it, whatever tasks read, prune and record since.
THEOREM ResetForgets == BreakerSpec => ResetClean
<1>1. BreakerInv => \A t \in Callers : Opens(t) /\ ~dirty => snap[t] \cap old = {}
  BY DEF BreakerInv, OldForgotten
<1> QED
  BY BreakerStarts, BreakerKept, <1>1, PTL DEF BreakerSpec, ResetClean

\* The entry found in a table is the first whose word is among those searched.
LEMMA FirstHit ==
    ASSUME NEW table, NEW words, NEW n \in Nat, DOMAIN table = 1 .. n,
           NEW i \in 1 .. n, table[i][1] \in words,
           \A j \in 1 .. n : table[j][1] \in words => i <= j
    PROVE  Hits(table, words) # {} /\ FirstOf(Hits(table, words)) = i
<1> DEFINE hits == Hits(table, words)
<1>1. i \in hits /\ \A j \in hits : i <= j
  BY DEF Hits
<1>2. hits \subseteq Nat
  BY DEF Hits
<1> HIDE DEF hits
<1> DEFINE first == CHOOSE h \in hits : \A j \in hits : h <= j
<1>3. first \in hits /\ \A j \in hits : first <= j
  BY <1>1
<1>4. FirstOf(hits) = first
  BY DEF FirstOf
<1> HIDE DEF first
<1>5. first \in Nat /\ i \in Nat /\ first <= i /\ i <= first
  BY <1>1, <1>2, <1>3
<1>6. first = i
  BY <1>5
<1> QED
  BY <1>1, <1>4, <1>6 DEF hits

\* The words of the two tables.
LEMMA PatternWords ==
    /\ DOMAIN FRIENDLY_ERROR_PATTERNS = 1 .. 8
    /\ \A j \in 1 .. 8 : FRIENDLY_ERROR_PATTERNS[j][1] # "script"
    /\ \A j \in 1 .. 4 : FRIENDLY_ERROR_PATTERNS[j][1] # "login refused"
    /\ FRIENDLY_ERROR_PATTERNS[1][1] = "cipher"
    /\ FRIENDLY_ERROR_PATTERNS[2][1] = "banner"
    /\ FRIENDLY_ERROR_PATTERNS[2][2] = {"protocol name"}
    /\ FRIENDLY_ERROR_PATTERNS[5][1] = "login refused"
    /\ FRIENDLY_ERROR_PATTERNS[5][2] = {"auth"}
<1>1. /\ FRIENDLY_ERROR_PATTERNS[1][1] = "cipher" /\ FRIENDLY_ERROR_PATTERNS[2][1] = "banner"
      /\ FRIENDLY_ERROR_PATTERNS[3][1] = "refused" /\ FRIENDLY_ERROR_PATTERNS[4][1] = "unreachable"
  BY DEF FRIENDLY_ERROR_PATTERNS
<1>2. /\ FRIENDLY_ERROR_PATTERNS[5][1] = "login refused"
      /\ FRIENDLY_ERROR_PATTERNS[6][1] = "no prompt"
      /\ FRIENDLY_ERROR_PATTERNS[7][1] = "timeout" /\ FRIENDLY_ERROR_PATTERNS[8][1] = "closed"
  BY DEF FRIENDLY_ERROR_PATTERNS
<1>3. \A j \in 1 .. 8 : j = 1 \/ j = 2 \/ j = 3 \/ j = 4 \/ j = 5 \/ j = 6 \/ j = 7 \/ j = 8
  OBVIOUS
<1>4. \A j \in 1 .. 8 : FRIENDLY_ERROR_PATTERNS[j][1] # "script"
  BY <1>1, <1>2, <1>3
<1>5. \A j \in 1 .. 4 : j = 1 \/ j = 2 \/ j = 3 \/ j = 4
  OBVIOUS
<1>6. \A j \in 1 .. 4 : FRIENDLY_ERROR_PATTERNS[j][1] # "login refused"
  BY <1>1, <1>5
<1>7. DOMAIN FRIENDLY_ERROR_PATTERNS = 1 .. 8
  BY DEF FRIENDLY_ERROR_PATTERNS
<1>8. FRIENDLY_ERROR_PATTERNS[2][2] = {"protocol name"}
  BY DEF FRIENDLY_ERROR_PATTERNS
<1>9. FRIENDLY_ERROR_PATTERNS[5][2] = {"auth"}
  BY DEF FRIENDLY_ERROR_PATTERNS
<1> QED
  BY <1>1, <1>2, <1>4, <1>6, <1>7, <1>8, <1>9

LEMMA MarkerWords ==
    /\ DOMAIN MarkerOrder = 1 .. 11
    /\ MarkerOrder[1][1] = "breaker"
    /\ MarkerOrder[2][1] = "banner" /\ MarkerOrder[2][2] = "banner_timeout"
    /\ \A j \in 1 .. 8 : MarkerOrder[j][1] # "auth"
    /\ MarkerOrder[9][1] = "auth" /\ MarkerOrder[9][2] = "auth"
    /\ \A j \in 1 .. 10 : MarkerOrder[j][1] # "script"
    /\ MarkerOrder[11][1] = "script" /\ MarkerOrder[11][2] = "script"
<1>1. /\ MarkerOrder[1][1] = "breaker" /\ MarkerOrder[2][1] = "banner"
      /\ MarkerOrder[3][1] = "session closed" /\ MarkerOrder[4][1] = "timeout"
  BY DEF MarkerOrder
<1>2. /\ MarkerOrder[5][1] = "port closed to us" /\ MarkerOrder[6][1] = "refused"
      /\ MarkerOrder[7][1] = "protocol name" /\ MarkerOrder[8][1] = "no ping"
  BY DEF MarkerOrder
<1>3. MarkerOrder[9][1] = "auth" /\ MarkerOrder[10][1] = "vpn"
  BY DEF MarkerOrder
<1>4. \A j \in 1 .. 8 : j = 1 \/ j = 2 \/ j = 3 \/ j = 4 \/ j = 5 \/ j = 6 \/ j = 7 \/ j = 8
  OBVIOUS
<1>5. \A j \in 1 .. 8 : MarkerOrder[j][1] # "auth" /\ MarkerOrder[j][1] # "script"
  BY <1>1, <1>2, <1>4
<1>6. \A j \in 1 .. 10 : j \in 1 .. 8 \/ j = 9 \/ j = 10
  OBVIOUS
<1>7. \A j \in 1 .. 10 : MarkerOrder[j][1] # "script"
  BY <1>3, <1>5, <1>6
<1>8. /\ DOMAIN MarkerOrder = 1 .. 11 /\ MarkerOrder[11][1] = "script"
      /\ MarkerOrder[2][2] = "banner_timeout" /\ MarkerOrder[9][2] = "auth"
      /\ MarkerOrder[11][2] = "script"
  BY DEF MarkerOrder
<1> QED
  BY <1>1, <1>3, <1>5, <1>7, <1>8

\* The category of a message is that of its first marker, in three cases.
LEMMA Categories ==
    ASSUME NEW k \in AllKinds
    PROVE  /\ MarkersOf(k) = {"auth"} => classify_failure[k] = "auth"
           /\ MarkersOf(k) = {"script"} => classify_failure[k] = "script"
           /\ MarkersOf(k) = {"banner", "protocol name"} => classify_failure[k] = "banner_timeout"
<1> DEFINE found == MarkersOf(k)
<1>1. classify_failure[k] = IF Hits(MarkerOrder, found) = {} THEN "unknown"
                            ELSE MarkerOrder[FirstOf(Hits(MarkerOrder, found))][2]
  BY DEF classify_failure
<1> HIDE DEF found
<1>2. ASSUME NEW i \in 1 .. 11, MarkerOrder[i][1] \in found,
             \A j \in 1 .. 11 : MarkerOrder[j][1] \in found => i <= j
      PROVE  classify_failure[k] = MarkerOrder[i][2]
  <2>1. Hits(MarkerOrder, found) # {} /\ FirstOf(Hits(MarkerOrder, found)) = i
    BY <1>2, MarkerWords, FirstHit
  <2> QED
    BY <1>1, <2>1
<1>3. ASSUME found = {"auth"} PROVE classify_failure[k] = "auth"
  <2>1. \A j \in 1 .. 11 : MarkerOrder[j][1] \in found => 9 <= j
    BY <1>3, MarkerWords
  <2>2. MarkerOrder[9][1] \in found /\ MarkerOrder[9][2] = "auth"
    BY <1>3, MarkerWords
  <2> QED
    BY <1>2, <2>1, <2>2
<1>4. ASSUME found = {"script"} PROVE classify_failure[k] = "script"
  <2>1. \A j \in 1 .. 11 : MarkerOrder[j][1] \in found => 11 <= j
    BY <1>4, MarkerWords
  <2>2. MarkerOrder[11][1] \in found /\ MarkerOrder[11][2] = "script"
    BY <1>4, MarkerWords
  <2> QED
    BY <1>2, <2>1, <2>2
<1>5. ASSUME found = {"banner", "protocol name"} PROVE classify_failure[k] = "banner_timeout"
  <2>1. \A j \in 1 .. 11 : MarkerOrder[j][1] \in found => 2 <= j
    <3>1. MarkerOrder[1][1] \notin found
      BY <1>5, MarkerWords
    <3> QED
      BY <3>1
  <2>2. MarkerOrder[2][1] \in found /\ MarkerOrder[2][2] = "banner_timeout"
    BY <1>5, MarkerWords
  <2> QED
    BY <1>2, <2>1, <2>2
<1> QED
  BY <1>3, <1>4, <1>5 DEF found

\* A banner error in the open keeps its marker, a refused login and a script
\* failure that name no protocol get none: they are not recorded as failures.
LEMMA RecordedIsPath ==
    ASSUME NEW k \in AllKinds, Recorded(k) = "0"
    PROVE  k \in Transport \cup ReadAsTransport
<1> DEFINE said == Message(k).head \cup Message(k).detail
           hits == Hits(FRIENDLY_ERROR_PATTERNS, said)
<1>0. ASSUME NEW words, NEW i \in 1 .. 8, FRIENDLY_ERROR_PATTERNS[i][1] \in words,
             \A j \in 1 .. 8 : FRIENDLY_ERROR_PATTERNS[j][1] \in words => i <= j
      PROVE  /\ Hits(FRIENDLY_ERROR_PATTERNS, words) # {}
             /\ FirstOf(Hits(FRIENDLY_ERROR_PATTERNS, words)) = i
  <2>1. DOMAIN FRIENDLY_ERROR_PATTERNS = 1 .. 8 /\ 8 \in Nat
    BY PatternWords
  <2> QED
    BY <1>0, <2>1, FirstHit
<1>1. MarkersOf(k) = Message(k).head
         \cup (IF hits = {} THEN Message(k).detail ELSE FRIENDLY_ERROR_PATTERNS[FirstOf(hits)][2])
  BY DEF MarkersOf
<1>2. k # "ok"
  BY DEF Recorded
<1>3. k # "banner"
  <2> SUFFICES ASSUME k = "banner" PROVE FALSE
    OBVIOUS
  <2>1. Message(k).head = {"banner", "protocol name"} /\ Message(k).detail = {}
    BY DEF Message
  <2>2. FRIENDLY_ERROR_PATTERNS[2][1] \in said
    BY <2>1, PatternWords
  <2>3. \A j \in 1 .. 8 : FRIENDLY_ERROR_PATTERNS[j][1] \in said => 2 <= j
    <3>1. FRIENDLY_ERROR_PATTERNS[1][1] \notin said
      BY <2>1, PatternWords
    <3> QED
      BY <3>1
  <2> HIDE DEF said
  <2>4. FirstOf(hits) = 2 /\ hits # {}
    BY <1>0, <2>2, <2>3
  <2> HIDE DEF hits
  <2>5. MarkersOf(k) = {"banner", "protocol name"}
    BY <1>1, <2>1, <2>4, PatternWords
  <2> QED
    <3>1. classify_failure[k] = "banner_timeout"
      BY <2>5, Categories
    <3> QED
      BY <1>2, <3>1 DEF Recorded, CB_FAILURE_CATEGORIES
<1>4. k # "login"
  <2> SUFFICES ASSUME k = "login" PROVE FALSE
    OBVIOUS
  <2>1. Message(k).head = {} /\ Message(k).detail = {"login refused"}
    BY DEF Message
  <2>2. FRIENDLY_ERROR_PATTERNS[5][1] \in said
    BY <2>1, PatternWords
  <2>3. \A j \in 1 .. 8 : FRIENDLY_ERROR_PATTERNS[j][1] \in said => 5 <= j
    <3>1. \A j \in 1 .. 4 : FRIENDLY_ERROR_PATTERNS[j][1] \notin said
      BY <2>1, PatternWords
    <3> QED
      BY <3>1
  <2> HIDE DEF said
  <2>4. FirstOf(hits) = 5 /\ hits # {}
    BY <1>0, <2>2, <2>3
  <2> HIDE DEF hits
  <2>5. MarkersOf(k) = {"auth"}
    BY <1>1, <2>1, <2>4, PatternWords
  <2> QED
    BY <2>5, Categories DEF Recorded, CB_FAILURE_CATEGORIES
<1>5. k # "script"
  <2> SUFFICES ASSUME k = "script" PROVE FALSE
    OBVIOUS
  <2>1. Message(k).head = {"script"} /\ Message(k).detail = {}
    BY DEF Message
  <2>2. hits = {}
    BY <2>1, PatternWords DEF Hits
  <2> HIDE DEF hits
  <2>3. MarkersOf(k) = {"script"}
    BY <1>1, <2>1, <2>2
  <2> QED
    BY <2>3, Categories DEF Recorded, CB_FAILURE_CATEGORIES
<1> QED
  BY <1>2, <1>3, <1>4, <1>5 DEF AllKinds, Transport, ReadAsTransport

\* A rate cut off at a whole percent that reaches the threshold is a rate that
\* reaches it.
LEMMA CutOffRate ==
    ASSUME NEW f \in Nat, NEW c \in Nat, NEW m \in Nat \ {0}, NEW n \in 1 .. 100,
           c >= m, (f * 100) \div c >= n
    PROVE  f * 100 >= n * m
<1> DEFINE q == (f * 100) \div c
<1>1. c \in Nat \ {0} /\ q \in Int /\ f * 100 >= c * q
  OBVIOUS
<1>2. q >= n
  OBVIOUS
<1> HIDE DEF q
<1>3. c * q >= c * n
  BY <1>1, <1>2
<1>4. c * n >= m * n
  BY <1>1
<1> QED
  BY <1>1, <1>3, <1>4

\* Only a verdict opens the breaker.
LEMMA OpensByVerdict ==
    ASSUME BreakerTypeOK, [BreakerNext]_breakervars, NEW t \in Callers, Opens(t)
    PROVE  Trips(snap[t])
<1>1. ASSUME UNCHANGED stage PROVE FALSE
  BY <1>1 DEF Opens
<1>2. ASSUME NEW u \in Callers, Judge(u) PROVE Trips(snap[t])
  BY <1>2 DEF Judge, GoOn, BreakerTypeOK, Opens
<1>3. ASSUME NEW u \in Callers, \/ CheckOpen(u) \/ Refused(u) \/ CheckList(u) \/ Prune(u)
                              \/ Record(u) \/ RecordFails(u)
      PROVE  FALSE
  BY <1>3 DEF CheckOpen, Refused, CheckList, Prune, Record, RecordFails, GoOn, BreakerTypeOK, Opens
<1>4. ASSUME NEW u \in Callers, CheckFails(u) PROVE FALSE
  BY <1>4 DEF CheckFails, GoOn, BreakerTypeOK, Opens
<1>5. ResetOpen \/ ResetOutcomes \/ BreakerTick \/ ListExpires \/ UNCHANGED breakervars => UNCHANGED stage
  BY DEF ResetOpen, ResetOutcomes, BreakerTick, ListExpires, breakervars
<1> QED
  BY <1>1, <1>2, <1>3, <1>4, <1>5 DEF BreakerNext, Task

\* The breaker opens only on failures of the path and on those that the sanitized text
\* makes read as such, at least the threshold's share of the smallest sample, whatever
\* checks, prunes, records and resets overlap; a login or script failure that names no
\* protocol and a banner error in the open never help to open it.
THEOREM BastionOnly == BreakerSpec => OpensOnTransport
<1>1. ASSUME BreakerTypeOK, [BreakerNext]_breakervars, NEW t \in Callers, Opens(t)
      PROVE  Cardinality({e \in snap[t] : kind[e] \in Transport \cup ReadAsTransport}) * 100
                >= Threshold * MinSamples
  <2> DEFINE s == snap[t]
             failures == {e \in s : Recorded(kind[e]) = "0"}
             transports == {e \in s : kind[e] \in Transport \cup ReadAsTransport}
  <2>1. s \subseteq Entries /\ IsFiniteSet(s)
    BY <1>1, LimitsAssumption, FS_Subset DEF BreakerTypeOK
  <2>2. failures \subseteq transports
    BY <1>1, <2>1, RecordedIsPath DEF BreakerTypeOK
  <2>3. IsFiniteSet(failures) /\ IsFiniteSet(transports)
    BY <2>1, FS_Subset
  <2>4. /\ Cardinality(s) \in Nat /\ Cardinality(failures) \in Nat
        /\ Cardinality(transports) \in Nat
        /\ Cardinality(failures) <= Cardinality(transports)
    BY <2>1, <2>2, <2>3, FS_CardinalityType, FS_Subset
  <2>5. /\ Cardinality(s) >= MinSamples
        /\ (Cardinality(failures) * 100) \div Cardinality(s) >= Threshold
    BY <1>1, OpensByVerdict DEF Trips
  <2> HIDE DEF s, failures
  <2>6. Cardinality(failures) * 100 >= Threshold * MinSamples
    BY <2>4, <2>5, LimitsAssumption, CutOffRate
  <2>7. Cardinality(transports) * 100 >= Cardinality(failures) * 100
    BY <2>4
  <2>8. Threshold * MinSamples \in Nat
    BY LimitsAssumption
  <2>9. Cardinality(transports) * 100 >= Threshold * MinSamples
    BY <2>4, <2>6, <2>7, <2>8
  <2> QED
    BY <2>9 DEF s
<1>2. BreakerTypeOK /\ [BreakerNext]_breakervars =>
        \A t \in Callers : Opens(t) =>
          Cardinality({e \in snap[t] : kind[e] \in Transport \cup ReadAsTransport}) * 100
             >= Threshold * MinSamples
  BY <1>1
<1>3. BreakerInv => BreakerTypeOK
  BY DEF BreakerInv
<1> QED
  BY BreakerStarts, BreakerKept, <1>2, <1>3, PTL DEF BreakerSpec, OpensOnTransport
=============================================================================
