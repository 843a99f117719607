------------------------------ MODULE VpnProofs ------------------------------
(***************************************************************************)
(* Proofs about VpnSession: its types; that in every exclusive deployment  *)
(* a session's body has its own tunnel and no other that it could have     *)
(* removed; and that in every deployment the lock is on its way to a       *)
(* release.                                                                *)
(***************************************************************************)
EXTENDS VpnSession, TLAPS

\* What a task overlooked is a Boolean of its own.
LEMMA IgnoredIsBoolean ==
    ASSUME blind \in [Tasks -> BOOLEAN], NEW t \in Tasks, NEW n, Ignored(t, n)
    PROVE  blind' \in [Tasks -> BOOLEAN]
<1> DEFINE bad == blind[t] \/ (pc[t] = "prepare" /\ n = 2)
<1>1. blind' = [blind EXCEPT ![t] = bad]
  BY DEF Ignored
<1>2. bad \in BOOLEAN
  BY Zenon
<1> HIDE DEF bad
<1> QED
  BY <1>1, <1>2

\* The type invariant is inductive: no step of a task leaves the shapes the
\* code gives to NetworkManager, the lock and the tasks' locals.
THEOREM VpnTypes == Spec => []TypeOK
<1>1. Init => TypeOK
  BY VpnAssumption DEF Init, TypeOK, Deployment, Steps
<1>2. TypeOK /\ [Next]_vars => TypeOK'
  <2> SUFFICES ASSUME TypeOK, [Next]_vars PROVE TypeOK'
    OBVIOUS
  <2> USE VpnAssumption DEF TypeOK, Deployment, Steps, Go
  <2>1. CASE UNCHANGED vars
    BY <2>1 DEF vars
  <2>2. ASSUME NEW t \in Tasks, Begin(t) PROVE TypeOK'
    <3>1. dep.groups \subseteq Groups /\ dep.uses \subseteq {"session", "test"}
      OBVIOUS
    <3> QED BY <2>2, <3>1 DEF Begin
  <2>3. ASSUME NEW t \in Tasks, Work(t) PROVE TypeOK'
    <3>1. CASE Acquire(t) \/ LockTimeout(t) \/ Leave(t) \/ Release(t)
      BY <3>1 DEF Acquire, LockTimeout, Leave, Release
    <3>2. CASE ListNames(t)
      <4>1. blind' \in [Tasks -> BOOLEAN]
        BY <3>2, IgnoredIsBoolean DEF ListNames
      <4>2. pass' \in [Tasks -> 0 .. 2] /\ UNCHANGED <<dep, profiles, up, lock, pc, use, group, kills>>
        BY <3>2 DEF ListNames
      <4>3. doomed' \in [Tasks -> SUBSET Groups]
        <5>1. UNCHANGED doomed
                \/ doomed' = [doomed EXCEPT ![t] = (IF pass[t] = 0 THEN up ELSE profiles) \ Keep(t)]
          BY <3>2 DEF ListNames
        <5> QED BY <5>1
      <4> QED BY <4>1, <4>2, <4>3
    <3>3. CASE RemoveOne(t)
      <4>1. blind' \in [Tasks -> BOOLEAN]
        BY <3>3, IgnoredIsBoolean DEF RemoveOne
      <4>2. profiles' \subseteq Groups /\ up' \subseteq Groups
        BY <3>3 DEF RemoveOne, Deleted, NotDeleted
      <4>3. doomed' \in [Tasks -> SUBSET Groups]
        BY <3>3 DEF RemoveOne
      <4>4. UNCHANGED <<dep, lock, pc, use, group, pass, kills>>
        BY <3>3 DEF RemoveOne
      <4> QED BY <4>1, <4>2, <4>3, <4>4
    <3>4. CASE CleanDone(t) \/ NmcliFails(t) \/ BodyRaises(t)
      BY <3>4 DEF CleanDone, NmcliFails, BodyRaises, AfterError, AfterClean, Cleaning
    <3>5. CASE RemoveOwn(t) \/ Add(t) \/ Up(t)
      BY <3>5 DEF RemoveOwn, Deleted, NotDeleted, Add, Up
    <3> QED BY <2>3, <3>1, <3>2, <3>3, <3>4, <3>5 DEF Work
  <2>4. ASSUME NEW t \in Tasks, Kill(t) PROVE TypeOK'
    BY <2>4 DEF Kill
  <2> QED BY <2>1, <2>2, <2>3, <2>4 DEF Next
<1> QED BY <1>1, <1>2, PTL DEF Spec

-----------------------------------------------------------------------------
Active(t) == pc[t] \notin {"idle", "wait"}

\* One task at a time, and why.
Alone ==
    /\ \A s, t \in Tasks : Active(s) /\ Active(t) => s = t
    /\ dep.isolated => \A t \in Tasks : pc[t] # "wait"
    /\ ~dep.isolated => \A t \in Tasks : Active(t) => lock = t

\* What a task knows of NetworkManager at each step of connect_group_vpn.
Known(t) ==
    /\ doomed[t] # {} => pc[t] \in Cleaning
    /\ pc[t] = "prepare" /\ pass[t] = 2 => profiles \ {group[t]} \subseteq doomed[t] \/ blind[t]
    /\ pc[t] \in {"own", "add", "up", "body"} => profiles \subseteq {group[t]} \/ blind[t]
    /\ pc[t] = "body" => group[t] \in up

TunnelInv ==
    /\ TypeOK /\ Alone
    /\ up \subseteq profiles
    /\ \A t \in Tasks : Known(t)
    /\ \A t \in Tasks : pc[t] \notin Cleaning => pass[t] = 0

\* The deployment does not change.
LEMMA DeploymentFixed == [Next]_vars => dep' = dep
BY DEF vars, Next, Begin, Work, Kill, Acquire, LockTimeout, ListNames, RemoveOne, CleanDone,
  RemoveOwn, Add, Up, NmcliFails, Leave, BodyRaises, Release

\* In an exclusive deployment every step keeps what the tasks know.
LEMMA TunnelKept ==
    ASSUME Exclusive(dep), TunnelInv, TypeOK, TypeOK', [Next]_vars
    PROVE  TunnelInv'
<1> USE DeploymentFixed
<1> USE DEF Go, TypeOK
<1>1. CASE UNCHANGED vars
  BY <1>1 DEF vars, TunnelInv, Alone, Active, Known
<1>2. ASSUME NEW t \in Tasks, Begin(t) \/ Work(t) \/ Kill(t) PROVE TunnelInv'
  <2>1. Alone'
    <3>1. CASE Begin(t)
      BY <3>1, VpnAssumption DEF Begin, TunnelInv, Alone, Active, Exclusive
    <3>2. CASE Work(t)
      <4>1. CASE Acquire(t) \/ LockTimeout(t) \/ Release(t)
        BY <4>1, VpnAssumption
        DEF Acquire, LockTimeout, Release, TunnelInv, Alone, Active, Exclusive
      <4>2. CASE ~(Acquire(t) \/ LockTimeout(t) \/ Release(t))
        <5>1. Active(t) /\ lock' = lock /\ \E s \in Steps : s # "wait" /\ Go(t, s)
          BY <3>2, <4>2 DEF Work, ListNames, RemoveOne, CleanDone, RemoveOwn, Add, Up,
            NmcliFails, Leave, BodyRaises, AfterError, AfterClean, Active, Cleaning,
            Steps, TunnelInv, Known
        <5> QED BY <5>1 DEF TunnelInv, Alone, Active
      <4> QED BY <4>1, <4>2
    <3>3. CASE Kill(t)
      BY <3>3, VpnAssumption DEF Kill, TunnelInv, Alone, Active
    <3> QED BY <1>2, <3>1, <3>2, <3>3
  <2>2. ASSUME NEW s \in Tasks, s # t PROVE Known(s)' /\ (pc'[s] \notin Cleaning => pass'[s] = 0)
    <3>1. pc'[s] = pc[s] /\ pass'[s] = pass[s] /\ doomed'[s] = doomed[s] /\ group'[s] = group[s]
         /\ blind'[s] = blind[s]
      BY <1>2, <2>2 DEF Begin, Work, Kill, Acquire, LockTimeout, ListNames, RemoveOne,
        CleanDone, RemoveOwn, Add, Up, NmcliFails, Leave, BodyRaises, Release, Ignored
    <3>2. Active(s) => UNCHANGED <<profiles, up>>
      <4>1. CASE Active(t)
        BY <4>1, <2>2 DEF TunnelInv, Alone
      <4>2. CASE ~Active(t)
        BY <4>2, <1>2 DEF Active, Begin, Work, Kill, Acquire, LockTimeout, ListNames,
          RemoveOne, CleanDone, RemoveOwn, Add, Up, NmcliFails, Leave, BodyRaises, Release,
          Cleaning, TunnelInv, Known
      <4> QED BY <4>1, <4>2
    <3> QED BY <3>1, <3>2 DEF TunnelInv, Known, Active, Cleaning
  <2>3. up' \subseteq profiles' /\ Known(t)' /\ (pc'[t] \notin Cleaning => pass'[t] = 0)
    <3> USE DEF TunnelInv, Known, Cleaning
    <3>1. CASE Begin(t)
      BY <3>1 DEF Begin
    <3>2. CASE Acquire(t) \/ LockTimeout(t) \/ Release(t) \/ Leave(t) \/ BodyRaises(t)
      BY <3>2 DEF Acquire, LockTimeout, Release, Leave, BodyRaises, AfterError
    <3>3. CASE ListNames(t)
      BY <3>3 DEF ListNames, Keep, Ignored
    <3>4. CASE RemoveOne(t)
      BY <3>4 DEF RemoveOne, Deleted, NotDeleted, Ignored
    <3>5. CASE CleanDone(t)
      BY <3>5 DEF CleanDone, AfterError, AfterClean
    <3>6. CASE RemoveOwn(t)
      BY <3>6 DEF RemoveOwn, Deleted, NotDeleted
    <3>7. CASE Add(t) \/ Up(t)
      BY <3>7 DEF Add, Up
    <3>8. CASE NmcliFails(t) \/ Kill(t)
      BY <3>8 DEF NmcliFails, Kill, AfterError, AfterClean
    <3> QED BY <1>2, <3>1, <3>2, <3>3, <3>4, <3>5, <3>6, <3>7, <3>8 DEF Work
  <2> QED BY <2>1, <2>2, <2>3 DEF TunnelInv
<1> QED BY <1>1, <1>2 DEF Next

\* In every exclusive deployment every body of a session has its own tunnel, and no other
\* but what it failed to list or remove itself, for any number of tasks and groups,
\* whatever was killed, failed or overlooked before.
THEOREM OwnTunnel == Spec => []OwnTunnelOnly
<1> DEFINE Inv == Exclusive(dep) => TunnelInv
<1>1. Init => Inv
  BY VpnAssumption DEF Init, TypeOK, Deployment, Steps, TunnelInv, Alone, Active, Known, Cleaning
<1>2. TypeOK /\ Inv /\ TypeOK' /\ [Next]_vars => Inv'
  <2> SUFFICES ASSUME TypeOK, Inv, TypeOK', [Next]_vars, Exclusive(dep)' PROVE TunnelInv'
    OBVIOUS
  <2>1. Exclusive(dep)
    BY DeploymentFixed DEF Exclusive
  <2> QED BY <2>1, TunnelKept
<1>3. Inv => OwnTunnelOnly
  BY DEF TunnelInv, Known, OwnTunnelOnly
<1> QED BY <1>1, <1>2, <1>3, VpnTypes, PTL DEF Spec

-----------------------------------------------------------------------------
(* The way to the release of the lock. *)

\* Who holds the lock is on the way from acquiring to releasing it.
LockInSession == lock # NoTask => use[lock] = "session" /\ pc[lock] \notin {"idle", "wait"}

LockInv == LockInSession /\ \A t \in Tasks : pc[t] = "wait" => use[t] = "session"

\* A session leaves by its finally or by its death, and both let the lock go;
\* nobody else takes it meanwhile.
LEMMA LockFollowed == TypeOK /\ LockInv /\ [Next]_vars => LockInv'
<1> SUFFICES ASSUME TypeOK, LockInv, [Next]_vars PROVE LockInv'
  OBVIOUS
<1> USE VpnAssumption DEF TypeOK, LockInv, LockInSession, Go
<1>1. CASE UNCHANGED vars
  BY <1>1 DEF vars
<1>2. ASSUME NEW t \in Tasks, Begin(t) PROVE LockInv'
  BY <1>2 DEF Begin
<1>3. ASSUME NEW t \in Tasks, Acquire(t) \/ LockTimeout(t) \/ Leave(t) \/ BodyRaises(t) PROVE LockInv'
  BY <1>3 DEF Acquire, LockTimeout, Leave, BodyRaises, AfterError
<1>4. ASSUME NEW t \in Tasks, ListNames(t) \/ RemoveOne(t) \/ RemoveOwn(t) \/ Add(t) \/ Up(t) PROVE LockInv'
  BY <1>4 DEF ListNames, RemoveOne, RemoveOwn, Add, Up
<1>5. ASSUME NEW t \in Tasks, CleanDone(t) \/ NmcliFails(t) PROVE LockInv'
  BY <1>5 DEF CleanDone, NmcliFails, AfterError, AfterClean, Cleaning
<1>6. ASSUME NEW t \in Tasks, Release(t) \/ Kill(t) PROVE LockInv'
  BY <1>6 DEF Release, Kill
<1> QED
  BY <1>1, <1>2, <1>3, <1>4, <1>5, <1>6 DEF Next, Work

\* The flock on VPN_LOCK_FILE is never left behind: in every deployment, whatever fails or
\* is killed, a holder is a session that has not yet come to its release.
THEOREM LockNotLeft == Spec => []LockInSession
<1>1. Init => LockInv
  BY DEF Init, LockInv, LockInSession
<1>2. LockInv => LockInSession
  BY DEF LockInv
<1> QED
  BY <1>1, <1>2, LockFollowed, VpnTypes, PTL DEF Spec

\* How far a task still has to go, step by step.
Ahead == [step \in Steps |->
    CASE step = "wait" -> 10 [] step = "prepare" -> 9 [] step = "own" -> 8 [] step = "add" -> 7
      [] step = "up" -> 6 [] step = "body" -> 5 [] step = "abort" -> 4 [] step = "down" -> 3
      [] step = "clean" -> 2 [] step = "release" -> 1 [] step = "idle" -> 0]

\* A later step of the session; or, in a cleaning, a further listing; or, of one
\* listing, a name less.
Advances(t) ==
    \/ Ahead[pc'[t]] < Ahead[pc[t]]
    \/ pc'[t] = pc[t] /\ pass'[t] > pass[t]
    \/ pc'[t] = pc[t] /\ pass'[t] = pass[t] /\ doomed'[t] \subseteq doomed[t] /\ doomed'[t] # doomed[t]

Stays(t) == pc'[t] = pc[t] /\ pass'[t] = pass[t] /\ doomed'[t] = doomed[t]

OnlyForward == [][\A t \in Tasks : pc[t] # "idle" => Stays(t) \/ Advances(t)]_vars

LEMMA AheadValues ==
    /\ Ahead["wait"] = 10 /\ Ahead["prepare"] = 9 /\ Ahead["own"] = 8 /\ Ahead["add"] = 7
    /\ Ahead["up"] = 6 /\ Ahead["body"] = 5 /\ Ahead["abort"] = 4 /\ Ahead["down"] = 3
    /\ Ahead["clean"] = 2 /\ Ahead["release"] = 1 /\ Ahead["idle"] = 0
  BY DEF Ahead, Steps

\* Between its start and its end a task never goes back, and nobody else moves it: nmcli
\* calls that fail, a lost wait and a kill only take it further.  As there are eleven steps, two
\* listings and finitely many names, a task that goes on comes to its release.
THEOREM SessionsAdvance == Spec => OnlyForward
<1>1. ASSUME TypeOK, [Next]_vars, NEW t \in Tasks, pc[t] # "idle"
      PROVE  Stays(t) \/ Advances(t)
  <2> USE <1>1, AheadValues DEF TypeOK, Go
  <2>1. CASE UNCHANGED vars
    BY <2>1 DEF vars, Stays
  <2>2. ASSUME NEW s \in Tasks, s # t, Begin(s) \/ Work(s) \/ Kill(s) PROVE Stays(t)
    BY <2>2 DEF Stays, Begin, Work, Kill, Acquire, LockTimeout, ListNames, RemoveOne,
      CleanDone, RemoveOwn, Add, Up, NmcliFails, Leave, BodyRaises, Release
  <2>3. CASE Begin(t)
    BY <2>3 DEF Begin
  <2>4. CASE Acquire(t) \/ LockTimeout(t) \/ Add(t) \/ Up(t) \/ Leave(t) \/ Release(t)
    BY <2>4 DEF Advances, Acquire, LockTimeout, Add, Up, Leave, Release
  <2>5. CASE ListNames(t)
    <3>1. pc'[t] = pc[t] /\ pass'[t] = pass[t] + 1 /\ pass[t] \in 0 .. 2
      BY <2>5 DEF ListNames
    <3> QED
      BY <3>1 DEF Advances
  <2>6. CASE RemoveOne(t)
    BY <2>6 DEF Advances, RemoveOne
  <2>7. CASE RemoveOwn(t) \/ BodyRaises(t)
    BY <2>7 DEF Advances, RemoveOwn, BodyRaises, AfterError
  <2>8. CASE CleanDone(t)
    BY <2>8 DEF Advances, CleanDone, Cleaning, AfterError, AfterClean
  <2>9. CASE NmcliFails(t)
    BY <2>9 DEF Advances, NmcliFails, AfterError, AfterClean
  <2>10. CASE Kill(t)
    <3>1. pc'[t] = "idle" /\ pc[t] \in Steps
      BY <2>10 DEF Kill
    <3>2. Ahead[pc[t]] > 0
      BY <3>1 DEF Steps
    <3> QED
      BY <3>1, <3>2 DEF Advances
  <2> QED
    BY <2>1, <2>2, <2>3, <2>4, <2>5, <2>6, <2>7, <2>8, <2>9, <2>10 DEF Next, Work
<1>2. TypeOK /\ [Next]_vars => \A t \in Tasks : pc[t] # "idle" => Stays(t) \/ Advances(t)
  BY <1>1
<1> QED
  BY <1>2, VpnTypes, PTL DEF Spec, OnlyForward
=============================================================================
