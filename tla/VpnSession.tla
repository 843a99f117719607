----------------------------- MODULE VpnSession -----------------------------
(***************************************************************************)
(* VPN sessions over one NetworkManager.  A session takes the file lock,   *)
(* removes every other VPN, brings its group's tunnel up, runs its body    *)
(* (backups or connection tests) and always tears down in a finally.  The  *)
(* group test connects and disconnects without the lock.  In the shipped   *)
(* deployment the worker is isolated: it takes no lock, because its one    *)
(* process runs one task at a time.                                        *)
(*                                                                         *)
(* Each nmcli command is a step, so that two tasks on one NetworkManager   *)
(* interleave between them.  Listing, down and delete ignore their exit    *)
(* code: one that fails lists or removes nothing and the session goes on.  *)
(* A command that raises or hangs until its timeout is NmcliFails.         *)
(***************************************************************************)
EXTENDS Naturals, FiniteSets

CONSTANTS
    Tasks,        \* tasks on this NetworkManager
    Groups,       \* groups with a VPN; each has one connection name
    Deployments,  \* settings of the worker and its load, below
    MaxKills,     \* bound: processes killed
    NoTask        \* the lock is free

\* isolated: VPN_ISOLATED_WORKER; timeouts: do waits for the lock reach
\* VPN_GLOBAL_LOCK_TIMEOUT_SECONDS?; uses: what a task may be; groups: whose they are.
Deployment == [isolated: BOOLEAN, timeouts: BOOLEAN, uses: SUBSET {"session", "test"},
               groups: SUBSET Groups]

ASSUME VpnAssumption ==
    Deployments \subseteq Deployment /\ MaxKills \in Nat /\ NoTask \notin Tasks

VARIABLES
    dep,            \* the deployment; no step changes it
    profiles, up,   \* NetworkManager: VPN connections defined, and active
    lock,           \* holder of the flock on VPN_LOCK_FILE
    pc, use, group, \* each task: step, what it is, its group
    pass, doomed,   \* each task in _cleanup_vpn_profiles: pass, names to remove
    blind,          \* history: a failure to list or remove a foreign VPN was
                    \* ignored in the last pass of the task's connect
    kills

vars == <<dep, profiles, up, lock, pc, use, group, pass, doomed, blind, kills>>

Steps == {"idle", "wait", "prepare", "own", "add", "up", "body", "abort",
          "down", "clean", "release"}
Cleaning == {"prepare", "abort", "clean"}

Init ==
    /\ dep \in Deployments
    /\ profiles = {} /\ up = {} /\ lock = NoTask
    /\ pc = [t \in Tasks |-> "idle"] /\ use \in [Tasks -> dep.uses]
    /\ group \in [Tasks -> dep.groups]
    /\ pass = [t \in Tasks |-> 0] /\ doomed = [t \in Tasks |-> {}]
    /\ blind = [t \in Tasks |-> FALSE] /\ kills = 0

Go(t, step) == pc' = [pc EXCEPT ![t] = step]

\* Where a task goes after an exception and after its last nmcli command: a
\* session has a finally at both places, the test simply ends.
AfterError(t) == IF use[t] = "session" THEN "down" ELSE "idle"
AfterClean(t) == IF use[t] = "session" THEN "release" ELSE "idle"

-----------------------------------------------------------------------------
\* Celery delivers a task; an isolated worker runs one at a time.
Begin(t) ==
    /\ pc[t] = "idle"
    /\ dep.isolated => \A s \in Tasks : pc[s] = "idle"
    /\ \E g \in dep.groups, u \in dep.uses :
         /\ group' = [group EXCEPT ![t] = g] /\ use' = [use EXCEPT ![t] = u]
         /\ blind' = [blind EXCEPT ![t] = FALSE]
         /\ Go(t, IF u = "session" /\ ~dep.isolated THEN "wait" ELSE "prepare")
    /\ UNCHANGED <<dep, profiles, up, lock, pass, doomed, kills>>

Acquire(t) ==
    /\ pc[t] = "wait" /\ lock = NoTask
    /\ lock' = t /\ Go(t, "prepare")
    /\ UNCHANGED <<dep, profiles, up, use, group, pass, doomed, blind, kills>>

\* acquire_lock gives up: VpnError inside the try, so the finally runs.
LockTimeout(t) ==
    /\ dep.timeouts /\ pc[t] = "wait" /\ lock # NoTask
    /\ Go(t, "down")
    /\ UNCHANGED <<dep, profiles, up, lock, use, group, pass, doomed, blind, kills>>

-----------------------------------------------------------------------------
(* _cleanup_vpn_profiles: first the active VPNs, then all that are defined. *)

\* Faulty variant: nothing but the own connection is looked at.
ListNone(t) ==
    /\ pc[t] \in Cleaning /\ doomed[t] = {} /\ pass[t] < 2
    /\ pass' = [pass EXCEPT ![t] = @ + 1]
    /\ UNCHANGED <<dep, profiles, up, lock, pc, use, group, doomed, blind, kills>>

\* connect keeps the name it is about to use, the other callers keep none.
Keep(t) == IF pc[t] = "prepare" THEN {group[t]} ELSE {}

\* A failure that nobody looks at; one in the first pass is made good by the second.
Ignored(t, n) == blind' = [blind EXCEPT ![t] = @ \/ (pc[t] = "prepare" /\ n = 2)]

\* A list that fails has no lines.
ListNames(t) ==
    /\ pc[t] \in Cleaning /\ doomed[t] = {} /\ pass[t] < 2
    /\ pass' = [pass EXCEPT ![t] = @ + 1]
    /\ \/ /\ doomed' = [doomed EXCEPT ![t] = (IF pass[t] = 0 THEN up ELSE profiles) \ Keep(t)]
          /\ UNCHANGED blind
       \/ UNCHANGED doomed /\ Ignored(t, pass[t] + 1)
    /\ UNCHANGED <<dep, profiles, up, lock, pc, use, group, kills>>

\* Down and delete: deleting an active connection takes it down too.
Deleted(name) == profiles' = profiles \ {name} /\ up' = up \ {name}
NotDeleted(name) == UNCHANGED profiles /\ up' \in {up, up \ {name}}

RemoveOne(t) ==
    \E name \in doomed[t] :
      /\ \/ Deleted(name) /\ UNCHANGED blind
         \/ NotDeleted(name) /\ Ignored(t, pass[t])
      /\ doomed' = [doomed EXCEPT ![t] = @ \ {name}]
      /\ UNCHANGED <<dep, lock, pc, use, group, pass, kills>>

\* Faulty variant: a failed activation is tried again and again.
CleanDoneRetries(t) ==
    /\ pc[t] \in Cleaning /\ doomed[t] = {} /\ pass[t] = 2
    /\ pass' = [pass EXCEPT ![t] = 0]
    /\ Go(t, IF pc[t] = "clean" THEN AfterClean(t) ELSE "own")
    /\ UNCHANGED <<dep, profiles, up, lock, use, group, doomed, blind, kills>>

\* Then _wait_for_vpn_quiescent, which goes on after its time also with a VPN that is
\* still active.
CleanDone(t) ==
    /\ pc[t] \in Cleaning /\ doomed[t] = {} /\ pass[t] = 2
    /\ pass' = [pass EXCEPT ![t] = 0]
    /\ Go(t, CASE pc[t] = "prepare" -> "own"
               [] pc[t] = "abort" -> AfterError(t)
               [] pc[t] = "clean" -> AfterClean(t))
    /\ UNCHANGED <<dep, profiles, up, lock, use, group, doomed, blind, kills>>

-----------------------------------------------------------------------------
(* connect_group_vpn and disconnect_group_vpn.                             *)

\* Down and delete of the own name: what is left from before, or the tear-down.
RemoveOwn(t) ==
    /\ pc[t] \in {"own", "down"}
    /\ Deleted(group[t]) \/ NotDeleted(group[t])
    /\ Go(t, IF pc[t] = "own" THEN "add" ELSE "clean")
    /\ UNCHANGED <<dep, lock, use, group, pass, doomed, blind, kills>>

Add(t) ==
    /\ pc[t] = "add"
    /\ profiles' = profiles \cup {group[t]}
    /\ Go(t, "up")
    /\ UNCHANGED <<dep, up, lock, use, group, pass, doomed, blind, kills>>

\* Activation, on the second try through eth0 if the first fails that way.
Up(t) ==
    /\ pc[t] = "up" /\ group[t] \in profiles
    /\ up' = up \cup {group[t]}
    /\ Go(t, "body")
    /\ UNCHANGED <<dep, profiles, lock, use, group, pass, doomed, blind, kills>>

\* NetworkManager is missing, data of the group is missing, nmcli hangs or refuses (an
\* activation that hung may come up after all).  Adding and activating have a handler
\* of their own, which cleans.
NmcliFails(t) ==
    /\ pc[t] \in {"prepare", "own", "add", "up", "abort", "down", "clean"}
    /\ Go(t, CASE pc[t] \in {"add", "up"} -> "abort"
               [] pc[t] \in {"prepare", "own", "abort"} -> AfterError(t)
               [] pc[t] \in {"down", "clean"} -> AfterClean(t))
    /\ pass' = [pass EXCEPT ![t] = 0] /\ doomed' = [doomed EXCEPT ![t] = {}]
    /\ \/ UNCHANGED up
       \/ pc[t] = "up" /\ group[t] \in profiles /\ up' = up \cup {group[t]}
    /\ UNCHANGED <<dep, profiles, lock, use, group, blind, kills>>

\* The body returns.
Leave(t) ==
    /\ pc[t] = "body"
    /\ Go(t, "down")
    /\ UNCHANGED <<dep, profiles, up, lock, use, group, pass, doomed, blind, kills>>

\* The body raises: the test reports the error and does not disconnect.
BodyRaises(t) ==
    /\ pc[t] = "body"
    /\ Go(t, AfterError(t))
    /\ UNCHANGED <<dep, profiles, up, lock, use, group, pass, doomed, blind, kills>>

Release(t) ==
    /\ pc[t] = "release"
    /\ lock' = IF lock = t THEN NoTask ELSE lock
    /\ Go(t, "idle")
    /\ UNCHANGED <<dep, profiles, up, use, group, pass, doomed, blind, kills>>

\* The process dies: the system drops its flock, NetworkManager goes on.
Kill(t) ==
    /\ pc[t] # "idle" /\ kills < MaxKills
    /\ kills' = kills + 1
    /\ lock' = IF lock = t THEN NoTask ELSE lock
    /\ Go(t, "idle")
    /\ pass' = [pass EXCEPT ![t] = 0] /\ doomed' = [doomed EXCEPT ![t] = {}]
    /\ UNCHANGED <<dep, profiles, up, use, group, blind>>

Work(t) == \/ Acquire(t) \/ LockTimeout(t) \/ ListNames(t) \/ RemoveOne(t) \/ CleanDone(t)
           \/ RemoveOwn(t) \/ Add(t) \/ Up(t) \/ NmcliFails(t) \/ Leave(t) \/ BodyRaises(t)
           \/ Release(t)

Next == \E t \in Tasks : Begin(t) \/ Work(t) \/ Kill(t)

Spec == Init /\ [][Next]_vars

\* A task once started goes on.
FairSpec == Spec /\ \A t \in Tasks : WF_vars(Work(t))

-----------------------------------------------------------------------------
(* Properties.                                                             *)

\* Every variable keeps the shape the code gives it.
TypeOK ==
    /\ dep \in Deployment /\ profiles \subseteq Groups /\ up \subseteq Groups
    /\ lock \in Tasks \cup {NoTask}
    /\ pc \in [Tasks -> Steps] /\ use \in [Tasks -> {"session", "test"}] /\ group \in [Tasks -> Groups]
    /\ pass \in [Tasks -> 0 .. 2] /\ doomed \in [Tasks -> SUBSET Groups]
    /\ blind \in [Tasks -> BOOLEAN] /\ kills \in Nat

\* Deployments in which one task at a time talks to NetworkManager: an isolated
\* worker, as shipped; or the lock, if every user takes it and nobody gives up
\* waiting (who does runs the finally, and with it the clean-up, without it).
Exclusive(d) == d.isolated \/ (d.uses \subseteq {"session"} /\ ~d.timeouts)

\* While the body of a session runs the tunnel of its group is up, and no other is unless
\* this very session could not list or remove it and went on: what killed and failed tasks,
\* and failures that earlier sessions ignored, left behind is gone (docstring of
\* run_vpn_group_backups_task: connect, run the backups, disconnect).
OwnTunnelOnly ==
    Exclusive(dep) =>
        \A t \in Tasks : pc[t] = "body" /\ use[t] = "session" =>
            group[t] \in up /\ (up = {group[t]} \/ blind[t])

\* The lock is free again and again: no way out of a session keeps it, also
\* when nmcli fails in the tear-down or the holder is killed.
LockComesFree == []<>(lock = NoTask)
=============================================================================
