----------------------------- MODULE BackupLife -----------------------------
(***************************************************************************)
(* What the table of backups promises of each run.  A run that was started *)
(* ends once: saved, failed, or gone without a row.  What it ended as does *)
(* not change, a saved one is let go only when its retention has run out,  *)
(* and none comes back.  BackupStore implements it.                        *)
(***************************************************************************)
EXTENDS Integers

CONSTANTS Runs,
          Retention  \* for how long a saved backup is kept

VARIABLES clock,
          life,      \* what has become of each run
          since      \* when a saved one was saved, else 0

lifevars == <<clock, life, since>>

Init ==
    /\ clock = 0
    /\ life = [n \in Runs |-> "none"]
    /\ since = [n \in Runs |-> 0]

Begin(n) ==
    /\ life[n] = "none"
    /\ life' = [life EXCEPT ![n] = "running"]
    /\ UNCHANGED <<clock, since>>

End(n) ==
    /\ life[n] = "running" /\ life'[n] # "running"
    /\ \E how \in {"saved", "failed", "gone"} :
        /\ life' = [life EXCEPT ![n] = how]
        /\ since' = [since EXCEPT ![n] = IF how = "saved" THEN clock ELSE 0]
    /\ UNCHANGED clock

MayGo(n) == life[n] = "failed" \/ (life[n] = "saved" /\ clock - since[n] > Retention)

\* Any number of runs go at once, with one commit.
Forget ==
    \E N \in (SUBSET {n \in Runs : MayGo(n)}) \ {{}} :
        /\ life' = [n \in Runs |-> IF n \in N THEN "gone" ELSE life[n]]
        /\ since' = [n \in Runs |-> IF n \in N THEN 0 ELSE since[n]]
        /\ UNCHANGED clock

Tick == clock' = clock + 1 /\ UNCHANGED <<life, since>>

Next == Tick \/ Forget \/ \E n \in Runs : Begin(n) \/ End(n)

Spec == Init /\ [][Next]_lifevars
=============================================================================
