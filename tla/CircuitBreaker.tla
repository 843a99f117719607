--------------------------- MODULE CircuitBreaker ---------------------------
(***************************************************************************)
(* The circuit breaker of one jump host.  Every task checks it before its  *)
(* backup and records the outcome after; a new batch resets it.  Outcomes  *)
(* are a Redis list of time-stamped results, the open state is a key with  *)
(* a TTL, and a check reads, prunes and opens in separate commands.        *)
(*                                                                         *)
(* An entry of the list is an identifier with what it recorded and an age  *)
(* in ticks; Window + 1 stands for every age beyond the window.            *)
(***************************************************************************)
EXTENDS Naturals, FiniteSets, Sequences

CONSTANTS
    Callers,    \* tasks that use this jump host
    Entries,    \* identifiers for list entries; bounds how many exist at once
    Kinds,      \* how backups may end, a subset of AllKinds
    Window,     \* CB_WINDOW_SECONDS
    OpenTTL,    \* CB_OPEN_SECONDS
    MinSamples, \* CB_MIN_SAMPLES
    Threshold,  \* CB_THRESHOLD_PERCENT
    MaxResets   \* bound: new batches

ASSUME LimitsAssumption ==
    /\ Window \in Nat /\ OpenTTL \in Nat \ {0} /\ MinSamples \in Nat \ {0}
    /\ Threshold \in 1 .. 100 /\ MaxResets \in Nat /\ IsFiniteSet(Entries)

VARIABLES
    open,           \* ticks the open key still lives
    outcomes,       \* the list
    kind, age,      \* of each entry
    stage, snap,    \* each task: step, the valid entries its check read
    rpc, resets,    \* the reset of a new batch: step; how many there were
    old,            \* history: entries recorded before the last reset
    dirty           \* history: a check was under way at the last reset

breakervars == <<open, outcomes, kind, age, stage, snap, rpc, resets, old, dirty>>

-----------------------------------------------------------------------------
(* What a failure message counts as.                                       *)

\* Ways for a backup to end: well, or with a failure of the path, of the login or
\* of the script, told in the open, behind "Detalhe:", or naming SSH or Telnet.
AllKinds == {"ok", "timeout", "hiddenTimeout", "banner", "hiddenBanner", "cipher",
             "login", "loginByName", "script", "scriptByName"}
ASSUME KindsAssumption == Kinds \subseteq AllKinds

\* The words of the script's message that are searched for, before "Detalhe:" and
\* after it ("Falha na autenticacao Telnet", "conectou via SSH legado, mas ...").
Message(k) ==
    LET Text(head, detail) == [head |-> head, detail |-> detail]
    IN CASE k = "timeout"       -> Text({"timeout"}, {})
         [] k = "hiddenTimeout" -> Text({}, {"timeout"})
         [] k = "banner"        -> Text({"banner", "protocol name"}, {})
         [] k = "hiddenBanner"  -> Text({}, {"banner", "protocol name"})
         [] k = "cipher"        -> Text({}, {"cipher"})
         [] k = "login"         -> Text({}, {"login refused"})
         [] k = "loginByName"   -> Text({"auth", "protocol name"}, {})
         [] k = "script"        -> Text({"script"}, {})
         [] k = "scriptByName"  -> Text({"protocol name"}, {})
         [] OTHER               -> Text({}, {})

\* The first entry of a table whose word is among these.
Hits(table, words) == {i \in DOMAIN table : table[i][1] \in words}
FirstOf(s) == CHOOSE i \in s : \A j \in s : i <= j

\* What the sanitizer recognises, in its order, and which of classify_failure's
\* markers the Portuguese sentence it writes instead has.
FRIENDLY_ERROR_PATTERNS == <<
    <<"cipher", {"protocol name"}>>, <<"banner", {"protocol name"}>>, <<"refused", {}>>,
    <<"unreachable", {}>>, <<"login refused", {"auth"}>>, <<"no prompt", {}>>,
    <<"timeout", {}>>, <<"closed", {}>> >>

\* What classify_failure finds in the sanitized message: the sentence stands in place
\* of everything behind "Detalhe:", and what was before it stays.
MarkersOf(k) ==
    LET m == Message(k)
        hits == Hits(FRIENDLY_ERROR_PATTERNS, m.head \cup m.detail)
    IN m.head \cup (IF hits = {} THEN m.detail ELSE FRIENDLY_ERROR_PATTERNS[FirstOf(hits)][2])

\* The markers classify_failure looks for in a message, in its order, and the
\* category each leads to.
MarkerOrder == <<
    <<"breaker", "circuit_breaker">>, <<"banner", "banner_timeout">>,
    <<"session closed", "jump_session_closed">>, <<"timeout", "timeout">>,
    <<"port closed to us", "connection">>, <<"refused", "port_refused">>,
    <<"protocol name", "connection">>, <<"no ping", "no_ping">>,
    <<"auth", "auth">>, <<"vpn", "vpn">>, <<"script", "script">> >>

classify_failure == [k \in AllKinds |->
    LET hits == Hits(MarkerOrder, MarkersOf(k))
    IN IF hits = {} THEN "unknown" ELSE MarkerOrder[FirstOf(hits)][2]]

CB_FAILURE_CATEGORIES == {"timeout", "connection", "jump_session_closed", "port_refused",
                          "no_ping", "jump_host_slot_timeout"}

\* Faulty variant: every failure counts against the bastion.
RecordedAll(k) == IF k = "ok" THEN "1" ELSE "0"

\* What _record_jump_host_outcome is told: 1, 0, or nothing.
Recorded(k) ==
    CASE k = "ok" -> "1"
      [] k # "ok" /\ classify_failure[k] = "banner_timeout" -> "1"
      [] k # "ok" /\ classify_failure[k] \in CB_FAILURE_CATEGORIES -> "0"
      [] OTHER -> "none"

-----------------------------------------------------------------------------
Valid(e) == age[e] <= Window

\* Half-percents are cut off, as int() does.
Trips(s) ==
    LET failures == {e \in s : Recorded(kind[e]) = "0"}
    IN /\ Cardinality(s) >= MinSamples /\ s # {}
       /\ (Cardinality(failures) * 100) \div Cardinality(s) >= Threshold

BreakerInit ==
    /\ open = 0 /\ outcomes = {} /\ kind = [e \in Entries |-> "ok"]
    /\ age = [e \in Entries |-> 0]
    /\ stage = [t \in Callers |-> "idle"] /\ snap = [t \in Callers |-> {}]
    /\ rpc = "idle" /\ resets = 0 /\ old = {} /\ dirty = FALSE

GoOn(t, step) == stage' = [stage EXCEPT ![t] = step]
entryvars == <<kind, age>>
resetvars == <<rpc, resets, old, dirty>>

\* A task starts: refused while the open key exists.
CheckOpen(t) ==
    /\ stage[t] = "idle"
    /\ GoOn(t, IF open > 0 THEN "refused" ELSE "list")
    /\ UNCHANGED <<open, outcomes, entryvars, snap, resetvars>>

\* Faulty variant: a refusal prolongs the refusing.
RefusedRenews(t) ==
    /\ stage[t] = "refused"
    /\ GoOn(t, "idle")
    /\ open' = OpenTTL
    /\ UNCHANGED <<outcomes, entryvars, snap, resetvars>>

\* A refused task ends; its failure category is recorded nowhere.
Refused(t) ==
    /\ stage[t] = "refused"
    /\ GoOn(t, "idle")
    /\ UNCHANGED <<open, outcomes, entryvars, snap, resetvars>>

\* LRANGE, and the entries of the window.
CheckList(t) ==
    /\ stage[t] = "list"
    /\ snap' = [snap EXCEPT ![t] = {e \in outcomes : Valid(e)}]
    /\ GoOn(t, IF outcomes = {} THEN "backup"
               ELSE IF \A e \in outcomes : Valid(e) THEN "judge" ELSE "prune")
    /\ UNCHANGED <<open, outcomes, entryvars, resetvars>>

\* DEL and RPUSH in one transaction: the list becomes what the check read.
Prune(t) ==
    /\ stage[t] = "prune"
    /\ outcomes' = snap[t]
    /\ GoOn(t, "judge")
    /\ UNCHANGED <<open, entryvars, snap, resetvars>>

\* Opens the breaker, or lets the task through.
Judge(t) ==
    /\ stage[t] = "judge"
    /\ IF Trips(snap[t])
         THEN open' = OpenTTL /\ GoOn(t, "refused")
         ELSE GoOn(t, "backup") /\ UNCHANGED open
    /\ snap' = [snap EXCEPT ![t] = {}]
    /\ UNCHANGED <<outcomes, entryvars, resetvars>>

\* Redis fails during the check: the exception is logged and the task let through.
\* A failing prune alone is ignored.
CheckFails(t) ==
    /\ \/ /\ stage[t] \in {"idle", "list", "judge"} /\ GoOn(t, "backup")
          /\ snap' = [snap EXCEPT ![t] = {}]
       \/ stage[t] = "prune" /\ GoOn(t, "judge") /\ UNCHANGED snap
    /\ UNCHANGED <<open, outcomes, entryvars, resetvars>>

Used == outcomes \cup UNION {snap[t] : t \in Callers}

\* The backup ends and its outcome is appended.
Record(t) ==
    /\ stage[t] = "backup"
    /\ \E k \in Kinds :
         IF Recorded(k) = "none" THEN UNCHANGED <<outcomes, entryvars, old>>
         ELSE \E e \in Entries \ Used :
                /\ outcomes' = outcomes \cup {e} /\ old' = old \ {e}
                /\ kind' = [kind EXCEPT ![e] = k] /\ age' = [age EXCEPT ![e] = 0]
    /\ GoOn(t, "idle")
    /\ UNCHANGED <<open, snap, rpc, resets, dirty>>

\* Recording fails: the outcome is lost.
RecordFails(t) ==
    /\ stage[t] = "backup"
    /\ GoOn(t, "idle")
    /\ UNCHANGED <<open, outcomes, entryvars, snap, resetvars>>

\* reset_circuit_breakers_for_new_batch: first the open keys ...
ResetOpen ==
    /\ rpc = "idle" /\ resets < MaxResets
    /\ open' = 0 /\ rpc' = "clear" /\ resets' = resets + 1
    /\ UNCHANGED <<outcomes, entryvars, stage, snap, old, dirty>>

\* Faulty variant: the pattern of the keys to delete misses the lists.
ResetOutcomesMissed ==
    /\ rpc = "clear" /\ rpc' = "idle"
    /\ old' = Used /\ dirty' = \E t \in Callers : stage[t] \in {"prune", "judge"}
    /\ UNCHANGED <<open, outcomes, entryvars, stage, snap, resets>>

\* ... then the outcomes.
ResetOutcomes ==
    /\ rpc = "clear"
    /\ outcomes' = {} /\ rpc' = "idle"
    /\ old' = Used /\ dirty' = \E t \in Callers : stage[t] \in {"prune", "judge"}
    /\ UNCHANGED <<open, entryvars, stage, snap, resets>>

\* Time passes; an identifier that names no entry any more is blank again.
BreakerTick ==
    /\ open' = IF open = 0 THEN 0 ELSE open - 1
    /\ age' = [e \in Entries |-> IF e \notin Used THEN 0
                                 ELSE IF Valid(e) THEN age[e] + 1 ELSE age[e]]
    /\ kind' = [e \in Entries |-> IF e \in Used THEN kind[e] ELSE "ok"]
    /\ UNCHANGED <<outcomes, stage, snap, resetvars>>

\* The list's own TTL is longer than the window.
ListExpires ==
    /\ outcomes # {} /\ \A e \in outcomes : ~Valid(e)
    /\ outcomes' = {}
    /\ UNCHANGED <<open, entryvars, stage, snap, resetvars>>

Task(t) == CheckOpen(t) \/ Refused(t) \/ CheckList(t) \/ Prune(t) \/ Judge(t) \/ Record(t)

BreakerNext ==
    \/ \E t \in Callers : Task(t) \/ CheckFails(t) \/ RecordFails(t)
    \/ ResetOpen \/ ResetOutcomes \/ BreakerTick \/ ListExpires

BreakerSpec == BreakerInit /\ [][BreakerNext]_breakervars

\* Tasks keep coming and go on, time passes, a reset once begun is finished.
BreakerFairSpec ==
    /\ BreakerSpec
    /\ WF_breakervars(BreakerTick) /\ WF_breakervars(ResetOutcomes) /\ WF_breakervars(ListExpires)
    /\ \A t \in Callers : WF_breakervars(Task(t))

-----------------------------------------------------------------------------
(* Properties.                                                             *)

\* Every variable keeps the shape the code gives it.
BreakerTypeOK ==
    /\ open \in 0 .. OpenTTL /\ outcomes \subseteq Entries
    /\ kind \in [Entries -> AllKinds] /\ age \in [Entries -> 0 .. Window + 1]
    /\ stage \in [Callers -> {"idle", "refused", "list", "prune", "judge", "backup"}]
    /\ snap \in [Callers -> SUBSET Entries]
    /\ rpc \in {"idle", "clear"} /\ resets \in 0 .. MaxResets
    /\ old \subseteq Entries /\ dirty \in BOOLEAN

Opens(t) == stage[t] = "judge" /\ stage'[t] = "refused"

\* The breaker is for the path to the jump host, and other failures count against it
\* only when the sanitized text speaks of SSH or Telnet: a banner error that stood
\* behind "Detalhe:", refused algorithms, a login or script failure naming a protocol.
Transport == {"timeout", "hiddenTimeout"}
ReadAsTransport == {"hiddenBanner", "cipher", "loginByName", "scriptByName"}

\* It opens only on enough of these, whatever checks, prunes and resets overlap: never
\* on the other login and script failures, which must not affect the bastion (comment
\* at the recording in _internal_run_backup_task), nor on banner errors in the open.
OpensOnTransport ==
    [][\A t \in Callers : Opens(t) =>
          Cardinality({e \in snap[t] : kind[e] \in Transport \cup ReadAsTransport}) * 100
             >= Threshold * MinSamples]_breakervars

\* After a reset that met no check in flight, the breaker does not open on
\* outcomes of the batches before it.
ResetClean == [][\A t \in Callers : Opens(t) /\ ~dirty => snap[t] \cap old = {}]_breakervars

\* However bad the jump host was, it is tried again and again: the breaker does
\* not feed itself.
TriedAgain == []<>(\E t \in Callers : stage[t] = "backup")
=============================================================================
