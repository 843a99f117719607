------------------------------ MODULE TaskView ------------------------------
(***************************************************************************)
(* What a user sees of one manual backup: the document that the request    *)
(* and the worker both write, the answer of the status endpoint, and the   *)
(* realtime log, a list in Redis that many processes append to, trim,      *)
(* prune and clear, and that browsers follow with a cursor.                *)
(***************************************************************************)
EXTENDS Integers, Sequences, FiniteSets, SequencesExt, FiniteSetsExt

CONSTANTS Neighbours,   \* processes that log for another tenant
          Cap,          \* entries the log keeps
          Limit,        \* entries a poll returns
          MaxEntries,   \* entries ever numbered
          MaxClears     \* times the log is pruned or cleared

ASSUME CapAssumption == Cap \in Nat \ {0} /\ Limit \in Nat \ {0}
ASSUME BoundAssumption == MaxEntries \in Nat /\ MaxClears \in Nat

VARIABLES doc,          \* the document of the task
          state,        \* what Celery says of the task
          web,          \* where the request is
          worker,       \* where the task is
          got,          \* the document the worker read and will write back
          closed,       \* the worker closed the document the request had registered (history)
          seq,          \* the counter of the log
          list,         \* the log
          entry,        \* an entry numbered and not yet pushed, by process
          cursor,       \* the last number the browser has seen
          seen,         \* what it was sent, in order (history)
          top,          \* the highest number pushed (history)
          disorder,     \* an entry came, or came back, after one of a higher number (history)
          polled,       \* a poll had more to send than it may (history)
          clear,        \* a rewrite of the log under way
          clears,
          lost          \* what a rewrite dropped without having read it (history)

taskVars == <<doc, state, web, worker, got, closed>>
logVars == <<seq, list, entry, top, disorder>>
readVars == <<cursor, seen, polled>>
clearVars == <<clear, clears, lost>>
vars == <<taskVars, logVars, readVars, clearVars>>

Processes == {"web", "worker"} \cup Neighbours
Nothing == [n |-> 0]
NoDoc == [known |-> FALSE, owned |-> FALSE, completed |-> FALSE]
Docs == [known : BOOLEAN, owned : BOOLEAN, completed : BOOLEAN]
Idle == [pc |-> "idle", own |-> FALSE, keep |-> <<>>]
Entries(s) == {s[i] : i \in DOMAIN s}

\* What is left of a list when only the positions I stay.
At(s, I) == [k \in 1..Cardinality(I) |-> s[CHOOSE i \in I : Cardinality({j \in I : j <= i}) = k]]

Init ==
    /\ doc = NoDoc /\ got = NoDoc /\ state = "PENDING" /\ web = "start" /\ worker = "queued" /\ closed = FALSE
    /\ seq = 0 /\ list = <<>> /\ entry = [p \in Processes |-> Nothing]
    /\ top = 0 /\ disorder = FALSE /\ cursor = 0 /\ seen = <<>> /\ polled = FALSE
    /\ clear = Idle /\ clears = 0 /\ lost = {}

-----------------------------------------------------------------------------
(* append_task_log *)

\* The tenant is the one of the document at that moment; both counters are
\* incremented and the push follows.
Stamp(p) ==
    /\ entry[p] = Nothing /\ seq < MaxEntries
    /\ seq' = seq + 1
    /\ entry' = [entry EXCEPT ![p] = [n |-> seq + 1, of |-> IF p \in Neighbours THEN "other" ELSE IF doc.owned THEN "own" ELSE "nobody"]]
    /\ UNCHANGED <<list, top, disorder>>

\* Beyond the bound on numbers the model logs nothing.
Logs(p) == Stamp(p) \/ (seq = MaxEntries /\ UNCHANGED logVars)

\* ltrim(-Cap, -1)
Trimmed(s) == SubSeq(s, Max({1, Len(s) - Cap + 1}), Len(s))

\* At intervals a push also takes out the entries that are too old, the first k.
Pruned(s, k) == SubSeq(s, k + 1, Len(s))

Pushed(p, k) ==
    /\ entry[p] # Nothing
    /\ list' = Trimmed(Pruned(Append(list, entry[p]), k))
    /\ entry' = [entry EXCEPT ![p] = Nothing]
    /\ top' = Max({top, entry[p].n})
    /\ disorder' = (disorder \/ top > entry[p].n)
    /\ lost' = IF clear.pc = "read" THEN lost \cup {entry[p]} ELSE lost
    /\ UNCHANGED seq

Push(p) ==
    /\ \E k \in 0..Len(list) :
        /\ k > 0 => clears < MaxClears
        /\ clears' = IF k > 0 THEN clears + 1 ELSE clears
        /\ Pushed(p, k)
    /\ UNCHANGED <<taskVars, readVars, clear>>

NeighbourLogs(p) == Stamp(p) /\ UNCHANGED <<taskVars, readVars, clearVars>>

-----------------------------------------------------------------------------
(* The request and the worker. *)

\* run_backup enqueues first and registers afterwards.
Send ==
    /\ web = "start"
    /\ web' = "register"
    /\ UNCHANGED <<doc, state, worker, got, closed, logVars, readVars, clearVars>>

\* register_task writes a new document, whatever the worker wrote before.
Register ==
    /\ web = "register"
    /\ web' = "log"
    /\ doc' = [known |-> TRUE, owned |-> TRUE, completed |-> FALSE]
    /\ UNCHANGED <<state, worker, got, closed, logVars, readVars, clearVars>>

WebLogs ==
    /\ web = "log"
    /\ web' = "done"
    /\ Logs("web")
    /\ UNCHANGED <<doc, state, worker, got, closed, readVars, clearVars>>

\* The task begins; a stop, or a device or group switched off, ends it at once.
Begin ==
    /\ worker = "queued" /\ web # "start"
    /\ worker' \in {"read", "readEnd"} /\ state' = "STARTED"
    /\ UNCHANGED <<doc, web, got, closed, logVars, readVars, clearVars>>

\* update_task_meta reads ...
MetaRead ==
    /\ worker \in {"read", "readEnd"}
    /\ got' = doc
    /\ worker' = IF worker = "read" THEN "write" ELSE "writeEnd"
    /\ UNCHANGED <<doc, state, web, closed, logVars, readVars, clearVars>>

\* ... and writes back with the fields it changes.
MetaWrite ==
    /\ worker \in {"write", "writeEnd"}
    /\ doc' = [got EXCEPT !.known = TRUE, !.completed = worker = "writeEnd"]
    /\ got' = NoDoc
    /\ worker' = IF worker = "write" THEN "log" ELSE "logEnd"
    /\ closed' = (worker = "writeEnd" /\ web \in {"log", "done"})
    /\ UNCHANGED <<state, web, logVars, readVars, clearVars>>

WorkerLogs ==
    /\ worker = "log" /\ entry["worker"] = Nothing
    /\ worker' = "work"
    /\ Logs("worker")
    /\ UNCHANGED <<doc, state, web, got, closed, readVars, clearVars>>

\* The executor returns, refuses, or the soft limit interrupts it: each path writes the document once more.
WorkDone ==
    /\ worker = "work"
    /\ worker' = "readEnd"
    /\ UNCHANGED <<doc, state, web, got, closed, logVars, readVars, clearVars>>

\* The task logs its end and returns; Celery stores the result.
End ==
    /\ worker = "logEnd" /\ entry["worker"] = Nothing
    /\ worker' = "ended" /\ state' = "SUCCESS"
    /\ Logs("worker")
    /\ UNCHANGED <<doc, web, got, closed, readVars, clearVars>>

\* The hard limit kills the process, between any two writes.
Killed ==
    /\ worker \notin {"queued", "ended"}
    /\ worker' = "ended" /\ state' = "FAILURE" /\ got' = NoDoc
    /\ entry' = [entry EXCEPT !["worker"] = Nothing]
    /\ UNCHANGED <<doc, web, closed, seq, list, top, disorder, readVars, clearVars>>

\* stop_all_backups revokes what a worker has: it is terminated, or refused when its
\* turn comes. What is still in the queue is thrown away, and Celery waits for it.
StopAll ==
    /\ worker # "ended" /\ web # "start"
    /\ state' \in {"REVOKED"} \cup (IF worker = "queued" THEN {state} ELSE {})
    /\ worker' = "ended" /\ got' = NoDoc
    /\ entry' = [entry EXCEPT !["worker"] = Nothing]
    /\ UNCHANGED <<doc, web, closed, seq, list, top, disorder, readVars, clearVars>>

\* Celery forgets results after a day; requests are long over by then.
Forget ==
    /\ state \in {"SUCCESS", "FAILURE", "REVOKED"} /\ web = "done"
    /\ state' = "forgotten"
    /\ UNCHANGED <<doc, web, worker, got, closed, logVars, readVars, clearVars>>

\* Faulty variant: the document alone decides.
ShownDocument == doc.known /\ doc.completed

\* task_status: the document, and where it says nothing final, Celery, of which it
\* knows two ends only; nothing without a document.
Shown == doc.known /\ (doc.completed \/ state \in {"SUCCESS", "FAILURE"})

-----------------------------------------------------------------------------
(* Readers. *)

\* _scan_recent_entries walks back from the end to the first entry at or below the cursor.
Unread ==
    LET old == {i \in DOMAIN list : list[i].n <= cursor} IN
    SubSeq(list, IF old = {} THEN 1 ELSE Max(old) + 1, Len(list))

Mine(e) == e.of = "own"

UnreadMine == At(Unread, {i \in DOMAIN Unread : Mine(Unread[i])})

\* The newest of them.
Sent == SubSeq(UnreadMine, Max({1, Len(UnreadMine) - Limit + 1}), Len(UnreadMine))

\* Faulty variant: the cursor moves to the counter of the log.
PollLatest ==
    /\ Sent # <<>>
    /\ seen' = seen \o Sent
    /\ cursor' = seq
    /\ polled' = (polled \/ Len(UnreadMine) > Limit)
    /\ UNCHANGED <<taskVars, logVars, clearVars>>

\* The newest Limit entries of the tenant; the cursor moves to the highest of them.
Poll ==
    /\ Sent # <<>>
    /\ seen' = seen \o Sent
    /\ cursor' = Max({cursor} \cup {e.n : e \in Entries(Sent)})
    /\ polled' = (polled \/ Len(UnreadMine) > Limit)
    /\ UNCHANGED <<taskVars, logVars, clearVars>>

-----------------------------------------------------------------------------
(* Rewrites. *)

\* Faulty variant: only the entries of the tenant stay.
KeptWrong(own) == At(list, {i \in DOMAIN list : list[i].of = IF own THEN "own" ELSE "other"})

\* clear_tenant_global_logs takes the entries of one tenant out.
Kept(own) == At(list, {i \in DOMAIN list : list[i].of # IF own THEN "own" ELSE "other"})

ClearRead ==
    /\ clear.pc = "idle" /\ clears < MaxClears
    /\ clears' = clears + 1
    /\ \E own \in BOOLEAN : Kept(own) # list /\ clear' = [pc |-> "read", own |-> own, keep |-> Kept(own)]
    /\ UNCHANGED <<taskVars, logVars, readVars, lost>>

\* The list is replaced by what was read, entries trimmed since then included.
ClearWrite ==
    /\ clear.pc = "read"
    /\ list' = clear.keep
    /\ disorder' = (disorder \/ ~(Entries(clear.keep) \subseteq Entries(list)))
    /\ clear' = Idle
    /\ UNCHANGED <<taskVars, seq, entry, top, readVars, clears, lost>>

Task == Send \/ Register \/ WebLogs \/ Begin \/ MetaRead \/ MetaWrite \/ WorkerLogs \/ WorkDone \/ End

Next ==
    \/ Task \/ Killed \/ StopAll \/ Forget \/ Poll \/ ClearRead \/ ClearWrite
    \/ \E p \in Processes : Push(p)
    \/ \E p \in Neighbours : NeighbourLogs(p)

Spec == Init /\ [][Next]_vars

-----------------------------------------------------------------------------
\* A task whose worker closed the registered document is shown as ended from then
\* on, whatever becomes of it, and one that ran to its end or was killed is so even
\* where its request registered it, as not completed, over a document it had closed,
\* for as long as Celery has the result. A task ended by stop_all_backups before it
\* closed its document is not among them: it is shown as under way.
EndIsShown ==
    web = "done" /\ (closed \/ (worker = "ended" /\ state \in {"SUCCESS", "FAILURE"})) => Shown

\* A browser is never sent an entry twice.
NeverTwice == \A i, j \in DOMAIN seen : seen[i].n = seen[j].n => i = j

\* An entry of the tenant that is in the log and below the cursor was sent,
\* unless once a poll had more than it could send, or an entry was pushed, or
\* brought back by a rewrite, after one of a higher number: it is never sent.
NothingSkipped ==
    ~polled /\ ~disorder => \A e \in Entries(list) : Mine(e) /\ e.n <= cursor => e \in Entries(seen)

\* What the cursor of a browser has passed was sent to it once, not twice and,
\* with the exceptions of NothingSkipped, not never.
SentOnce == NeverTwice /\ NothingSkipped

\* Clearing the log of one tenant takes no entry of another, except those
\* pushed while it was being rewritten.
ForeignKept ==
    [][clear.pc = "read" /\ clear'.pc = "idle" =>
        \A e \in Entries(list) \ (Entries(list') \cup lost) : e.of = IF clear.own THEN "own" ELSE "other"]_vars
=============================================================================
