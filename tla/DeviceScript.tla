---------------------------- MODULE DeviceScript ----------------------------
(***************************************************************************)
(* One run of a device script (ScriptCatalog) inside execute_backup: under *)
(* _NetmikoJumpHostPatcher, with the sessions of script_helpers.  Every    *)
(* step of the device is a choice: it may refuse, fall silent, close the   *)
(* connection or answer anything.                                          *)
(***************************************************************************)
EXTENDS ScriptCatalog, FiniteSets

CONSTANTS Scripts,       \* names of the scripts that may run
          ShellRetries,  \* JUMP_HOST_SHELL_RETRIES (7)
          MaxParts       \* most virtual systems of a Huawei NE router

ASSUME ScriptAssumption ==
    /\ Scripts \subseteq DOMAIN Catalog
    /\ ShellRetries \in Nat \ {0}
    /\ MaxParts \in Nat

VARIABLES run,      \* the script, its transport, and how the jump host is entered
          pc,       \* where the script is
          at,       \* its stage
          left,     \* test connections or shell attempts left
          sess,     \* collecting session of the stage
          sent,     \* commands sent in the session
          best,     \* the answer held in this session
          kept,     \* the answer held in this stage
          good,     \* size of the longest answer that ended a search, 0 if none (history)
          open,     \* what the worker holds open
          contact,  \* from where the device has been contacted (history)
          why,      \* why the stage gave up
          file,     \* what was written
          parts,    \* virtual systems still to visit
          res       \* what the script returned

vars == <<run, pc, at, left, sess, sent, best, kept, good, open, contact, why, file, parts, res>>

(***************************************************************************)
(* What may be open: the jump host's client (bastion) belongs to the       *)
(* patcher and lives until it exits; the shell, its key file (key) and the *)
(* target session (target) belong to a session of the script.              *)
(***************************************************************************)

\* Sizes: 0 nothing, 1 too little, 2 and 3 two lengths of the others.
Answers ==
    {a \in [kind : Kinds, ending : Endings, size : 0..3] :
        CASE a.kind = "none" -> a.size = 0
          [] a.kind = "short" -> a.size = 1
          [] OTHER -> a.size > 1}

NoAnswer == [kind |-> "none", ending |-> "never", size |-> 0]

Torn == [kind |-> "none", ending |-> "torn", size |-> 0]

Stages == IF run.telnet THEN Catalog[run.name].telnet ELSE Catalog[run.name].ssh

S == Stages[at]

Jumps == run.jump # "none"

Pair(a) == <<a.kind, a.ending>>

Init ==
    /\ run \in [name : Scripts, telnet : BOOLEAN, jump : {"none", "password", "key"}]
    /\ pc = "start" /\ at = 0 /\ left = 0 /\ sess = 0 /\ sent = 0
    /\ best = NoAnswer /\ kept = NoAnswer /\ good = 0
    /\ open = {} /\ contact = {} /\ why = "none" /\ file = NoAnswer /\ parts = 0
    /\ res = "none"

-----------------------------------------------------------------------------
(* Starting a script and a stage. *)

\* A script without a password, or one that cannot open any session, ends at once.
Refuse ==
    /\ pc = "start"
    /\ pc' = "exit" /\ res' = "failure" /\ why' = "config"
    /\ UNCHANGED <<run, at, left, sess, sent, best, kept, good, open, contact, file, parts>>

EnterStage(n) ==
    /\ at' = n /\ sess' = 1 /\ sent' = 0
    /\ best' = NoAnswer /\ kept' = NoAnswer /\ good' = 0 /\ why' = "none"
    /\ left' = Stages[n].reach.probes
    /\ pc' = IF Stages[n].reach.probes > 0 THEN "probe" ELSE "open"

Begin ==
    /\ pc = "start"
    /\ Stages # <<>>
    /\ EnterStage(1)
    /\ UNCHANGED <<run, open, contact, file, parts, res>>

\* Faulty variant: after the last candidate the search starts again.
NextStageAround ==
    /\ pc = "stage"
    /\ \/ why \in S.next /\ EnterStage((at % Len(Stages)) + 1) /\ UNCHANGED res
       \/ /\ why \notin S.next
          /\ pc' = "exit" /\ res' = "failure"
          /\ UNCHANGED <<at, left, sess, sent, best, kept, good, why>>
    /\ UNCHANGED <<run, open, contact, file, parts>>

\* The stage gave up: the next one is tried or the script returns a failure.
NextStage ==
    /\ pc = "stage"
    /\ \/ /\ at < Len(Stages) /\ why \in S.next
          /\ EnterStage(at + 1)
          /\ UNCHANGED res
       \/ /\ ~(at < Len(Stages) /\ why \in S.next)
          /\ pc' = "exit" /\ res' = "failure"
          /\ UNCHANGED <<at, left, sess, sent, best, kept, good, why>>
    /\ UNCHANGED <<run, open, contact, file, parts>>

-----------------------------------------------------------------------------
(* Test connections. *)

\* Faulty variant: only netmiko knows the jump host.
FromNetmikoOnly(bare) == IF Jumps /\ ~bare /\ S.reach.via = "netmiko" THEN "bastion" ELSE "worker"

\* From where a session of the stage reaches the device.
From(bare) == IF Jumps /\ ~bare /\ S.reach.via # "direct" THEN "bastion" ELSE "worker"

\* A netmiko session through the jump host leaves the patcher's client behind.
Behind(bare) ==
    IF From(bare) = "bastion" /\ S.reach.via = "netmiko" THEN {"bastion"} ELSE {}

\* The test session is opened and closed; a bare probe only connects a socket.
ProbeOk ==
    /\ pc = "probe"
    /\ contact' = contact \cup {From(S.reach.bare)}
    /\ open' = open \cup Behind(S.reach.bare)
    /\ pc' = "open" /\ left' = 0
    /\ UNCHANGED <<run, at, sess, sent, best, kept, good, why, file, parts, res>>

\* The jump host may have been reached and kept, or lost.
ProbeFails ==
    /\ pc = "probe"
    /\ \E reached \in SUBSET Behind(S.reach.bare) :
        /\ open' = reached
        /\ contact' = IF Behind(S.reach.bare) # {} /\ reached = {} THEN contact
                      ELSE contact \cup {From(S.reach.bare)}
    /\ left' = left - 1
    /\ IF left > 1 THEN UNCHANGED <<pc, why>>
       ELSE pc' = "stage" /\ why' \in {"probe", "algorithm"}
    /\ UNCHANGED <<run, at, sess, sent, best, kept, good, file, parts, res>>

-----------------------------------------------------------------------------
(* Opening a collecting session. *)

\* pexpect.spawn of ssh or telnet itself.
SpawnDirect ==
    /\ pc = "open" /\ S.reach.via # "netmiko" /\ From(FALSE) = "worker"
    /\ open' = open \cup {"target"}
    /\ contact' = contact \cup {"worker"}
    /\ pc' = "login"
    /\ UNCHANGED <<run, at, left, sess, sent, best, kept, good, why, file, parts, res>>

\* open_pexpect_session: the first attempt at the jump host's shell.
SpawnShell ==
    /\ pc = "open" /\ S.reach.via # "netmiko" /\ From(FALSE) = "bastion"
    /\ left' = ShellRetries
    /\ open' = open \cup {"shell"} \cup (IF run.jump = "key" THEN {"key"} ELSE {})
    /\ pc' = "shell"
    /\ UNCHANGED <<run, at, sess, sent, best, kept, good, contact, why, file, parts, res>>

\* The shell answered the probe: the command that reaches the device is typed into it.
ShellReady ==
    /\ pc = "shell"
    /\ contact' = contact \cup {"bastion"}
    /\ pc' = "login" /\ left' = 0
    /\ UNCHANGED <<run, at, sess, sent, best, kept, good, open, why, file, parts, res>>

\* The attempt's shell and key file are removed; the next attempt makes its own.
ShellFails ==
    /\ pc = "shell"
    /\ left' = left - 1
    /\ IF left > 1 THEN UNCHANGED <<pc, open, why>>
       ELSE open' = open \ {"shell", "key"} /\ pc' = "close" /\ why' = "open"
    /\ UNCHANGED <<run, at, sess, sent, best, kept, good, contact, file, parts, res>>

LoginOk ==
    /\ pc = "login"
    /\ pc' = "prepare"
    /\ UNCHANGED <<run, at, left, sess, sent, best, kept, good, open, contact, why, file, parts,
                   res>>

\* Refused, or closed before the device asked for a login.
LoginFails ==
    /\ pc = "login"
    /\ pc' = "close" /\ why' \in {"auth", "closed", "open"}
    /\ UNCHANGED <<run, at, left, sess, sent, best, kept, good, open, contact, file, parts, res>>

\* _patched_connect_handler: the jump client is made or made anew, a channel opened in it.
Connect ==
    /\ pc = "open" /\ S.reach.via = "netmiko"
    /\ open' = open \cup {"target"} \cup Behind(FALSE)
    /\ contact' = contact \cup {From(FALSE)}
    /\ pc' = "prepare"
    /\ UNCHANGED <<run, at, left, sess, sent, best, kept, good, why, file, parts, res>>

\* The channel of a session that failed is closed by the patcher.
ConnectFails ==
    /\ pc = "open" /\ S.reach.via = "netmiko"
    /\ \E reached \in SUBSET Behind(FALSE) :
        /\ open' = reached
        /\ contact' = IF Behind(FALSE) # {} /\ reached = {} THEN contact
                      ELSE contact \cup {From(FALSE)}
    /\ pc' = "stage" /\ why' \in {"open", "auth"}
    /\ UNCHANGED <<run, at, left, sess, sent, best, kept, good, file, parts, res>>

-----------------------------------------------------------------------------
(* Collecting. *)

Prepare ==
    /\ pc = "prepare"
    /\ pc' = "collect"
    /\ UNCHANGED <<run, at, left, sess, sent, best, kept, good, open, contact, why, file, parts,
                   res>>

PrepareRaises ==
    /\ pc = "prepare" /\ S.reach.fatal
    /\ pc' = "close" /\ why' \in {"collect", "auth"}
    /\ UNCHANGED <<run, at, left, sess, sent, best, kept, good, open, contact, file, parts, res>>

\* Faulty variant: an answer that ends the search is held only if it is longer.
HeldByLength(a) ==
    IF S.hold.keep = "last" \/ (Pair(a) \in S.hold.keeps /\ a.size > best.size) THEN a ELSE best

\* What is held after answer a.
Held(a) ==
    IF \/ S.hold.keep = "last"
       \/ S.hold.keep = "accepted" /\ Pair(a) \in S.hold.stops
       \/ Pair(a) \in S.hold.keeps /\ a.size > best.size
    THEN a ELSE best

Sends == S.read.cmds * S.read.tries

\* An answer that ends the search is held or not by the script's own rule.
Answer ==
    /\ pc = "collect"
    /\ \E a \in Answers :
        /\ a.ending \in S.read.ends
        /\ best' = Held(a)
        /\ good' = IF Pair(a) \in S.hold.stops \cap S.hold.accepts /\ a.size > good THEN a.size
                   ELSE good
        /\ sent' = sent + 1
        /\ pc' = IF Pair(a) \in S.hold.stops \/ sent + 1 = Sends THEN "close" ELSE "collect"
    /\ UNCHANGED <<run, at, left, sess, kept, open, contact, why, file, parts, res>>

\* A deadline or a closed connection where the script does not take it for an answer.
AnswerRaises ==
    /\ pc = "collect"
    /\ sent' = sent + 1
    /\ IF S.read.goesOn
       THEN /\ pc' = IF sent + 1 = Sends THEN "close" ELSE "collect"
            /\ UNCHANGED why
       ELSE pc' = "close" /\ why' = "collect"
    /\ UNCHANGED <<run, at, left, sess, best, kept, good, open, contact, file, parts, res>>

\* Faulty variant: the key file stays.
ClosedKeepsKey == open \ {"target", "shell"}

\* close_pexpect_session, child.close or the end of a with block.
Closed == open \ {"target", "shell", "key"}

Accepted(a) == a # NoAnswer /\ Pair(a) \in S.hold.accepts

\* Faulty variant: the answer of the first session is never replaced.
LongerFirst(a, b) == IF b = NoAnswer THEN a ELSE b

Longer(a, b) == IF a # NoAnswer /\ (b = NoAnswer \/ a.size > b.size) THEN a ELSE b

\* The session ends, however it went; a refused answer may be worth another session.
EndSession ==
    /\ pc = "close"
    /\ open' = Closed
    /\ best' = NoAnswer
    /\ sent' = 0
    /\ IF why # "none" THEN pc' = "stage" /\ UNCHANGED <<kept, sess>>
       ELSE /\ kept' = Longer(best, kept)
            /\ IF ~Accepted(Longer(best, kept)) /\ sess < S.read.sessions
               THEN pc' = "open" /\ sess' = sess + 1
               ELSE pc' = "judge" /\ UNCHANGED sess
    /\ UNCHANGED <<run, at, left, good, contact, why, file, parts, res>>

\* The check before saving.
Judge ==
    /\ pc = "judge"
    /\ IF Accepted(kept) THEN pc' = "save" /\ UNCHANGED why
       ELSE pc' = "stage" /\ why' = IF kept = NoAnswer THEN "collect" ELSE "check"
    /\ UNCHANGED <<run, at, left, sess, sent, best, kept, good, open, contact, file, parts, res>>

-----------------------------------------------------------------------------
(* Saving and leaving. *)

HasParts == run.name = "huawei_ne_router"

Save ==
    /\ pc = "save"
    /\ file' = kept
    /\ IF HasParts
       THEN pc' = "parts" /\ parts' \in 0..MaxParts /\ UNCHANGED res
       ELSE pc' = "exit" /\ res' = "success" /\ UNCHANGED parts
    /\ UNCHANGED <<run, at, left, sess, sent, best, kept, good, open, contact, why>>

\* Faulty variant: the exception of the write is swallowed.
SaveRaisesUnseen ==
    /\ pc = "save"
    /\ file' \in {NoAnswer, Torn}
    /\ pc' = "exit" /\ res' = "success"
    /\ UNCHANGED <<run, at, left, sess, sent, best, kept, good, open, contact, why, parts>>

SaveRaises ==
    /\ pc = "save"
    /\ file' \in {NoAnswer, Torn}
    /\ pc' = "stage" /\ why' = "save"
    /\ UNCHANGED <<run, at, left, sess, sent, best, kept, good, open, contact, parts, res>>

\* A virtual system in a session of its own; one that fails is skipped.
VisitPart ==
    /\ pc = "parts" /\ parts > 0
    /\ parts' = parts - 1
    /\ \E reached \in SUBSET Behind(FALSE) : open' = reached
    /\ UNCHANGED <<run, pc, at, left, sess, sent, best, kept, good, contact, why, file, res>>

\* The collected files become one zip, whatever the number of systems skipped.
Consolidate ==
    /\ pc = "parts" /\ parts = 0
    /\ pc' = "exit" /\ res' = "success"
    /\ UNCHANGED <<run, at, left, sess, sent, best, kept, good, open, contact, why, file, parts>>

ConsolidateRaises ==
    /\ pc = "parts" /\ parts = 0
    /\ pc' = "exit" /\ res' = "failure" /\ why' = "save" /\ file' = Torn
    /\ UNCHANGED <<run, at, left, sess, sent, best, kept, good, open, contact, parts>>

\* The patcher restores ConnectHandler and closes its jump client.
Exit ==
    /\ pc = "exit"
    /\ open' = open \ {"bastion"}
    /\ pc' = "done"
    /\ UNCHANGED <<run, at, left, sess, sent, best, kept, good, contact, why, file, parts, res>>

Next ==
    \/ Refuse \/ Begin \/ NextStage
    \/ ProbeOk \/ ProbeFails
    \/ SpawnDirect \/ SpawnShell \/ ShellReady \/ ShellFails \/ LoginOk \/ LoginFails
    \/ Connect \/ ConnectFails
    \/ Prepare \/ PrepareRaises \/ Answer \/ AnswerRaises \/ EndSession \/ Judge
    \/ Save \/ SaveRaises \/ VisitPart \/ Consolidate \/ ConsolidateRaises \/ Exit

Spec == Init /\ [][Next]_vars

\* Every wait of a script has a deadline, so a script always goes on.
FairSpec == Spec /\ WF_vars(Next)
-----------------------------------------------------------------------------
(* Properties. *)

(***************************************************************************)
(* Between sessions nothing but the patcher's jump client is open, and     *)
(* when the script has returned nothing is: no session, no shell on the    *)
(* jump host, no copy of its private key on disk.  Whatever raised, the    *)
(* finally blocks, with blocks and the patcher's __exit__ are enough.      *)
(***************************************************************************)
NothingLeftOpen ==
    /\ pc \in {"probe", "open", "judge", "save", "stage", "exit"} => open \subseteq {"bastion"}
    /\ pc = "done" => open = {}

(***************************************************************************)
(* A success is returned only with a file of this run that holds an answer *)
(* the last stage accepts; a later stage never reports the file of an      *)
(* earlier one that was torn.                                              *)
(***************************************************************************)
SuccessHasFile ==
    res = "success" => file = kept /\ Accepted(file)

\* The scripts that hold refused answers by length: the profiles of olt_cli_backup, Digistar,
\* ZTE, Cisco and, between its two sessions, the Huawei switch.
LongestWins ==
    {"cianet_olt", "parks_olt", "tplink_olt", "maxprint_olt", "digistar_olt", "zte_olt",
     "switch_cisco", "switch_huawei"}

(***************************************************************************)
(* When the device did give a configuration and the search ended with it,  *)
(* a script fails only because it could not write the file, or, in eight   *)
(* scripts, because it held an earlier refused answer at least as long.    *)
(* The answer is never forgotten, not even over two sessions.              *)
(***************************************************************************)
GoodAnswerKept ==
    res = "failure" /\ good > 0 =>
        \/ why = "save"
        \/ run.name \in LongestWins /\ ~Accepted(kept) /\ kept.size >= good

(***************************************************************************)
(* With a jump host the device is contacted from the worker itself only by *)
(* the scripts under legado-script, by the MikroTik banner probe and by    *)
(* the telnet fallbacks of Cisco and FiberHome: everything else goes       *)
(* through the patcher or the jump host's shell.                           *)
(***************************************************************************)
Bypass ==
    [name : {"huawei_olt_simple", "huawei_olt_universal", "huawei_olt_smart",
             "huawei_ma5800_especifico", "huawei_olt_final", "mikrotik_ros"}, telnet : BOOLEAN]
    \cup [name : {"switch_cisco", "fiberhome_olt"}, telnet : {TRUE}]

JumpHostRespected ==
    Jumps /\ "worker" \in contact => [name |-> run.name, telnet |-> run.telnet] \in Bypass

(***************************************************************************)
(* Every run returns: the stages, candidates, sessions and commands are    *)
(* finite and each wait has a deadline.                                    *)
(***************************************************************************)
RunEnds == <>(pc = "done")
=============================================================================
