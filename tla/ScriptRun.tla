------------------------------ MODULE ScriptRun ------------------------------
(***************************************************************************)
(* What execute_backup loads: one script at a time, either one of the      *)
(* catalog (DeviceScript) or one of those that move files                  *)
(* (ScriptTransfer).  The machine of the other kind is at rest.            *)
(***************************************************************************)
EXTENDS DeviceScript, ScriptTransfer

NoScript ==
    /\ run = [name |-> "cdata_olt", telnet |-> FALSE, jump |-> "none"]
    /\ pc = "done" /\ at = 0 /\ left = 0 /\ sess = 0 /\ sent = 0
    /\ best = NoAnswer /\ kept = NoAnswer /\ good = 0 /\ open = {} /\ contact = {}
    /\ why = "none" /\ file = NoAnswer /\ parts = 0 /\ res = "none"

NoTransfer ==
    /\ job = [name |-> "grafana", jump |-> FALSE, wipe |-> FALSE]
    /\ step = "done" /\ mode = "paramiko" /\ held = {} /\ device = {} /\ todo = {}
    /\ copy = [n \in Names |-> "none"] /\ got = {} /\ failed = {} /\ listed = {}
    /\ token = FALSE /\ upload = "none" /\ outcome = "none"

RunInit == (Init /\ NoTransfer) \/ (TransferInit /\ NoScript)

RunNext == (Next /\ UNCHANGED tvars) \/ (TransferNext /\ UNCHANGED vars)

\* The waits of both kinds have deadlines.
RunSpec == RunInit /\ [][RunNext]_<<vars, tvars>> /\ WF_vars(Next) /\ WF_tvars(TransferNext)
-----------------------------------------------------------------------------
(***************************************************************************)
(* Whatever failed on the way, a script that has returned leaves open, of  *)
(* all clients, shells, key files and sessions, at most the jump client    *)
(* whose device could not be reached.                                      *)
(***************************************************************************)
AllClosed == NothingLeftOpen /\ TransferClosed
=============================================================================
