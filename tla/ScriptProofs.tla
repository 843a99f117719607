---------------------------- MODULE ScriptProofs ----------------------------
(***************************************************************************)
(* The device scripts and the transfers, for any set of scripts of the     *)
(* catalog, any number of retries and of virtual systems, any files on the *)
(* device and any names of their copies.                                   *)
(***************************************************************************)
EXTENDS ScriptRun, TLAPS

-----------------------------------------------------------------------------
(* The transfers. *)

Mikrotik == job.name = "mikrotik_download"

\* Who holds what, and that a transfer that has returned holds at most a jump client.
HeldOfJob ==
    /\ held \subseteq {"client", "jump", "session"}
    /\ "jump" \in held => Mikrotik /\ job.jump
    /\ step = "done" => held \subseteq {"jump"}

\* The file was stored under its name, or why something else may be there.
Covered(f) ==
    \/ copy[Base[f]] = f
    \/ f \in failed
    \/ \E g \in listed \ {f} : Base[g] = Base[f]

\* What a download has done so far: a file that was fetched, or that is gone, is
\* covered, and the search has left none out.
Downloaded ==
    /\ todo \subseteq listed
    /\ \A f \in got \cup (listed \ device) : Covered(f)
    /\ step = "fetch" => device \subseteq todo \cup got \cup failed
    /\ step = "count" => device \subseteq got \cup failed
    /\ step = "wipe" => todo \subseteq got \cup failed

TransferInv ==
    /\ DOMAIN copy = Names
    /\ device \subseteq listed /\ listed \subseteq Files
    /\ HeldOfJob
    /\ IF Mikrotik THEN Downloaded ELSE device = listed
    /\ upload # "none" => job.name = "vsol_export"
    /\ upload = "writing" => \A n \in Names : copy[n] # "none"

LEMMA TransferStarts ==
    ASSUME TransferInit \/ NoTransfer
    PROVE  TransferInv
<1>1. DOMAIN copy = Names BY DEF TransferInit, NoTransfer
<1>2. device = listed /\ listed \subseteq Files BY DEF TransferInit, NoTransfer
<1>3. HeldOfJob BY DEF TransferInit, NoTransfer, HeldOfJob, Mikrotik
<1>4. Downloaded BY <1>2 DEF TransferInit, NoTransfer, Downloaded
<1>5. upload = "none" BY DEF TransferInit, NoTransfer
<1> QED BY <1>1, <1>2, <1>3, <1>4, <1>5 DEF TransferInv

\* Freeing leaves nothing of a session and nothing of a client.
LEMMA FreedHolds ==
    ASSUME HeldOfJob
    PROVE  Freed \subseteq {"jump"} /\ Freed \subseteq held
BY DEF HeldOfJob, Freed

\* Who leaves the files and the upload alone keeps the rest by what it holds.
LEMMA HeldKept ==
    ASSUME HeldOfJob, UNCHANGED job,
           \/ held' = Freed
           \/ UNCHANGED held /\ (step' = "done" => step = "done")
    PROVE  HeldOfJob'
BY FreedHolds DEF HeldOfJob, Mikrotik

LEMMA RaiseHolds ==
    ASSUME HeldOfJob, Raise, UNCHANGED job
    PROVE  HeldOfJob'
<1>1. held' = Freed BY DEF Raise, Return
<1> QED BY <1>1, HeldKept

LEMMA RaiseDownloaded ==
    ASSUME Downloaded, Raise, step \in {"list", "count", "wipe"},
           UNCHANGED <<device, listed, copy, failed>>
    PROVE  Downloaded'
<1>1. got' \subseteq got /\ todo' \subseteq todo /\ step' \in {"list", "done"} BY DEF Raise, Return
<1> QED BY <1>1 DEF Downloaded, Covered

\* Everything but the download of the MikroTik.
LEMMA OthersKept ==
    ASSUME TransferInv, ~Mikrotik, HeldOfJob', DOMAIN copy' = Names,
           UNCHANGED <<job, device, listed>>,
           UNCHANGED copy \/ (upload' = "writing" => \A n \in Names : copy'[n] # "none"),
           upload' # "none" => job.name = "vsol_export",
           upload' = "writing" /\ UNCHANGED copy => upload = "writing"
    PROVE  TransferInv'
BY DEF TransferInv, Mikrotik, Names

LEMMA DownloadKept ==
    ASSUME TransferInv, Mikrotik, HeldOfJob', Downloaded', DOMAIN copy' = Names,
           UNCHANGED <<job, listed, upload>>, device' \subseteq device
    PROVE  TransferInv'
<1>1. upload = "none" BY DEF TransferInv, Mikrotik
<1> QED BY <1>1 DEF TransferInv, Mikrotik, Names

LEMMA TransferKept ==
    ASSUME TransferInv, [TransferNext]_tvars
    PROVE  TransferInv'
<1> USE BaseAssumption
<1>0. /\ DOMAIN copy = Names /\ HeldOfJob /\ device \subseteq listed /\ listed \subseteq Files
      /\ Mikrotik => Downloaded
      /\ Mikrotik => upload = "none"
      /\ ~Mikrotik => device = listed
  BY DEF TransferInv, Mikrotik
<1>1. CASE MikrotikConnect
  <2>1. Mikrotik BY <1>1 DEF MikrotikConnect, Mikrotik
  <2>2. HeldOfJob' BY <1>0, <1>1 DEF MikrotikConnect, HeldOfJob, Mikrotik
  <2>3. Downloaded' BY <1>0, <1>1, <2>1 DEF MikrotikConnect, Downloaded, Covered
  <2> QED BY <1>0, <1>1, <2>1, <2>2, <2>3, DownloadKept DEF MikrotikConnect
<1>2. CASE MikrotikConnectFails
  <2>1. Mikrotik BY <1>2 DEF MikrotikConnectFails, Mikrotik
  <2>2. HeldOfJob' BY <1>0, <1>2 DEF MikrotikConnectFails, HeldOfJob, Mikrotik
  <2>3. Downloaded' BY <1>0, <1>2, <2>1 DEF MikrotikConnectFails, Downloaded, Covered
  <2> QED BY <1>0, <1>2, <2>1, <2>2, <2>3, DownloadKept DEF MikrotikConnectFails
<1>3. CASE MikrotikList
  <2>1. Mikrotik BY <1>3 DEF MikrotikList, Mikrotik
  <2>2. HeldOfJob' BY <1>0, <1>3, HeldKept DEF MikrotikList, Return
  <2>3. Downloaded' BY <1>0, <1>3, <2>1 DEF MikrotikList, Return, Downloaded, Covered
  <2> QED BY <1>0, <1>3, <2>1, <2>2, <2>3, DownloadKept DEF MikrotikList
<1>4. CASE MikrotikListFails
  <2>1. Mikrotik BY <1>4 DEF MikrotikListFails, Mikrotik
  <2>2. HeldOfJob' BY <1>0, <1>4, RaiseHolds DEF MikrotikListFails
  <2>3. Downloaded' BY <1>0, <1>4, <2>1, RaiseDownloaded DEF MikrotikListFails
  <2> QED BY <1>0, <1>4, <2>1, <2>2, <2>3, DownloadKept DEF MikrotikListFails
<1>5. CASE FetchOk
  <2>1. Mikrotik BY <1>5 DEF FetchOk, Mikrotik
  <2>2. HeldOfJob' BY <1>0, <1>5, HeldKept DEF FetchOk
  <2>3. PICK f \in todo :
          /\ copy' = [copy EXCEPT ![Base[f]] = f]
          /\ got' = got \cup {f} /\ todo' = todo \ {f}
          /\ step' = IF todo = {f} THEN "count" ELSE "fetch"
    BY <1>5 DEF FetchOk
  <2>4. f \in listed /\ Base[f] \in Names BY <1>0, <2>1 DEF Downloaded, Names
  <2>5. copy'[Base[f]] = f BY <1>0, <2>3, <2>4
  <2>6. \A g \in got \cup (listed \ device) : Covered(g)'
    <3> TAKE g \in got \cup (listed \ device)
    <3>1. Covered(g) BY <1>0, <2>1 DEF Downloaded
    <3>2. CASE g # f /\ Base[g] = Base[f]
      BY <1>5, <2>4, <3>2 DEF Covered, FetchOk
    <3>3. CASE g # f /\ Base[g] # Base[f]
      <4>1. copy'[Base[g]] = copy[Base[g]]
        BY <1>0, <2>3, <3>3 DEF Names
      <4> QED BY <1>5, <3>1, <4>1 DEF Covered, FetchOk
    <3>4. CASE g = f BY <2>5, <3>4 DEF Covered
    <3> QED BY <3>2, <3>3, <3>4
  <2>7. Covered(f)' BY <2>5 DEF Covered
  <2>8. Downloaded'
    BY <1>0, <1>5, <2>1, <2>3, <2>6, <2>7 DEF Downloaded, FetchOk
  <2>9. DOMAIN copy' = Names BY <1>0, <2>3
  <2> QED BY <1>0, <1>5, <2>1, <2>2, <2>8, <2>9, DownloadKept DEF FetchOk
<1>6. CASE FetchFails
  <2>1. Mikrotik BY <1>6 DEF FetchFails, Mikrotik
  <2>2. HeldOfJob' BY <1>0, <1>6, HeldKept DEF FetchFails
  <2>3. PICK f \in todo, kind \in {"part", "same"} :
          /\ copy' = IF kind = "part" THEN [copy EXCEPT ![Base[f]] = "part"] ELSE copy
          /\ todo' = todo \ {f} /\ failed' = failed \cup {f}
          /\ step' = IF todo = {f} THEN "count" ELSE "fetch"
    BY <1>6 DEF FetchFails
  <2>4. f \in listed /\ Base[f] \in Names BY <1>0, <2>1 DEF Downloaded, Names
  <2>5. \A g \in got \cup (listed \ device) : Covered(g)'
    <3> TAKE g \in got \cup (listed \ device)
    <3>1. Covered(g) BY <1>0, <2>1 DEF Downloaded
    <3>2. CASE g # f /\ Base[g] = Base[f]
      BY <1>6, <2>4, <3>2 DEF Covered, FetchFails
    <3>3. CASE g # f /\ Base[g] # Base[f]
      <4>1. copy'[Base[g]] = copy[Base[g]]
        BY <1>0, <2>3, <3>3 DEF Names
      <4> QED BY <1>6, <2>3, <3>1, <4>1 DEF Covered, FetchFails
    <3>4. CASE g = f BY <2>3, <3>4 DEF Covered
    <3> QED BY <3>2, <3>3, <3>4
  <2>6. Downloaded'
    BY <1>0, <1>6, <2>1, <2>3, <2>5 DEF Downloaded, FetchFails
  <2>7. DOMAIN copy' = Names BY <1>0, <2>3
  <2> QED BY <1>0, <1>6, <2>1, <2>2, <2>6, <2>7, DownloadKept DEF FetchFails
<1>7. CASE MikrotikCount
  <2>1. Mikrotik BY <1>7 DEF MikrotikCount, Mikrotik
  <2>2. HeldOfJob' BY <1>0, <1>7, HeldKept, RaiseHolds DEF MikrotikCount, Return
  <2>3. Downloaded'
    <3>1. CASE Raise BY <1>0, <1>7, <2>1, <3>1, RaiseDownloaded DEF MikrotikCount
    <3>2. CASE ~Raise
      BY <1>0, <1>7, <2>1, <3>2 DEF MikrotikCount, Return, Downloaded, Covered
    <3> QED BY <3>1, <3>2
  <2> QED BY <1>0, <1>7, <2>1, <2>2, <2>3, DownloadKept DEF MikrotikCount
<1>8. CASE MikrotikWipe
  <2>1. Mikrotik BY <1>8 DEF MikrotikWipe, Mikrotik
  <2>2. HeldOfJob' BY <1>0, <1>8, HeldKept DEF MikrotikWipe, Return
  <2>3. CASE todo = {}
    <3>1. Downloaded'
      BY <1>0, <1>8, <2>1, <2>3 DEF MikrotikWipe, Return, Downloaded, Covered
    <3> QED BY <1>0, <1>8, <2>1, <2>2, <2>3, <3>1, DownloadKept DEF MikrotikWipe
  <2>4. CASE todo # {}
    <3>1. PICK f \in todo :
            /\ device' = IF Wipable(f) THEN device \ {f} ELSE device
            /\ todo' = todo \ {f}
            /\ UNCHANGED <<step, held, outcome>>
      BY <1>8, <2>4 DEF MikrotikWipe
    <3>2. f \in got \cup failed BY <1>0, <1>8, <2>1 DEF MikrotikWipe, Downloaded
    <3>3. Covered(f) BY <1>0, <2>1, <3>2 DEF Downloaded, Covered
    <3>4. \A g \in got \cup (listed \ device') : Covered(g)
      BY <1>0, <2>1, <3>1, <3>3 DEF Downloaded
    <3>5. \A g \in (got \cup (listed \ device))' : Covered(g)'
      BY <1>8, <3>4 DEF MikrotikWipe, Covered
    <3>6. Downloaded' BY <1>0, <1>8, <2>1, <3>1, <3>5 DEF MikrotikWipe, Downloaded
    <3> QED BY <1>0, <1>8, <2>1, <2>2, <3>1, <3>6, DownloadKept DEF MikrotikWipe
  <2> QED BY <2>3, <2>4
<1>9. CASE MikrotikWipeFails
  <2>1. Mikrotik BY <1>9 DEF MikrotikWipeFails, Mikrotik
  <2>2. HeldOfJob' BY <1>0, <1>9, RaiseHolds DEF MikrotikWipeFails
  <2>3. Downloaded' BY <1>0, <1>9, <2>1, RaiseDownloaded DEF MikrotikWipeFails
  <2> QED BY <1>0, <1>9, <2>1, <2>2, <2>3, DownloadKept DEF MikrotikWipeFails
<1>10. CASE ZabbixConnect
  <2>1. HeldOfJob' BY <1>0, <1>10, FreedHolds DEF ZabbixConnect, Return, HeldOfJob, Mikrotik
  <2> QED BY <1>0, <1>10, <2>1, OthersKept DEF ZabbixConnect, Mikrotik, TransferInv
<1>11. CASE ZabbixDump
  <2>1. HeldOfJob' BY <1>0, <1>11, HeldKept DEF ZabbixDump, Return
  <2> QED BY <1>0, <1>11, <2>1, OthersKept DEF ZabbixDump, Mikrotik, TransferInv
<1>12. CASE GrafanaConnect
  <2>1. HeldOfJob' BY <1>0, <1>12, HeldKept DEF GrafanaConnect, Return
  <2> QED BY <1>0, <1>12, <2>1, OthersKept DEF GrafanaConnect, Mikrotik, TransferInv
<1>13. CASE GrafanaList
  <2>1. HeldOfJob' BY <1>0, <1>13, HeldKept DEF GrafanaList, Return
  <2> QED BY <1>0, <1>13, <2>1, OthersKept DEF GrafanaList, Mikrotik, TransferInv
<1>14. CASE GrafanaFetch
  <2>1. HeldOfJob' BY <1>0, <1>14, HeldKept DEF GrafanaFetch, Return
  <2> QED BY <1>0, <1>14, <2>1, OthersKept DEF GrafanaFetch, Mikrotik, TransferInv
<1>15. CASE VsolRegister
  <2>1. HeldOfJob' BY <1>0, <1>15, HeldKept DEF VsolRegister, Return
  <2> QED BY <1>0, <1>15, <2>1, OthersKept DEF VsolRegister, Mikrotik, TransferInv
<1>16. CASE VsolPoll
  <2>1. HeldOfJob' BY <1>0, <1>16, HeldKept DEF VsolPoll, Return
  <2> QED BY <1>0, <1>16, <2>1, OthersKept DEF VsolPoll, Mikrotik, TransferInv
<1>17. CASE VsolCheck
  <2>1. HeldOfJob' BY <1>0, <1>17, HeldKept DEF VsolCheck, Return
  <2> QED BY <1>0, <1>17, <2>1, OthersKept DEF VsolCheck, Mikrotik, TransferInv
<1>18. CASE UploadArrives
  <2>1. HeldOfJob' BY <1>0, <1>18, HeldKept DEF UploadArrives
  <2> QED BY <1>0, <1>18, <2>1, OthersKept DEF UploadArrives, Mikrotik, TransferInv
<1>19. CASE UploadEnds
  <2>1. HeldOfJob' BY <1>0, <1>19, HeldKept DEF UploadEnds
  <2>2. ~Mikrotik BY <1>0, <1>19 DEF UploadEnds
  <2>3. DOMAIN copy' = Names BY <1>19 DEF UploadEnds
  <2> QED BY <1>0, <1>19, <2>1, <2>2, <2>3, OthersKept DEF UploadEnds, Mikrotik, TransferInv
<1>20. CASE TokenExpires
  <2>1. HeldOfJob' BY <1>0, <1>20, HeldKept DEF TokenExpires
  <2>2. CASE Mikrotik
    <3>1. Downloaded' BY <1>0, <1>20, <2>2 DEF TokenExpires, Downloaded, Covered
    <3> QED BY <1>0, <1>20, <2>1, <2>2, <3>1, DownloadKept DEF TokenExpires
  <2>3. CASE ~Mikrotik
    BY <1>0, <1>20, <2>1, <2>3, OthersKept DEF TokenExpires, Mikrotik, TransferInv
  <2> QED BY <2>2, <2>3
<1>21. CASE UNCHANGED tvars
  BY <1>21 DEF tvars, TransferInv, HeldOfJob, Mikrotik, Downloaded, Covered, Names
<1> QED
  BY <1>1, <1>2, <1>3, <1>4, <1>5, <1>6, <1>7, <1>8, <1>9, <1>10, <1>11, <1>12, <1>13, <1>14,
     <1>15, <1>16, <1>17, <1>18, <1>19, <1>20, <1>21
  DEF TransferNext

\* What NoFileAfterExpiry promises to last.
GivenUp == job.name = "vsol_export" /\ step = "done" /\ ~token /\ ~Arrived

\* A request already writing would have left half a file by then, and a later one is
\* refused without a token; none is handed out any more.
LEMMA GivenUpLasts ==
    ASSUME TransferInv, GivenUp, [TransferNext]_tvars
    PROVE  GivenUp'
<1> USE BaseAssumption DEF GivenUp
<1>1. CASE UploadArrives BY <1>1 DEF UploadArrives, Arrived, Names
<1>2. CASE UploadEnds
  <2>1. \A n \in Names : copy[n] # "none" BY <1>2 DEF UploadEnds, TransferInv
  <2>2. Names = {} BY <2>1 DEF Arrived
  <2>3. Files = {} BY <2>2 DEF Names
  <2> QED BY <1>2, <2>3 DEF UploadEnds
<1>3. CASE TokenExpires BY <1>3 DEF TokenExpires
<1>4. CASE UNCHANGED tvars BY <1>4 DEF tvars, Arrived, Names
<1>5. CASE TransferNext /\ ~UploadArrives /\ ~UploadEnds /\ ~TokenExpires
  <2>1. \/ MikrotikConnect \/ MikrotikConnectFails \/ MikrotikList \/ MikrotikListFails
        \/ FetchOk \/ FetchFails \/ MikrotikCount \/ MikrotikWipe \/ MikrotikWipeFails
        \/ ZabbixConnect \/ ZabbixDump
        \/ GrafanaConnect \/ GrafanaList \/ GrafanaFetch
        \/ VsolRegister \/ VsolPoll \/ VsolCheck
    BY <1>5 DEF TransferNext
  <2> QED
    BY <2>1
    DEF MikrotikConnect, MikrotikConnectFails, MikrotikList, MikrotikListFails, FetchOk,
        FetchFails, MikrotikCount, MikrotikWipe, MikrotikWipeFails, ZabbixConnect, ZabbixDump,
        GrafanaConnect, GrafanaList, GrafanaFetch, VsolRegister, VsolPoll, VsolCheck
<1> QED BY <1>1, <1>2, <1>3, <1>4, <1>5

-----------------------------------------------------------------------------
(* The scripts of the catalog. *)

\* What the worker holds open, by where the script is.
Quiet == {"start", "probe", "open", "judge", "save", "parts", "stage", "exit"}

OpenByPlace ==
    /\ open \subseteq {"bastion", "target", "shell", "key"}
    /\ pc \in Quiet => open \subseteq {"bastion"}
    /\ pc = "done" => open = {}

\* What is saved was accepted, and the file of a success is what was accepted.
SavedAccepted ==
    /\ pc \in {"save", "parts"} => Accepted(kept)
    /\ pc = "parts" => file = kept
    /\ res = "success" => pc \in {"exit", "done"} /\ file = kept /\ Accepted(kept)

LEMMA OpenStarts ==
    ASSUME Init \/ NoScript
    PROVE  OpenByPlace /\ SavedAccepted
BY DEF Init, NoScript, OpenByPlace, SavedAccepted

LEMMA BehindIsBastion == \A bare \in BOOLEAN : Behind(bare) \subseteq {"bastion"}
BY DEF Behind

LEMMA OpenKept ==
    ASSUME OpenByPlace, [Next]_vars
    PROVE  OpenByPlace'
<1> USE DEF OpenByPlace, Quiet
<1>1. CASE Refuse BY <1>1 DEF Refuse
<1>2. CASE Begin BY <1>2 DEF Begin, EnterStage
<1>3. CASE NextStage BY <1>3 DEF NextStage, EnterStage
<1>4. CASE ProbeOk BY <1>4 DEF ProbeOk, Behind
<1>5. CASE ProbeFails BY <1>5 DEF ProbeFails, Behind
<1>6. CASE SpawnDirect BY <1>6 DEF SpawnDirect
<1>7. CASE SpawnShell BY <1>7 DEF SpawnShell
<1>8. CASE ShellReady BY <1>8 DEF ShellReady
<1>9. CASE ShellFails BY <1>9 DEF ShellFails
<1>10. CASE LoginOk BY <1>10 DEF LoginOk
<1>11. CASE LoginFails BY <1>11 DEF LoginFails
<1>12. CASE Connect BY <1>12 DEF Connect, Behind
<1>13. CASE ConnectFails BY <1>13 DEF ConnectFails, Behind
<1>14. CASE Prepare BY <1>14 DEF Prepare
<1>15. CASE PrepareRaises BY <1>15 DEF PrepareRaises
<1>16. CASE Answer BY <1>16 DEF Answer
<1>17. CASE AnswerRaises BY <1>17 DEF AnswerRaises
<1>18. CASE EndSession BY <1>18 DEF EndSession, Closed
<1>19. CASE Judge BY <1>19 DEF Judge
<1>20. CASE Save BY <1>20 DEF Save
<1>21. CASE SaveRaises BY <1>21 DEF SaveRaises
<1>22. CASE VisitPart BY <1>22 DEF VisitPart, Behind
<1>23. CASE Consolidate BY <1>23 DEF Consolidate
<1>24. CASE ConsolidateRaises BY <1>24 DEF ConsolidateRaises
<1>25. CASE Exit BY <1>25 DEF Exit
<1>26. CASE UNCHANGED vars BY <1>26 DEF vars
<1> QED
  BY <1>1, <1>2, <1>3, <1>4, <1>5, <1>6, <1>7, <1>8, <1>9, <1>10, <1>11, <1>12, <1>13, <1>14,
     <1>15, <1>16, <1>17, <1>18, <1>19, <1>20, <1>21, <1>22, <1>23, <1>24, <1>25, <1>26
  DEF Next

\* Whether an answer is accepted depends on the stage alone.
LEMMA SameStage ==
    ASSUME UNCHANGED <<run, at>>
    PROVE  S' = S /\ \A a : Accepted(a)' = Accepted(a)
BY DEF S, Stages, Accepted, Pair

LEMMA AcceptedKept ==
    ASSUME SavedAccepted, [Next]_vars
    PROVE  SavedAccepted'
<1>1. CASE Refuse BY <1>1 DEF Refuse, SavedAccepted
<1>2. CASE Begin BY <1>2 DEF Begin, EnterStage, SavedAccepted
<1>3. CASE NextStage BY <1>3 DEF NextStage, EnterStage, SavedAccepted
<1>4. CASE ProbeOk BY <1>4 DEF ProbeOk, SavedAccepted
<1>5. CASE ProbeFails BY <1>5 DEF ProbeFails, SavedAccepted
<1>6. CASE SpawnDirect BY <1>6 DEF SpawnDirect, SavedAccepted
<1>7. CASE SpawnShell BY <1>7 DEF SpawnShell, SavedAccepted
<1>8. CASE ShellReady BY <1>8 DEF ShellReady, SavedAccepted
<1>9. CASE ShellFails BY <1>9 DEF ShellFails, SavedAccepted
<1>10. CASE LoginOk BY <1>10 DEF LoginOk, SavedAccepted
<1>11. CASE LoginFails BY <1>11 DEF LoginFails, SavedAccepted
<1>12. CASE Connect BY <1>12 DEF Connect, SavedAccepted
<1>13. CASE ConnectFails BY <1>13 DEF ConnectFails, SavedAccepted
<1>14. CASE Prepare BY <1>14 DEF Prepare, SavedAccepted
<1>15. CASE PrepareRaises BY <1>15 DEF PrepareRaises, SavedAccepted
<1>16. CASE Answer BY <1>16 DEF Answer, SavedAccepted
<1>17. CASE AnswerRaises BY <1>17 DEF AnswerRaises, SavedAccepted
<1>18. CASE EndSession BY <1>18 DEF EndSession, SavedAccepted
<1>19. CASE Judge BY <1>19, SameStage DEF Judge, SavedAccepted
<1>20. CASE Save BY <1>20, SameStage DEF Save, SavedAccepted
<1>21. CASE SaveRaises BY <1>21 DEF SaveRaises, SavedAccepted
<1>22. CASE VisitPart BY <1>22, SameStage DEF VisitPart, SavedAccepted
<1>23. CASE Consolidate BY <1>23, SameStage DEF Consolidate, SavedAccepted
<1>24. CASE ConsolidateRaises BY <1>24 DEF ConsolidateRaises, SavedAccepted
<1>25. CASE Exit BY <1>25, SameStage DEF Exit, SavedAccepted
<1>26. CASE UNCHANGED vars BY <1>26, SameStage DEF vars, SavedAccepted
<1> QED
  BY <1>1, <1>2, <1>3, <1>4, <1>5, <1>6, <1>7, <1>8, <1>9, <1>10, <1>11, <1>12, <1>13, <1>14,
     <1>15, <1>16, <1>17, <1>18, <1>19, <1>20, <1>21, <1>22, <1>23, <1>24, <1>25, <1>26
  DEF Next

-----------------------------------------------------------------------------
(* Both kinds of script. *)

RunInv == TransferInv /\ OpenByPlace /\ SavedAccepted

LEMMA RunStarts == RunInit => RunInv
BY TransferStarts, OpenStarts DEF RunInit, RunInv

LEMMA RunKept == RunInv /\ [RunNext]_<<vars, tvars>> => RunInv'
<1> SUFFICES ASSUME RunInv, [RunNext]_<<vars, tvars>>
             PROVE  RunInv'
  OBVIOUS
<1>1. [Next]_vars /\ [TransferNext]_tvars BY DEF RunNext
<1> QED BY <1>1, TransferKept, OpenKept, AcceptedKept DEF RunInv

\* For every script, every failure and every jump host: a script that has returned leaves
\* nothing open (AllClosed, which says it of the finally blocks, the with blocks and the
\* patcher's __exit__) but the jump client create_ssh_client may leak.
THEOREM NothingStaysOpen == RunSpec => []AllClosed
<1>1. RunInv => AllClosed
  BY DEF RunInv, AllClosed, NothingLeftOpen, TransferClosed, OpenByPlace, TransferInv, HeldOfJob,
         Quiet, Mikrotik
<1> QED BY <1>1, RunStarts, RunKept, PTL DEF RunSpec

\* A success is returned only with a whole file of an accepted answer (SuccessHasFile, over
\* the fallbacks from stage to stage), whatever the catalog's rules of acceptance are.
THEOREM FileOfSuccess == RunSpec => []SuccessHasFile
<1>1. RunInv => SuccessHasFile BY DEF RunInv, SavedAccepted, SuccessHasFile
<1> QED BY <1>1, RunStarts, RunKept, PTL DEF RunSpec

\* delete_after_download removes no file it has not copied, tried to copy, or copied under a
\* name another file has (RemovedIsCopied), for any files and names.
THEOREM RemovedHasCopy == RunSpec => []RemovedIsCopied
<1>1. RunInv => RemovedIsCopied
  <2> SUFFICES ASSUME RunInv PROVE RemovedIsCopied
    OBVIOUS
  <2>1. CASE Mikrotik
    BY <2>1 DEF RunInv, TransferInv, Downloaded, Covered, RemovedIsCopied
  <2>2. CASE ~Mikrotik
    BY <2>2 DEF RunInv, TransferInv, RemovedIsCopied
  <2> QED BY <2>1, <2>2
<1> QED BY <1>1, RunStarts, RunKept, PTL DEF RunSpec

\* Once the export of a VSOL OLT was given up and its token is gone no upload stores a file
\* any more (NoFileAfterExpiry, about olt_config_upload).
THEOREM ExpiryIsFinal == RunSpec => NoFileAfterExpiry
<1>1. RunInv /\ GivenUp /\ [RunNext]_<<vars, tvars>> => GivenUp'
  <2> SUFFICES ASSUME RunInv, GivenUp, [RunNext]_<<vars, tvars>>
               PROVE  GivenUp'
    OBVIOUS
  <2>1. [TransferNext]_tvars BY DEF RunNext
  <2> QED BY <2>1, GivenUpLasts DEF RunInv
<1>2. GivenUp => ~Arrived BY DEF GivenUp
<1>3. RunSpec => [](GivenUp => []~Arrived)
  BY <1>1, <1>2, RunStarts, RunKept, PTL DEF RunSpec
<1> QED BY <1>3 DEF NoFileAfterExpiry, GivenUp

-----------------------------------------------------------------------------
(* The catalog, script by script: what the search for an answer relies on. *)

Little == {"none", "short"}

\* Of a script that holds the longest answer: an answer that ends its search is held and
\* is long, and what is held though it is refused is little, unless the script is one of
\* those in which the longest wins.
HoldFits(h, n) ==
    /\ h.keep \in {"last", "accepted", "longest"}
    /\ h.keep = "longest" =>
        /\ \A p \in h.stops \cap h.accepts : p \in h.keeps /\ p[1] \notin Little
        /\ n \in LongestWins \/ \A p \in h.keeps \ h.accepts : p[1] \in Little

\* A stage makes finitely many test connections and sends something.
Counts(reach, read) ==
    reach.probes \in Nat /\ read.cmds \in Nat \ {0} /\ read.tries \in {1, 2}

\* A second session and a way round the jump host are for the scripts known to have them.
StageFits(s, n, telnet) ==
    /\ HoldFits(s.hold, n)
    /\ Counts(s.reach, s.read)
    /\ s.read.sessions = 1 \/ (s.read.sessions = 2 /\ n \in LongestWins)
    /\ s.reach.bare \/ s.reach.via = "direct" => [name |-> n, telnet |-> telnet] \in Bypass

SideFits(stages, n, telnet) ==
    /\ Len(stages) \in Nat /\ (stages # <<>> => Len(stages) > 0)
    /\ \A i \in 1..Len(stages) : StageFits(stages[i], n, telnet)

ScriptFits(s, n) == SideFits(s.ssh, n, FALSE) /\ SideFits(s.telnet, n, TRUE)

\* A rule that does not compare lengths.
LEMMA NoLengths ==
    ASSUME NEW keep \in {"last", "accepted"}, NEW keeps, NEW stops, NEW accepts, NEW n
    PROVE  HoldFits(Hold(keep, keeps, stops, accepts), n)
BY DEF HoldFits, Hold

\* A rule that holds the longest answer without an error.
LEMMA CleanLengths ==
    ASSUME NEW kinds \in {{"config"}, {"text", "config"}}, NEW E, NEW F, NEW G, NEW n,
           F \subseteq E,
           n \in LongestWins \/ (kinds = {"text", "config"} /\ E \subseteq G)
    PROVE  HoldFits(Hold("longest", Clean \X E, kinds \X F, kinds \X G), n)
<1> DEFINE h == Hold("longest", Clean \X E, kinds \X F, kinds \X G)
<1>1. /\ h.keep = "longest" /\ h.keeps = Clean \X E
      /\ h.stops = kinds \X F /\ h.accepts = kinds \X G
  BY DEF Hold
<1>2. kinds \subseteq Clean /\ kinds \cap Little = {} BY DEF Clean, Kinds, Little
<1>3. \A p \in h.stops \cap h.accepts : p \in h.keeps /\ p[1] \notin Little
  BY <1>1, <1>2
<1>4. ASSUME n \notin LongestWins, NEW p \in h.keeps \ h.accepts
      PROVE  p[1] \in Little
  <2>1. p \in Clean \X E /\ p \notin kinds \X G BY <1>1, <1>4
  <2>2. p[1] \in Clean /\ p[2] \in E /\ p = <<p[1], p[2]>> BY <2>1
  <2>3. p[1] \notin kinds
    <3> SUFFICES ASSUME p[1] \in kinds PROVE FALSE
      OBVIOUS
    <3>1. <<p[1], p[2]>> \in kinds \X G BY <1>4, <2>2
    <3> QED BY <2>1, <2>2, <3>1
  <2>4. kinds = {"text", "config"} BY <1>4
  <2> QED BY <2>2, <2>3, <2>4 DEF Clean, Kinds, Little
<1>5. HoldFits(h, n) BY <1>1, <1>3, <1>4 DEF HoldFits
<1> QED BY <1>5

\* A script that does the same over SSH and telnet, in one stage.
LEMMA OneStage ==
    ASSUME NEW reach, NEW read, NEW hold, NEW next, NEW n, NEW m,
           HoldFits(hold, n), Counts(reach, read), read.sessions = 1,
           ~reach.bare, reach.via # "direct"
    PROVE  StageFits(Stage(reach, read, hold, next), n, m)
BY DEF StageFits, Stage

LEMMA NoSide == \A n, m : SideFits(<<>>, n, m)
BY DEF SideFits

LEMMA OneSide ==
    ASSUME NEW s, NEW n, NEW m, StageFits(s, n, m)
    PROVE  SideFits(<<s>>, n, m)
<1>1. 1..Len(<<s>>) = {1} /\ <<s>>[1] = s OBVIOUS
<1> QED BY <1>1 DEF SideFits

LEMMA TwoSide ==
    ASSUME NEW s, NEW t, NEW n, NEW m, StageFits(s, n, m), StageFits(t, n, m)
    PROVE  SideFits(<<s, t>>, n, m)
<1>1. 1..Len(<<s, t>>) = {1, 2} /\ <<s, t>>[1] = s /\ <<s, t>>[2] = t OBVIOUS
<1> QED BY <1>1 DEF SideFits

LEMMA BothSides ==
    ASSUME NEW a, NEW b, NEW n, SideFits(a, n, FALSE), SideFits(b, n, TRUE)
    PROVE  ScriptFits(Script(a, b), n)
<1>1. Script(a, b).ssh = a /\ Script(a, b).telnet = b BY DEF Script
<1> QED BY <1>1 DEF ScriptFits

LEMMA OneEach ==
    ASSUME NEW s, NEW t, NEW n, StageFits(s, n, FALSE), StageFits(t, n, TRUE)
    PROVE  ScriptFits(Script(<<s>>, <<t>>), n)
BY OneSide, BothSides

LEMMA OneAlways ==
    ASSUME NEW s, NEW n, StageFits(s, n, FALSE), StageFits(s, n, TRUE)
    PROVE  ScriptFits(Always(<<s>>), n)
BY OneEach DEF Always

\* Reading once through netmiko or the jump host's shell.
LEMMA ReachAndRead ==
    ASSUME NEW via \in {"netmiko", "expect"}, NEW probes \in Nat, NEW fatal,
           NEW cmds \in Nat \ {0}, NEW goesOn, NEW ends
    PROVE  /\ ~Reach(via, probes, fatal).bare /\ Reach(via, probes, fatal).via # "direct"
           /\ Read(cmds, goesOn, ends).sessions = 1
           /\ Counts(Reach(via, probes, fatal), Read(cmds, goesOn, ends))
BY DEF Reach, Read, Counts

PlainNames ==
    {"cdata_olt", "checkpoint_firewall", "cisco_router", "fortinet_firewall", "furukawa_olt",
     "ixc_erp", "juniper_router", "mkauth_erp", "pfsense_firewall", "sap_erp", "sgp_erp",
     "sonicwall_firewall", "switch_aruba", "switch_dell", "switch_extreme", "switch_zte",
     "topsap_erp", "vcorp_cgnat", "voalle_erp"}

LEMMA PlainFits ==
    ASSUME NEW n \in PlainNames
    PROVE  ScriptFits(Catalog[n], n)
<1>1. Catalog[n] = Plain
  BY DEF PlainNames, Catalog, cdata_olt, checkpoint_firewall, cisco_router, fortinet_firewall,
         furukawa_olt, ixc_erp, juniper_router, mkauth_erp, pfsense_firewall, sap_erp, sgp_erp,
         sonicwall_firewall, switch_aruba, switch_dell, switch_extreme, switch_zte, topsap_erp,
         vcorp_cgnat, voalle_erp
<1>2. HoldFits(PlainHold, n) BY NoLengths DEF PlainHold
<1>3. ASSUME NEW m \in BOOLEAN
      PROVE  StageFits(Stage(Reach("netmiko", 0, FALSE), PlainRead, PlainHold, {}), n, m)
  <2> DEFINE reach == Reach("netmiko", 0, FALSE)
  <2>1. /\ ~reach.bare /\ reach.via # "direct" /\ PlainRead.sessions = 1
        /\ Counts(reach, PlainRead)
    BY DEF Reach, PlainRead, Read, Counts
  <2> QED BY <1>2, <2>1, OneStage
<1>4. ScriptFits(Plain, n) BY <1>3, OneAlways DEF Plain
<1> QED BY <1>1, <1>4

ProfileNames ==
    {"switch_juniper", "switch_ubiquiti", "switch_arista", "switch_intelbras", "switch_nokia",
     "nokia_router", "hillstone_cgnat", "a10_cgnat", "ubiquiti_olt", "nokia_olt",
     "shoreline_olt", "think_olt", "unifibra_olt"}

LEMMA ProfileFits ==
    ASSUME NEW n \in ProfileNames
    PROVE  ScriptFits(Catalog[n], n)
<1>1. Catalog[n] \in {Profile(1, 1, 2), Profile(2, 3, 1), Profile(2, 3, 2), Profile(2, 3, 3),
                     Profile(3, 4, 3), Profile(4, 5, 3), Profile(4, 6, 6)}
  BY DEF ProfileNames, Catalog, switch_juniper, switch_ubiquiti, switch_arista, switch_intelbras,
         switch_nokia, nokia_router, hillstone_cgnat, a10_cgnat, ubiquiti_olt, nokia_olt,
         shoreline_olt, think_olt, unifibra_olt, OltGeneric
<1>2. HoldFits(ProfileHold, n) BY NoLengths DEF ProfileHold
<1>3. ASSUME NEW candidates \in Nat, NEW commands \in Nat \ {0}, NEW m \in BOOLEAN
      PROVE  StageFits(ProfileStage(candidates, commands), n, m)
  BY <1>2, ReachAndRead, OneStage DEF ProfileStage
<1>4. ASSUME NEW candidates \in Nat, NEW withTelnet \in Nat, NEW commands \in Nat \ {0}
      PROVE  ScriptFits(Profile(candidates, withTelnet, commands), n)
  BY <1>3, OneEach DEF Profile
<1> QED BY <1>1, <1>4

LEMMA DatacomFits ==
    ASSUME NEW n \in {"switch_datacom", "datacom_olt"}
    PROVE  ScriptFits(Catalog[n], n)
<1>1. Catalog[n] = Always(<<DatacomStage(3)>>)
  BY DEF Catalog, switch_datacom, datacom_olt
<1>2. HoldFits(LongHold, n) BY CleanLengths DEF LongHold
<1>3. ASSUME NEW m \in BOOLEAN
      PROVE  StageFits(DatacomStage(3), n, m)
  <2>1. /\ ~Reach("netmiko", 1, TRUE).bare /\ Reach("netmiko", 1, TRUE).via # "direct"
        /\ Read(3, TRUE, TimingEnds).sessions = 1
        /\ Counts(Reach("netmiko", 1, TRUE), Read(3, TRUE, TimingEnds))
    BY DEF Reach, Read, Counts
  <2> QED BY <1>2, <2>1, OneStage DEF DatacomStage
<1> QED BY <1>1, <1>3, OneAlways

LEMMA IntelbrasFits == ScriptFits(Catalog["intelbras_olt"], "intelbras_olt")
<1> DEFINE n == "intelbras_olt"
<1>1. Catalog[n] = Script(<<intelbrasSsh>>, <<intelbrasTelnet>>)
  BY DEF Catalog, intelbras_olt
<1>2. HoldFits(LongHold, n) BY CleanLengths DEF LongHold
<1>3. StageFits(intelbrasSsh, n, FALSE)
  <2>1. /\ ~Reach("netmiko", 1, TRUE).bare /\ Reach("netmiko", 1, TRUE).via # "direct"
        /\ Read(8, TRUE, TimingEnds).sessions = 1
        /\ Counts(Reach("netmiko", 1, TRUE), Read(8, TRUE, TimingEnds))
    BY DEF Reach, Read, Counts
  <2> QED BY <1>2, <2>1, OneStage DEF DatacomStage, intelbrasSsh
<1>4. StageFits(intelbrasTelnet, n, TRUE)
  <2> DEFINE E == {"prompt", "eof"}
             hold(F) == Hold("longest", Clean \X Endings, {"text", "config"} \X F,
                             {"text", "config"} \X Endings)
  <2>1. /\ ~intelbrasReach.bare /\ intelbrasReach.via # "direct" /\ intelbrasRead.sessions = 1
        /\ Counts(intelbrasReach, intelbrasRead)
    BY DEF intelbrasReach, intelbrasRead, Reach, Read, Counts
  <2>2. ASSUME NEW F, F \subseteq Endings
        PROVE  HoldFits(hold(F), n)
    BY <2>2, CleanLengths
  <2>3. HoldFits(hold(E), n) BY <2>2 DEF Endings
  <2> QED BY <2>1, <2>3, OneStage DEF intelbrasTelnet
<1> QED BY <1>1, <1>3, <1>4, OneEach

LEMMA TplinkFits == ScriptFits(Catalog["switch_tplink"], "switch_tplink")
<1> DEFINE n == "switch_tplink"
           stage(candidates) ==
               Stage(tplinkReach(candidates), Read(2, FALSE, {"prompt"}), tplinkHold, {})
<1>1. Catalog[n] = Script(<<stage(2)>>, <<stage(3)>>)
  BY DEF Catalog, switch_tplink
<1>2. HoldFits(tplinkHold, n) BY NoLengths DEF tplinkHold
<1>3. ASSUME NEW m \in BOOLEAN, NEW candidates \in Nat
      PROVE  StageFits(stage(candidates), n, m)
  <2>1. /\ ~tplinkReach(candidates).bare /\ tplinkReach(candidates).via # "direct"
        /\ Read(2, FALSE, {"prompt"}).sessions = 1
        /\ Counts(tplinkReach(candidates), Read(2, FALSE, {"prompt"}))
    BY DEF tplinkReach, Reach, Read, Counts
  <2> QED BY <1>2, <2>1, OneStage
<1> HIDE DEF stage
<1> QED BY <1>1, <1>3, OneEach

LEMMA OltFits ==
    ASSUME NEW n \in {"cianet_olt", "parks_olt", "tplink_olt", "maxprint_olt"}
    PROVE  ScriptFits(Catalog[n], n)
<1>1. \E commands \in Nat \ {0} : Catalog[n] = Always(<<OltStage(commands)>>)
  BY DEF Catalog, cianet_olt, parks_olt, tplink_olt, maxprint_olt
<1>2. n \in LongestWins BY DEF LongestWins
<1>3. HoldFits(OltHold, n) BY <1>2, CleanLengths DEF OltHold
<1>4. ASSUME NEW m \in BOOLEAN, NEW commands \in Nat \ {0}
      PROVE  StageFits(OltStage(commands), n, m)
  <2>1. /\ ~OltReach.bare /\ OltReach.via # "direct" /\ OltRead(commands).sessions = 1
        /\ Counts(OltReach, OltRead(commands))
    BY DEF OltReach, OltRead, Reach, Read, Counts
  <2> QED BY <1>3, <2>1, OneStage DEF OltStage
<1> QED BY <1>1, <1>4, OneAlways

LEMMA VsolFits == ScriptFits(Catalog["vsol_olt"], "vsol_olt")
<1> DEFINE n == "vsol_olt"
<1>1. Catalog[n] = Always(<<Stage(OltReach, vsolRead, vsolHold, {})>>) BY DEF Catalog, vsol_olt
<1>2. HoldFits(vsolHold, n) BY NoLengths DEF vsolHold
<1>3. ASSUME NEW m \in BOOLEAN
      PROVE  StageFits(Stage(OltReach, vsolRead, vsolHold, {}), n, m)
  <2>1. /\ ~OltReach.bare /\ OltReach.via # "direct" /\ vsolRead.sessions = 1
        /\ Counts(OltReach, vsolRead)
    BY DEF OltReach, vsolRead, OltRead, Reach, Read, Counts
  <2> QED BY <1>2, <2>1, OneStage
<1> QED BY <1>1, <1>3, OneAlways

LEMMA DigistarFits == ScriptFits(Catalog["digistar_olt"], "digistar_olt")
<1> DEFINE n == "digistar_olt"
<1>1. Catalog[n] = Always(<<Stage(digistarReach, digistarRead, digistarHold, {})>>)
  BY DEF Catalog, digistar_olt
<1>2. n \in LongestWins BY DEF LongestWins
<1>3. HoldFits(digistarHold, n) BY <1>2, CleanLengths DEF digistarHold, AnyEndHold
<1>4. ASSUME NEW m \in BOOLEAN
      PROVE  StageFits(Stage(digistarReach, digistarRead, digistarHold, {}), n, m)
  <2>1. /\ ~digistarReach.bare /\ digistarReach.via # "direct" /\ digistarRead.sessions = 1
        /\ Counts(digistarReach, digistarRead)
    BY DEF digistarReach, digistarRead, Reach, Read, Counts
  <2> QED BY <1>3, <2>1, OneStage
<1> QED BY <1>1, <1>4, OneAlways

LEMMA ZteFits == ScriptFits(Catalog["zte_olt"], "zte_olt")
<1> DEFINE n == "zte_olt"
<1>1. Catalog[n] = Always(<<Stage(zteReach, zteRead, zteHold, {})>>) BY DEF Catalog, zte_olt
<1>2. n \in LongestWins BY DEF LongestWins
<1>3. HoldFits(zteHold, n) BY <1>2, CleanLengths DEF zteHold, AnyEndHold
<1>4. ASSUME NEW m \in BOOLEAN
      PROVE  StageFits(Stage(zteReach, zteRead, zteHold, {}), n, m)
  <2>1. /\ ~zteReach.bare /\ zteReach.via # "direct" /\ zteRead.sessions = 1
        /\ Counts(zteReach, zteRead)
    BY DEF zteReach, zteRead, Reach, Read, Counts
  <2> QED BY <1>3, <2>1, OneStage
<1> QED BY <1>1, <1>4, OneAlways

LEMMA HuaweiNeFits == ScriptFits(Catalog["huawei_ne_router"], "huawei_ne_router")
<1> DEFINE n == "huawei_ne_router"
           reach == Reach("netmiko", 3, FALSE)
<1>1. Catalog[n] = Always(<<Stage(reach, huaweiNeRead, huaweiNeHold, {})>>)
  BY DEF Catalog, huawei_ne_router
<1>2. HoldFits(huaweiNeHold, n) BY NoLengths DEF huaweiNeHold, ProfileHold
<1>3. ASSUME NEW m \in BOOLEAN
      PROVE  StageFits(Stage(reach, huaweiNeRead, huaweiNeHold, {}), n, m)
  <2>1. /\ ~reach.bare /\ reach.via # "direct" /\ huaweiNeRead.sessions = 1
        /\ Counts(reach, huaweiNeRead)
    BY DEF huaweiNeRead, SentTwice, Reach, Read, Counts
  <2> QED BY <1>2, <2>1, OneStage
<1> HIDE DEF reach
<1> QED BY <1>1, <1>3, OneAlways

LEMMA HuaweiOltFits == ScriptFits(Catalog["huawei_olt"], "huawei_olt")
<1> DEFINE n == "huawei_olt"
           stage(next) == Stage(huaweiOltReach, huaweiOltRead, huaweiOltHold, next)
           first == stage({"closed"})
           last == stage({})
           script == Script(<<last>>, <<first, last>>)
<1>1. Catalog[n] = script BY DEF Catalog, huawei_olt
<1>2. HoldFits(huaweiOltHold, n) BY NoLengths DEF huaweiOltHold
<1>3. ASSUME NEW m \in BOOLEAN, NEW next
      PROVE  StageFits(stage(next), n, m)
  <2>1. /\ ~huaweiOltReach.bare /\ huaweiOltReach.via # "direct" /\ huaweiOltRead.sessions = 1
        /\ Counts(huaweiOltReach, huaweiOltRead)
    BY DEF huaweiOltReach, huaweiOltRead, Reach, Read, Counts
  <2> QED BY <1>2, <2>1, OneStage
<1>4. StageFits(last, n, FALSE) /\ StageFits(first, n, TRUE) /\ StageFits(last, n, TRUE)
  BY <1>3
<1> HIDE DEF first, last
<1>5. SideFits(<<last>>, n, FALSE) BY <1>4, OneSide
<1>6. SideFits(<<first, last>>, n, TRUE) BY <1>4, TwoSide
<1>7. ScriptFits(script, n) BY <1>5, <1>6, BothSides
<1> QED BY <1>1, <1>7

LEMMA SwitchHuaweiFits == ScriptFits(Catalog["switch_huawei"], "switch_huawei")
<1> DEFINE n == "switch_huawei"
           stage(candidates, next) ==
               Stage(Reach("netmiko", candidates, FALSE), switchHuaweiRead, switchHuaweiHold, next)
           first == stage(3, {"algorithm"})
           only == stage(5, {})
           script == Script(<<first, switchHuaweiLegacy>>, <<only>>)
<1>1. Catalog[n] = script BY DEF Catalog, switch_huawei
<1>2. n \in LongestWins BY DEF LongestWins
<1>3. ASSUME NEW m \in BOOLEAN, NEW candidates \in Nat, NEW next
      PROVE  StageFits(stage(candidates, next), n, m)
  <2> DEFINE reach == Reach("netmiko", candidates, FALSE)
  <2>1. ~reach.bare /\ reach.via # "direct" BY DEF Reach
  <2>2. switchHuaweiRead.sessions = 2 /\ Counts(reach, switchHuaweiRead)
    BY DEF switchHuaweiRead, SentTwice, Read, Reach, Counts
  <2>3. HoldFits(switchHuaweiHold, n) BY NoLengths DEF switchHuaweiHold, ProfileHold
  <2> HIDE DEF reach
  <2>4. stage(candidates, next).reach = reach /\ stage(candidates, next).read = switchHuaweiRead
        /\ stage(candidates, next).hold = switchHuaweiHold
    BY DEF Stage, reach
  <2> QED BY <1>2, <2>1, <2>2, <2>3, <2>4 DEF StageFits
<1>4. StageFits(switchHuaweiLegacy, n, FALSE)
  <2> DEFINE keeps == Kinds \X ExpectEnds
             stops == {"text", "config"} \X {"prompt", "eof"}
             accepts == {"text", "config"} \X ExpectEnds
             hold == Hold("longest", keeps, stops, accepts)
  <2>1. /\ hold.keep = "longest" /\ hold.keeps = keeps
        /\ hold.stops = stops /\ hold.accepts = accepts
    BY DEF Hold
  <2>2. \A p \in stops \cap accepts : p \in keeps /\ p[1] \notin Little
    BY DEF Kinds, Little, ExpectEnds
  <2>3. HoldFits(hold, n) BY <1>2, <2>1, <2>2 DEF HoldFits
  <2>4. /\ ~legacyReach.bare /\ legacyReach.via # "direct" /\ legacyRead.sessions = 1
        /\ Counts(legacyReach, legacyRead)
    BY DEF legacyReach, legacyRead, Reach, Read, Counts
  <2> HIDE DEF hold
  <2>5. switchHuaweiLegacy = Stage(legacyReach, legacyRead, hold, {})
    BY DEF switchHuaweiLegacy, hold
  <2> QED BY <2>3, <2>4, <2>5, OneStage
<1>5. StageFits(first, n, FALSE) /\ StageFits(only, n, TRUE) BY <1>3
<1> HIDE DEF first, only
<1>6. SideFits(<<first, switchHuaweiLegacy>>, n, FALSE) BY <1>4, <1>5, TwoSide
<1>7. SideFits(<<only>>, n, TRUE) BY <1>5, OneSide
<1>8. ScriptFits(script, n) BY <1>6, <1>7, BothSides
<1> QED BY <1>1, <1>8

\* What ignores the jump host is listed as doing so.
LEMMA RoundStage ==
    ASSUME NEW reach, NEW read, NEW hold, NEW next, NEW n, NEW m,
           HoldFits(hold, n), Counts(reach, read), read.sessions = 1,
           [name |-> n, telnet |-> m] \in Bypass
    PROVE  StageFits(Stage(reach, read, hold, next), n, m)
BY DEF StageFits, Stage

LEMMA CiscoFits == ScriptFits(Catalog["switch_cisco"], "switch_cisco")
<1> DEFINE n == "switch_cisco"
           stage(candidates, next) ==
               Stage(ciscoReach(candidates), Read(5, TRUE, TimingEnds), ciscoHold, next)
           only == stage(2, {})
           first == stage(4, Reasons)
           script == Script(<<only>>, <<first, ciscoDirect>>)
<1>1. Catalog[n] = script BY DEF Catalog, switch_cisco
<1>2. n \in LongestWins /\ [name |-> n, telnet |-> TRUE] \in Bypass BY DEF LongestWins, Bypass
<1>3. HoldFits(ciscoHold, n) BY <1>2, CleanLengths DEF ciscoHold
<1>4. ASSUME NEW m \in BOOLEAN, NEW candidates \in Nat, NEW next
      PROVE  StageFits(stage(candidates, next), n, m)
  <2>1. /\ ~ciscoReach(candidates).bare /\ ciscoReach(candidates).via # "direct"
        /\ Read(5, TRUE, TimingEnds).sessions = 1
        /\ Counts(ciscoReach(candidates), Read(5, TRUE, TimingEnds))
    BY DEF ciscoReach, Reach, Read, Counts
  <2> QED BY <1>3, <2>1, OneStage
<1>5. StageFits(ciscoDirect, n, TRUE)
  <2>1. /\ Read(5, FALSE, Endings).sessions = 1
        /\ Counts(Reach("direct", 0, TRUE), Read(5, FALSE, Endings))
    BY DEF Read, Reach, Counts
  <2> QED BY <1>2, <1>3, <2>1, RoundStage DEF ciscoDirect
<1>6. StageFits(only, n, FALSE) /\ StageFits(first, n, TRUE) BY <1>4
<1> HIDE DEF first, only
<1>7. SideFits(<<only>>, n, FALSE) BY <1>6, OneSide
<1>8. SideFits(<<first, ciscoDirect>>, n, TRUE) BY <1>5, <1>6, TwoSide
<1>9. ScriptFits(script, n) BY <1>7, <1>8, BothSides
<1> QED BY <1>1, <1>9

LEMMA FiberhomeFits == ScriptFits(Catalog["fiberhome_olt"], "fiberhome_olt")
<1> DEFINE n == "fiberhome_olt"
           read == Read(2, FALSE, {"prompt"})
           only == Stage(fiberhomeReach(2), read, fiberhomeHold, {})
           script == Script(<<only>>, <<fiberhomeTelnet, fiberhomeDirect>>)
<1>1. Catalog[n] = script BY DEF Catalog, fiberhome_olt
<1>2. [name |-> n, telnet |-> TRUE] \in Bypass BY DEF Bypass
<1>3. HoldFits(fiberhomeHold, n) BY NoLengths DEF fiberhomeHold
<1>4. read.sessions = 1 BY DEF Read
<1>5. StageFits(only, n, FALSE)
  <2>1. /\ ~fiberhomeReach(2).bare /\ fiberhomeReach(2).via # "direct"
        /\ Counts(fiberhomeReach(2), read)
    BY DEF fiberhomeReach, Reach, Read, Counts
  <2> QED BY <1>3, <1>4, <2>1, OneStage
<1>6. StageFits(fiberhomeTelnet, n, TRUE)
  <2>1. Counts(Bare(fiberhomeReach(1)), read) BY DEF fiberhomeReach, Bare, Reach, Read, Counts
  <2> QED BY <1>2, <1>3, <1>4, <2>1, RoundStage DEF fiberhomeTelnet
<1>7. StageFits(fiberhomeDirect, n, TRUE)
  <2> DEFINE hold == Hold("accepted", {}, {"config"} \X {"prompt"}, {"config"} \X {"prompt"})
  <2>1. HoldFits(hold, n) BY NoLengths
  <2>2. fiberhomeRead.sessions = 1 /\ Counts(Reach("direct", 0, TRUE), fiberhomeRead)
    BY DEF fiberhomeRead, Read, Reach, Counts
  <2> QED BY <1>2, <2>1, <2>2, RoundStage DEF fiberhomeDirect
<1> HIDE DEF only
<1>8. SideFits(<<only>>, n, FALSE) BY <1>5, OneSide
<1>9. SideFits(<<fiberhomeTelnet, fiberhomeDirect>>, n, TRUE) BY <1>6, <1>7, TwoSide
<1>10. ScriptFits(script, n) BY <1>8, <1>9, BothSides
<1> QED BY <1>1, <1>10

LEMMA MikrotikFits == ScriptFits(Catalog["mikrotik_ros"], "mikrotik_ros")
<1> DEFINE n == "mikrotik_ros"
           stages == [port \in mikrotikPorts |-> mikrotikPort]
<1>1. Catalog[n] = Script(stages, stages) BY DEF Catalog, mikrotik_ros, Always
<1>2. HoldFits(mikrotikHold, n) BY NoLengths DEF mikrotikHold
<1>3. ASSUME NEW m \in BOOLEAN
      PROVE  StageFits(mikrotikPort, n, m)
  <2>1. /\ SentTwice(Read(4, TRUE, TimingEnds)).sessions = 1
        /\ Counts(Bare(Reach("netmiko", 1, FALSE)), SentTwice(Read(4, TRUE, TimingEnds)))
    BY DEF SentTwice, Read, Bare, Reach, Counts
  <2>2. [name |-> n, telnet |-> m] \in Bypass BY DEF Bypass
  <2> QED BY <1>2, <2>1, <2>2, RoundStage DEF mikrotikPort
<1>4. Len(stages) = 4 BY DEF mikrotikPorts
<1>5. \A i \in 1..Len(stages) : stages[i] = mikrotikPort BY <1>4 DEF mikrotikPorts
<1> HIDE DEF stages
<1>6. ASSUME NEW m \in BOOLEAN
      PROVE  SideFits(stages, n, m)
  BY <1>3, <1>4, <1>5 DEF SideFits
<1>7. ScriptFits(Script(stages, stages), n) BY <1>6, BothSides
<1> QED BY <1>1, <1>7

LegacyNames ==
    {"huawei_olt_simple", "huawei_olt_universal", "huawei_olt_smart", "huawei_ma5800_especifico",
     "huawei_olt_final"}

LEMMA LegacyFits ==
    ASSUME NEW n \in LegacyNames
    PROVE  ScriptFits(Catalog[n], n)
<1> DEFINE stage(ends) ==
             Stage(Reach("direct", 0, TRUE), Read(1, FALSE, ends),
                   Hold("last", Kinds \X ends, Kinds \X ends, Kinds \X ends), {})
<1>1. ASSUME NEW m \in BOOLEAN, NEW ends
      PROVE  StageFits(stage(ends), n, m)
  <2>1. HoldFits(Hold("last", Kinds \X ends, Kinds \X ends, Kinds \X ends), n) BY NoLengths
  <2>2. Read(1, FALSE, ends).sessions = 1 /\ Counts(Reach("direct", 0, TRUE), Read(1, FALSE, ends))
    BY DEF Read, Reach, Counts
  <2>3. [name |-> n, telnet |-> m] \in Bypass BY DEF Bypass, LegacyNames
  <2> QED BY <2>1, <2>2, <2>3, RoundStage
<1>2. \A ends : Legacy(ends) = <<stage(ends)>> BY DEF Legacy
<1> HIDE DEF stage
<1>3. ASSUME NEW ends
      PROVE  ScriptFits(Always(Legacy(ends)), n) /\ ScriptFits(Script(<<>>, Legacy(ends)), n)
  <2>1. ScriptFits(Always(<<stage(ends)>>), n) BY <1>1, OneAlways
  <2>2. SideFits(<<>>, n, FALSE) BY NoSide
  <2>3. SideFits(<<stage(ends)>>, n, TRUE) BY <1>1, OneSide
  <2>4. ScriptFits(Script(<<>>, <<stage(ends)>>), n) BY <2>2, <2>3, BothSides
  <2> QED BY <1>2, <2>1, <2>4
<1>4. \E ends : Catalog[n] \in {Always(Legacy(ends)), Script(<<>>, Legacy(ends))}
  BY DEF LegacyNames, Catalog, huawei_olt_simple, huawei_olt_universal, huawei_olt_smart,
         huawei_ma5800_especifico, huawei_olt_final
<1> QED BY <1>3, <1>4

LEMMA CatalogFits == \A n \in DOMAIN Catalog : ScriptFits(Catalog[n], n)
<1> SUFFICES ASSUME NEW n \in DOMAIN Catalog
             PROVE  ScriptFits(Catalog[n], n)
  OBVIOUS
<1>1. \/ n \in PlainNames \/ n \in ProfileNames \/ n \in LegacyNames
      \/ n \in {"switch_datacom", "datacom_olt"}
      \/ n \in {"cianet_olt", "parks_olt", "tplink_olt", "maxprint_olt"}
      \/ n \in {"intelbras_olt", "switch_tplink", "vsol_olt", "digistar_olt", "zte_olt",
                "huawei_olt", "switch_huawei", "huawei_ne_router", "switch_cisco",
                "fiberhome_olt", "mikrotik_ros"}
  BY DEF Catalog, PlainNames, ProfileNames, LegacyNames
<1> QED
  BY <1>1, PlainFits, ProfileFits, LegacyFits, DatacomFits, OltFits, IntelbrasFits, TplinkFits,
     VsolFits, DigistarFits, ZteFits, HuaweiOltFits, SwitchHuaweiFits, HuaweiNeFits, CiscoFits,
     FiberhomeFits, MikrotikFits

-----------------------------------------------------------------------------
(* The search for an answer. *)

Searching == {"probe", "open", "shell", "login", "prepare", "collect", "close"}

Saving == {"judge", "save", "parts"}

\* A script on its way is at one of its stages.
Placed ==
    /\ run \in [name : DOMAIN Catalog, telnet : BOOLEAN, jump : {"none", "password", "key"}]
    /\ pc \in Searching \cup Saving \cup {"stage", "start", "exit", "done"}
    /\ pc \notin {"start", "exit", "done"} => at \in 1..Len(Stages)

LEMMA StagesFit ==
    ASSUME Placed
    PROVE  SideFits(Stages, run.name, run.telnet)
<1>1. run.name \in DOMAIN Catalog /\ run.telnet \in BOOLEAN BY DEF Placed
<1>2. ScriptFits(Catalog[run.name], run.name) BY <1>1, CatalogFits
<1> QED BY <1>1, <1>2 DEF ScriptFits, Stages

LEMMA StageOfRun ==
    ASSUME Placed, pc \notin {"start", "exit", "done"}
    PROVE  StageFits(S, run.name, run.telnet)
BY StagesFit DEF Placed, SideFits, S

LEMMA PlacedStarts ==
    ASSUME Init \/ NoScript
    PROVE  Placed
<1>1. "cdata_olt" \in DOMAIN Catalog BY DEF Catalog
<1>2. CASE Init
  <2>1. Scripts \subseteq DOMAIN Catalog BY ScriptAssumption
  <2> QED BY <1>2, <2>1 DEF Init, Placed
<1>3. CASE NoScript BY <1>1, <1>3 DEF NoScript, Placed
<1> QED BY <1>2, <1>3

LEMMA PlacedKept ==
    ASSUME Placed, [Next]_vars
    PROVE  Placed'
<1> USE DEF Searching, Saving
<1>1. CASE UNCHANGED <<run, at>> /\ (pc \in {"start", "exit", "done"} => pc' \in {"exit", "done"})
           /\ pc' \in Searching \cup Saving \cup {"stage", "start", "exit", "done"}
  BY <1>1 DEF Placed, Stages
<1>2. CASE Begin
  <2>1. Stages' = Stages BY <1>2 DEF Begin, Stages
  <2>2. at' = 1 /\ pc' \in {"probe", "open"} /\ run' = run BY <1>2 DEF Begin, EnterStage
  <2>3. 1 \in 1..Len(Stages) BY <1>2, StagesFit DEF Begin, SideFits
  <2> QED BY <2>1, <2>2, <2>3 DEF Placed
<1>3. CASE NextStage /\ run' = run /\ at' = at + 1 /\ at < Len(Stages) /\ pc' \in {"probe", "open"}
  <2>1. Stages' = Stages BY <1>3 DEF Stages
  <2>2. at \in 1..Len(Stages) BY <1>3 DEF NextStage, Placed
  <2>3. at + 1 \in 1..Len(Stages) BY <1>3, <2>2, StagesFit DEF SideFits
  <2> QED BY <1>3, <2>1, <2>3 DEF Placed
<1>4. CASE NextStage
  BY <1>1, <1>3, <1>4 DEF NextStage, EnterStage
<1>5. CASE \/ Refuse \/ ProbeOk \/ ProbeFails \/ SpawnDirect \/ SpawnShell \/ ShellReady
           \/ ShellFails \/ LoginOk \/ LoginFails \/ Connect \/ ConnectFails
  BY <1>1, <1>5
  DEF Placed, Refuse, ProbeOk, ProbeFails, SpawnDirect, SpawnShell, ShellReady, ShellFails,
      LoginOk, LoginFails, Connect, ConnectFails
<1>6. CASE \/ Prepare \/ PrepareRaises \/ Answer \/ AnswerRaises \/ EndSession \/ Judge
  BY <1>1, <1>6
  DEF Placed, Prepare, PrepareRaises, Answer, AnswerRaises, EndSession, Judge
<1>7. CASE Save \/ SaveRaises \/ VisitPart \/ Consolidate \/ ConsolidateRaises \/ Exit
  BY <1>1, <1>7
  DEF Placed, Save, SaveRaises, VisitPart, Consolidate, ConsolidateRaises, Exit
<1>8. CASE UNCHANGED vars BY <1>8 DEF vars, Placed, Stages
<1> QED BY <1>2, <1>4, <1>5, <1>6, <1>7, <1>8 DEF Next

-----------------------------------------------------------------------------
(* From where the device is contacted. *)

LEMMA FromWorker ==
    ASSUME Placed, pc \notin {"start", "exit", "done"}, NEW bare \in {S.reach.bare, FALSE},
           Jumps, From(bare) = "worker"
    PROVE  [name |-> run.name, telnet |-> run.telnet] \in Bypass
<1>1. S.reach.bare \/ S.reach.via = "direct" BY DEF From
<1> QED BY <1>1, StageOfRun DEF StageFits

LEMMA ContactKept ==
    ASSUME Placed, JumpHostRespected, [Next]_vars
    PROVE  JumpHostRespected'
<1>1. run' = run BY DEF Next, vars, Refuse, Begin, NextStage, ProbeOk, ProbeFails, SpawnDirect,
    SpawnShell, ShellReady, ShellFails, LoginOk, LoginFails, Connect, ConnectFails, Prepare,
    PrepareRaises, Answer, AnswerRaises, EndSession, Judge, Save, SaveRaises, VisitPart,
    Consolidate, ConsolidateRaises, Exit
<1>2. CASE contact' \subseteq contact \cup {"bastion"}
  BY <1>1, <1>2 DEF JumpHostRespected, Jumps
<1>3. CASE /\ pc \notin {"start", "exit", "done"}
           /\ \E bare \in {S.reach.bare, FALSE} : contact' \subseteq contact \cup {From(bare)}
  BY <1>1, <1>3, FromWorker DEF JumpHostRespected, Jumps
<1>4. CASE ProbeOk BY <1>3, <1>4 DEF ProbeOk
<1>5. CASE ProbeFails BY <1>3, <1>5 DEF ProbeFails
<1>6. CASE SpawnDirect BY <1>3, <1>6 DEF SpawnDirect
<1>7. CASE Connect BY <1>3, <1>7 DEF Connect
<1>8. CASE ConnectFails BY <1>3, <1>8 DEF ConnectFails
<1>9. CASE ShellReady BY <1>2, <1>9 DEF ShellReady
<1>10. CASE UNCHANGED contact BY <1>2, <1>10
<1>11. [Next]_vars => \/ ProbeOk \/ ProbeFails \/ SpawnDirect \/ Connect \/ ConnectFails
                      \/ ShellReady \/ UNCHANGED contact
  BY DEF Next, vars, Refuse, Begin, NextStage, SpawnShell, ShellFails, LoginOk, LoginFails,
         Prepare, PrepareRaises, Answer, AnswerRaises, EndSession, Judge, Save, SaveRaises,
         VisitPart, Consolidate, ConsolidateRaises, Exit
<1> QED BY <1>4, <1>5, <1>6, <1>7, <1>8, <1>9, <1>10, <1>11

-----------------------------------------------------------------------------
(* What becomes of the answer that ended a search. *)

Sized(a) == a.size \in Nat /\ (a.kind \in Little <=> a.size < 2)

\* An answer at least as long as the one that ended the search; if it is not accepted, the
\* script is one of those in which the longest wins.
Worthy(a) == a # NoAnswer /\ a.size >= good /\ (Accepted(a) \/ run.name \in LongestWins)

\* The search has ended in this session with such an answer, or kept one of an earlier one.
GoodIsHeld ==
    good > 0 => (pc = "close" /\ why = "none" /\ Worthy(best)) \/ Worthy(kept)

\* Another session is opened only by a script in which the longest wins, ...
KeptRefused ==
    pc \in Searching => ~Accepted(kept) /\ (kept # NoAnswer => run.name \in LongestWins)

\* ... and nothing is held of what the rule does not hold.
BestByRule ==
    pc \in Searching /\ S.hold.keep = "longest" => best = NoAnswer \/ Pair(best) \in S.hold.keeps

\* No reason to give up yet.
Hopeful == {"probe", "open", "shell", "login", "prepare", "collect", "judge", "save", "parts"}

SearchInv ==
    /\ Placed
    /\ Sized(best) /\ Sized(kept) /\ good \in Nat
    /\ pc = "start" => good = 0
    /\ pc \in Searching => sess \in Nat \ {0}
    /\ pc \in Hopeful => why = "none"
    /\ KeptRefused /\ BestByRule /\ GoodIsHeld
    /\ pc = "stage" /\ why # "save" => ~Accepted(kept)
    /\ res = "failure" => pc \in {"exit", "done"} /\ (good > 0 => why = "save" \/ ~Accepted(kept))

LEMMA SearchStarts ==
    ASSUME Init \/ NoScript
    PROVE  SearchInv
<1>1. Placed BY PlacedStarts
<1>2. Sized(best) /\ Sized(kept) BY DEF Init, NoScript, Sized, NoAnswer, Little
<1>3. pc \notin Searching BY DEF Init, NoScript, Searching
<1>4. good = 0 /\ pc \notin Hopeful /\ pc # "stage" /\ res = "none" BY DEF Init, NoScript, Hopeful
<1> QED BY <1>1, <1>2, <1>3, <1>4 DEF SearchInv, KeptRefused, BestByRule, GoodIsHeld

LEMMA SameRules ==
    ASSUME UNCHANGED <<run, at>>
    PROVE  /\ S' = S /\ \A a : Accepted(a)' <=> Accepted(a)
           /\ good' = good => \A a : Worthy(a)' <=> Worthy(a)
BY SameStage DEF Worthy

\* A step that neither searches nor decides.
LEMMA MoveKept ==
    ASSUME SearchInv, Placed', UNCHANGED <<run, at, sess, best, kept, good, res>>,
           pc \notin {"start", "close", "exit", "done"}, pc' \notin {"start", "exit", "done"},
           pc' \in Searching => pc \in Searching,
           pc' \in Hopeful => why' = "none",
           pc' = "stage" /\ why' # "save" => ~Accepted(kept)
    PROVE  SearchInv'
<1>1. Sized(best)' /\ Sized(kept)' BY DEF SearchInv, Sized
<1>2. KeptRefused' BY SameRules DEF SearchInv, KeptRefused
<1>3. BestByRule' BY SameRules DEF SearchInv, BestByRule, Pair
<1>4. GoodIsHeld' BY SameRules DEF SearchInv, GoodIsHeld
<1>5. res' # "failure" BY DEF SearchInv
<1> QED BY <1>1, <1>2, <1>3, <1>4, <1>5, SameRules DEF SearchInv

\* The script ends.
LEMMA EndKept ==
    ASSUME SearchInv, Placed', UNCHANGED <<run, at, sess, best, kept, good>>,
           pc # "close", pc' \in {"exit", "done"},
           res' = "failure" /\ good > 0 => why' = "save" \/ ~Accepted(kept)
    PROVE  SearchInv'
<1>1. Sized(best)' /\ Sized(kept)' BY DEF SearchInv, Sized
<1>2. pc' \notin Searching /\ pc' \notin Hopeful /\ pc' \notin {"start", "stage"}
  BY DEF Searching, Hopeful
<1>3. GoodIsHeld' BY SameRules DEF SearchInv, GoodIsHeld
<1> QED BY <1>1, <1>2, <1>3, SameRules DEF SearchInv, KeptRefused, BestByRule

\* A stage starts with nothing.
LEMMA EnterKept ==
    ASSUME SearchInv, Placed', NEW n \in Nat, EnterStage(n), res' = res, pc \in {"start", "stage"}
    PROVE  SearchInv'
<1>1. best' = NoAnswer /\ kept' = NoAnswer /\ good' = 0 /\ sess' = 1 /\ why' = "none"
      /\ pc' \in {"probe", "open"}
  BY DEF EnterStage
<1>2. Sized(best)' /\ Sized(kept)' BY <1>1 DEF Sized, NoAnswer, Little
<1>3. KeptRefused' BY <1>1 DEF KeptRefused, Accepted
<1>4. BestByRule' BY <1>1 DEF BestByRule
<1>5. GoodIsHeld' BY <1>1 DEF GoodIsHeld
<1>6. res' # "failure" BY DEF SearchInv
<1> QED BY <1>1, <1>2, <1>3, <1>4, <1>5, <1>6 DEF SearchInv

LEMMA AnswerSized == \A a \in Answers : Sized(a)
BY DEF Answers, Sized, Little, Kinds

\* An answer that ends the search and is accepted is held, or a longer one is.
LEMMA GoodHeld ==
    ASSUME SearchInv, pc = "collect", NEW a \in Answers, a.size > 0,
           Pair(a) \in S.hold.stops \cap S.hold.accepts
    PROVE  /\ Held(a) # NoAnswer /\ Held(a).size >= a.size
           /\ Accepted(Held(a)) \/ run.name \in LongestWins
<1>1. Placed /\ Sized(best) /\ Sized(a) BY AnswerSized DEF SearchInv
<1>2. HoldFits(S.hold, run.name) BY <1>1, StageOfRun DEF StageFits
<1>3. a # NoAnswer BY DEF NoAnswer
<1>4. Accepted(a) BY <1>3 DEF Accepted
<1>5. CASE S.hold.keep \in {"last", "accepted"}
  <2>1. Held(a) = a BY <1>5 DEF Held
  <2> QED BY <1>1, <1>3, <1>4, <2>1 DEF Sized
<1>6. CASE S.hold.keep = "longest"
  <2>1. Pair(a) \in S.hold.keeps /\ Pair(a)[1] \notin Little BY <1>2, <1>6 DEF HoldFits
  <2>2. a.kind \notin Little BY <2>1 DEF Pair
  <2>3. a.size \in Nat /\ a.size >= 2 /\ best.size \in Nat BY <1>1, <2>2 DEF Sized
  <2>4. CASE a.size > best.size
    <3>1. Held(a) = a BY <2>1, <2>4 DEF Held
    <3> QED BY <1>3, <1>4, <2>3, <3>1
  <2>5. CASE ~(a.size > best.size)
    <3>1. Held(a) = best BY <1>6, <2>5 DEF Held
    <3>2. best.size >= a.size /\ best.size >= 2 BY <2>3, <2>5
    <3>3. best # NoAnswer BY <3>2 DEF NoAnswer
    <3>4. Pair(best) \in S.hold.keeps BY <1>6, <3>3 DEF SearchInv, BestByRule, Searching
    <3>5. best.kind \notin Little BY <1>1, <2>3, <3>2 DEF Sized
    <3>6. Pair(best)[1] \notin Little BY <3>5 DEF Pair
    <3>7. Pair(best) \in S.hold.accepts \/ run.name \in LongestWins
      BY <1>2, <1>6, <3>4, <3>6 DEF HoldFits
    <3>8. Accepted(best) \/ run.name \in LongestWins BY <3>3, <3>7 DEF Accepted
    <3> QED BY <3>1, <3>2, <3>3, <3>8
  <2> QED BY <2>4, <2>5
<1> QED BY <1>2, <1>5, <1>6 DEF HoldFits

LEMMA AnswerKept ==
    ASSUME SearchInv, Placed', Answer
    PROVE  SearchInv'
<1>1. PICK a \in Answers :
        /\ best' = Held(a)
        /\ good' = IF Pair(a) \in S.hold.stops \cap S.hold.accepts /\ a.size > good THEN a.size
                   ELSE good
        /\ pc' = IF Pair(a) \in S.hold.stops \/ sent + 1 = Sends THEN "close" ELSE "collect"
  BY DEF Answer
<1>2. /\ pc = "collect" /\ why = "none" /\ pc' \in {"close", "collect"} /\ why' = "none"
      /\ UNCHANGED <<run, at, sess, kept, res>>
  BY <1>1 DEF Answer, SearchInv, Hopeful
<1>3. Placed /\ Sized(best) /\ Sized(kept) /\ Sized(a) /\ good \in Nat
  BY AnswerSized DEF SearchInv
<1>4. Sized(best)' /\ Sized(kept)'
  <2>1. Held(a) \in {a, best} BY DEF Held
  <2> QED BY <1>1, <1>2, <1>3, <2>1 DEF Sized
<1>5. KeptRefused' BY <1>2, SameRules DEF SearchInv, KeptRefused, Searching
<1>6. BestByRule'
  <2> SUFFICES ASSUME S.hold.keep = "longest"
               PROVE  best' = NoAnswer \/ Pair(best') \in S.hold.keeps
    BY <1>2, SameRules DEF BestByRule, Pair
  <2>1. best = NoAnswer \/ Pair(best) \in S.hold.keeps
    BY <1>2 DEF SearchInv, BestByRule, Searching
  <2>2. Held(a) = best \/ (Held(a) = a /\ Pair(a) \in S.hold.keeps) BY DEF Held
  <2> QED BY <1>1, <2>1, <2>2
<1>7. GoodIsHeld'
  <2>1. CASE Pair(a) \in S.hold.stops \cap S.hold.accepts /\ a.size > good
    <3>1. a.size > 0 /\ a.size \in Nat BY <1>3, <2>1 DEF Sized
    <3>2. /\ Held(a) # NoAnswer /\ Held(a).size >= a.size
          /\ Accepted(Held(a)) \/ run.name \in LongestWins
      BY <1>2, <2>1, <3>1, GoodHeld
    <3>3. good' = a.size /\ pc' = "close" BY <1>1, <2>1
    <3>4. Worthy(best)' BY <1>1, <1>2, <3>2, <3>3, SameRules DEF Worthy
    <3> QED BY <1>2, <3>3, <3>4 DEF GoodIsHeld
  <2>2. CASE ~(Pair(a) \in S.hold.stops \cap S.hold.accepts /\ a.size > good)
    <3>1. good' = good BY <1>1, <2>2
    <3>2. good > 0 => Worthy(kept) BY <1>2 DEF SearchInv, GoodIsHeld
    <3> QED BY <1>2, <3>1, <3>2, SameRules DEF GoodIsHeld
  <2> QED BY <2>1, <2>2
<1>8. good' \in Nat BY <1>1, <1>3 DEF Sized
<1>9. sess' \in Nat \ {0} BY <1>2 DEF SearchInv, Searching
<1>10. res' # "failure" BY <1>2 DEF SearchInv
<1> QED BY <1>2, <1>4, <1>5, <1>6, <1>7, <1>8, <1>9, <1>10 DEF SearchInv

\* The longer of two answers the script may keep is one it may keep.
LEMMA LongerWorthy ==
    ASSUME SearchInv, pc = "close", good > 0, Worthy(best) \/ Worthy(kept)
    PROVE  Worthy(Longer(best, kept))
<1>1. best.size \in Nat /\ kept.size \in Nat /\ good \in Nat BY DEF SearchInv, Sized
<1>2. kept # NoAnswer => run.name \in LongestWins BY DEF SearchInv, KeptRefused, Searching
<1>3. CASE best # NoAnswer /\ (kept = NoAnswer \/ best.size > kept.size)
  <2>1. Longer(best, kept) = best BY <1>3 DEF Longer
  <2>2. CASE Worthy(best) BY <2>1, <2>2
  <2>3. CASE Worthy(kept)
    <3>1. kept # NoAnswer /\ kept.size >= good BY <2>3 DEF Worthy
    <3>2. best.size >= good BY <1>1, <1>3, <3>1
    <3> QED BY <1>2, <1>3, <2>1, <3>1, <3>2 DEF Worthy
  <2> QED BY <2>2, <2>3
<1>4. CASE ~(best # NoAnswer /\ (kept = NoAnswer \/ best.size > kept.size))
  <2>1. Longer(best, kept) = kept BY <1>4 DEF Longer
  <2>2. CASE Worthy(kept) BY <2>1, <2>2
  <2>3. CASE Worthy(best)
    <3>1. best # NoAnswer /\ best.size >= good BY <2>3 DEF Worthy
    <3>2. kept # NoAnswer /\ kept.size >= good BY <1>1, <1>4, <3>1
    <3> QED BY <1>2, <2>1, <3>2 DEF Worthy
  <2> QED BY <2>2, <2>3
<1> QED BY <1>3, <1>4

LEMMA EndSessionKept ==
    ASSUME SearchInv, Placed', EndSession
    PROVE  SearchInv'
<1>1. pc = "close" /\ best' = NoAnswer /\ UNCHANGED <<run, at, good, why, res>> BY DEF EndSession
<1>2. Placed /\ Sized(best) /\ Sized(kept) /\ sess \in Nat \ {0} /\ res # "failure"
  BY <1>1 DEF SearchInv, Searching
<1>3. Sized(best)' BY <1>1 DEF Sized, NoAnswer, Little
<1>4. BestByRule' BY <1>1 DEF BestByRule
<1>5. CASE why # "none"
  <2>1. pc' = "stage" /\ kept' = kept BY <1>5 DEF EndSession
  <2>2. Sized(kept)' BY <1>2, <2>1 DEF Sized
  <2>3. KeptRefused' BY <2>1 DEF KeptRefused, Searching
  <2>4. GoodIsHeld' BY <1>1, <1>5, <2>1, SameRules DEF SearchInv, GoodIsHeld
  <2>5. ~Accepted(kept)'
    BY <1>1, <2>1, SameRules DEF SearchInv, KeptRefused, Searching
  <2> QED BY <1>1, <1>2, <1>3, <1>4, <2>1, <2>2, <2>3, <2>4, <2>5 DEF SearchInv, Searching, Hopeful
<1>6. CASE why = "none"
  <2> DEFINE longer == Longer(best, kept)
  <2>1. kept' = longer BY <1>6 DEF EndSession
  <2>2. Sized(kept)' BY <1>2, <2>1 DEF Longer, Sized
  <2>3. GoodIsHeld'
    <3>1. good > 0 => Worthy(longer) BY <1>1, LongerWorthy DEF SearchInv, GoodIsHeld
    <3> HIDE DEF longer
    <3> QED BY <1>1, <2>1, <3>1, SameRules DEF GoodIsHeld
  <2>4. CASE ~Accepted(longer) /\ sess < S.read.sessions
    <3>1. pc' = "open" /\ sess' = sess + 1 BY <1>6, <2>4 DEF EndSession
    <3>2. run.name \in LongestWins
      <4>1. S.read.sessions = 1 \/ run.name \in LongestWins
        BY <1>1, <1>2, StageOfRun DEF StageFits
      <4> QED BY <1>2, <2>4, <4>1
    <3>3. KeptRefused'
      <4> HIDE DEF longer
      <4> QED BY <1>1, <2>1, <2>4, <3>2, SameRules DEF KeptRefused
    <3>4. sess' \in Nat \ {0} BY <1>2, <3>1
    <3> QED
      BY <1>1, <1>2, <1>3, <1>4, <1>6, <2>2, <2>3, <3>1, <3>3, <3>4 DEF SearchInv
  <2>5. CASE ~(~Accepted(longer) /\ sess < S.read.sessions)
    <3>1. pc' = "judge" BY <1>6, <2>5 DEF EndSession
    <3>2. KeptRefused' BY <3>1 DEF KeptRefused, Searching
    <3> QED
      BY <1>1, <1>2, <1>3, <1>4, <1>6, <2>2, <2>3, <3>1, <3>2 DEF SearchInv, Searching
  <2> QED BY <2>4, <2>5
<1> QED BY <1>5, <1>6

LEMMA SearchKept ==
    ASSUME SearchInv, [Next]_vars
    PROVE  SearchInv'
<1>1. Placed' BY PlacedKept DEF SearchInv
<1>2. pc \in Searching => ~Accepted(kept) BY DEF SearchInv, KeptRefused
<1>3. CASE ProbeOk BY <1>1, <1>3, MoveKept DEF ProbeOk, Searching, Hopeful, SearchInv
<1>4. CASE ProbeFails
  BY <1>1, <1>2, <1>4, MoveKept DEF ProbeFails, Searching, Hopeful, SearchInv
<1>5. CASE SpawnDirect BY <1>1, <1>5, MoveKept DEF SpawnDirect, Searching, Hopeful, SearchInv
<1>6. CASE SpawnShell BY <1>1, <1>6, MoveKept DEF SpawnShell, Searching, Hopeful, SearchInv
<1>7. CASE ShellReady BY <1>1, <1>7, MoveKept DEF ShellReady, Searching, Hopeful, SearchInv
<1>8. CASE ShellFails BY <1>1, <1>8, MoveKept DEF ShellFails, Searching, Hopeful, SearchInv
<1>9. CASE LoginOk BY <1>1, <1>9, MoveKept DEF LoginOk, Searching, Hopeful, SearchInv
<1>10. CASE LoginFails BY <1>1, <1>10, MoveKept DEF LoginFails, Searching, Hopeful
<1>11. CASE Connect BY <1>1, <1>11, MoveKept DEF Connect, Searching, Hopeful, SearchInv
<1>12. CASE ConnectFails BY <1>1, <1>2, <1>12, MoveKept DEF ConnectFails, Searching, Hopeful
<1>13. CASE Prepare BY <1>1, <1>13, MoveKept DEF Prepare, Searching, Hopeful, SearchInv
<1>14. CASE PrepareRaises BY <1>1, <1>14, MoveKept DEF PrepareRaises, Searching, Hopeful
<1>15. CASE AnswerRaises
  BY <1>1, <1>15, MoveKept DEF AnswerRaises, Searching, Hopeful, SearchInv
<1>16. CASE Judge BY <1>1, <1>16, MoveKept DEF Judge, Searching, Hopeful, SearchInv
<1>17. CASE SaveRaises BY <1>1, <1>17, MoveKept DEF SaveRaises, Searching, Hopeful
<1>18. CASE VisitPart BY <1>1, <1>18, MoveKept DEF VisitPart, Searching, Hopeful, SearchInv
<1>19. CASE Save
  <2>1. CASE HasParts BY <1>1, <1>19, <2>1, MoveKept DEF Save, Searching, Hopeful, SearchInv
  <2>2. CASE ~HasParts BY <1>1, <1>19, <2>2, EndKept DEF Save
  <2> QED BY <2>1, <2>2
<1>20. CASE Refuse BY <1>1, <1>20, EndKept DEF Refuse, SearchInv
<1>21. CASE Consolidate BY <1>1, <1>21, EndKept DEF Consolidate
<1>22. CASE ConsolidateRaises BY <1>1, <1>22, EndKept DEF ConsolidateRaises
<1>23. CASE Exit BY <1>1, <1>23, EndKept DEF Exit, SearchInv
<1>24. CASE Begin BY <1>1, <1>24, EnterKept DEF Begin
<1>25. CASE NextStage
  <2>1. CASE at < Len(Stages) /\ why \in S.next
    <3>1. at + 1 \in Nat BY <1>25, StagesFit DEF NextStage, SearchInv, Placed, SideFits
    <3>2. EnterStage(at + 1) /\ res' = res BY <1>25, <2>1 DEF NextStage
    <3> QED BY <1>1, <1>25, <3>1, <3>2, EnterKept DEF NextStage
  <2>2. CASE ~(at < Len(Stages) /\ why \in S.next)
    BY <1>1, <1>25, <2>2, EndKept DEF NextStage, SearchInv
  <2> QED BY <2>1, <2>2
<1>26. CASE Answer BY <1>1, <1>26, AnswerKept
<1>27. CASE EndSession BY <1>1, <1>27, EndSessionKept
<1>28. CASE UNCHANGED vars
  <2>1. UNCHANGED <<run, at, pc, why, sess, best, kept, good, res>> BY <1>28 DEF vars
  <2>2. GoodIsHeld' BY <2>1, SameRules DEF SearchInv, GoodIsHeld
  <2>3. KeptRefused' BY <2>1, SameRules DEF SearchInv, KeptRefused
  <2>4. BestByRule' BY <2>1, SameRules DEF SearchInv, BestByRule, Pair
  <2> QED BY <1>1, <2>1, <2>2, <2>3, <2>4, SameRules DEF SearchInv, Sized
<1> QED
  BY <1>3, <1>4, <1>5, <1>6, <1>7, <1>8, <1>9, <1>10, <1>11, <1>12, <1>13, <1>14, <1>15, <1>16,
     <1>17, <1>18, <1>19, <1>20, <1>21, <1>22, <1>23, <1>24, <1>25, <1>26, <1>27, <1>28
  DEF Next

-----------------------------------------------------------------------------
(* Both kinds of script, with the rules of the catalog. *)

CatalogInv == SearchInv /\ JumpHostRespected

LEMMA CatalogStarts == RunInit => CatalogInv
BY SearchStarts DEF RunInit, Init, NoScript, JumpHostRespected, CatalogInv

LEMMA CatalogKept == CatalogInv /\ [RunNext]_<<vars, tvars>> => CatalogInv'
<1> SUFFICES ASSUME CatalogInv, [RunNext]_<<vars, tvars>>
             PROVE  CatalogInv'
  OBVIOUS
<1>1. [Next]_vars BY DEF RunNext
<1> QED BY <1>1, SearchKept, ContactKept DEF CatalogInv, SearchInv

\* With a jump host no script of the catalog contacts its device from the worker, but for
\* those listed in Bypass (JumpHostRespected, about _NetmikoJumpHostPatcher and
\* open_pexpect_session).
THEOREM JumpHostIsUsed == RunSpec => []JumpHostRespected
<1>1. CatalogInv => JumpHostRespected BY DEF CatalogInv
<1> QED BY <1>1, CatalogStarts, CatalogKept, PTL DEF RunSpec

\* Whatever else a device answers, a script to which it gave a configuration fails only in
\* writing it, or because it had kept a refused answer as long (GoodAnswerKept, about the
\* loops that collect and the second session of the Huawei switch).
THEOREM AnswerNotForgotten == RunSpec => []GoodAnswerKept
<1>1. CatalogInv => GoodAnswerKept
  BY DEF CatalogInv, SearchInv, GoodIsHeld, Worthy, GoodAnswerKept
<1> QED BY <1>1, CatalogStarts, CatalogKept, PTL DEF RunSpec
-----------------------------------------------------------------------------
(* Every step leads on: what RunEnds says without its fairness. *)

\* The places of a script, in the order in which a session and a stage pass them.
Place ==
    [p \in Searching \cup Saving \cup {"start", "stage", "exit", "done"} |->
        CASE p = "start" -> 0 [] p = "probe" -> 1 [] p = "open" -> 2 [] p = "shell" -> 3
          [] p = "login" -> 4 [] p = "prepare" -> 5 [] p = "collect" -> 6 [] p = "close" -> 7
          [] p = "judge" -> 8 [] p = "save" -> 9 [] p = "parts" -> 10 [] p = "stage" -> 11
          [] p = "exit" -> 12 [] p = "done" -> 13]

\* A later stage; in it a later session; in it a later place; and at one place one test
\* connection, one attempt or one virtual system less, or one more of the commands.
Later ==
    \/ at < at' /\ at' <= Len(Stages)
    \/ at' = at /\ sess < sess' /\ sess' <= S.read.sessions
    \/ at' = at /\ sess' = sess /\ Place[pc] < Place[pc']
    \/ /\ UNCHANGED <<at, sess, pc>>
       /\ \/ pc \in {"probe", "shell"} /\ 0 < left' /\ left' < left
          \/ pc = "collect" /\ sent < sent' /\ sent' < Sends
          \/ pc = "parts" /\ 0 <= parts' /\ parts' < parts

LaterPlace ==
    [p \in {"connect", "list", "fetch", "count", "wipe", "poll", "check", "done"} |->
        CASE p = "connect" -> 0 [] p = "list" -> 1 [] p = "fetch" -> 2 [] p = "count" -> 3
          [] p = "wipe" -> 4 [] p = "poll" -> 5 [] p = "check" -> 6 [] p = "done" -> 7]

\* The fallback to sshpass; or a later step; or a file less to do; and, beside the script,
\* the request of the device going on or the token going away.
TransferLater ==
    \/ mode # "sshpass" /\ mode' = "sshpass"
    \/ mode' = mode /\ LaterPlace[step] < LaterPlace[step']
    \/ UNCHANGED <<mode, step>> /\ todo' \subseteq todo /\ todo' # todo
    \/ /\ UNCHANGED <<mode, step, todo>>
       /\ \/ upload = "asked" /\ upload' \in {"writing", "ended"}
          \/ upload = "writing" /\ upload' = "ended"
          \/ UNCHANGED upload /\ token /\ ~token'

OnlyForward == [][Later]_vars /\ [][TransferLater]_tvars

LEMMA PlaceValues ==
    /\ Place["start"] = 0 /\ Place["probe"] = 1 /\ Place["open"] = 2 /\ Place["shell"] = 3
    /\ Place["login"] = 4 /\ Place["prepare"] = 5 /\ Place["collect"] = 6 /\ Place["close"] = 7
    /\ Place["judge"] = 8 /\ Place["save"] = 9 /\ Place["parts"] = 10 /\ Place["stage"] = 11
    /\ Place["exit"] = 12 /\ Place["done"] = 13
BY DEF Place, Searching, Saving

LEMMA LaterPlaceValues ==
    /\ LaterPlace["connect"] = 0 /\ LaterPlace["list"] = 1 /\ LaterPlace["fetch"] = 2
    /\ LaterPlace["count"] = 3 /\ LaterPlace["wipe"] = 4 /\ LaterPlace["poll"] = 5
    /\ LaterPlace["check"] = 6 /\ LaterPlace["done"] = 7
BY DEF LaterPlace

\* The counters of a stage are within what the stage allows.
Counted ==
    /\ at \in Nat /\ sess \in Nat /\ left \in Nat /\ sent \in Nat /\ parts \in Nat
    /\ pc = "start" => at = 0
    /\ pc \notin {"start", "exit", "done"} => sess \in 1..S.read.sessions
    /\ pc \in {"probe", "shell"} => left > 0
    /\ pc \in {"probe", "open", "shell", "login", "prepare"} => sent = 0
    /\ pc = "collect" => sent < Sends

LEMMA SendsSome ==
    ASSUME NEW s, NEW n, NEW m, StageFits(s, n, m)
    PROVE  /\ s.read.cmds * s.read.tries \in Nat /\ s.read.cmds * s.read.tries > 0
           /\ s.read.sessions \in {1, 2} /\ s.reach.probes \in Nat
<1>1. s.read.cmds \in Nat /\ s.read.cmds > 0 /\ s.read.tries \in {1, 2}
  BY DEF StageFits, Counts
<1>2. CASE s.read.tries = 1 BY <1>1, <1>2 DEF StageFits, Counts
<1>3. CASE s.read.tries = 2 BY <1>1, <1>3 DEF StageFits, Counts
<1> QED BY <1>1, <1>2, <1>3

LEMMA CountedStarts ==
    ASSUME Init \/ NoScript
    PROVE  Counted
BY DEF Init, NoScript, Counted

\* A script that stays in its session, and moves on in it, keeps the counts it does not use.
LEMMA StayCounted ==
    ASSUME Placed, Counted, UNCHANGED <<run, at, sess>>,
           pc' \notin {"start", "exit", "done"} => pc \notin {"start", "exit", "done"},
           pc' = "start" => pc = "start",
           left' \in Nat, sent' \in Nat, parts' \in Nat,
           pc' \in {"probe", "shell"} => left' > 0,
           pc' \in {"probe", "open", "shell", "login", "prepare"} => sent' = 0,
           pc' = "collect" => sent' < Sends
    PROVE  Counted'
<1>1. S' = S BY SameStage
<1>2. Sends' = Sends BY <1>1 DEF Sends
<1> QED BY <1>1, <1>2 DEF Counted

LEMMA EnterCounted ==
    ASSUME Placed, Counted, NEW n \in 1..Len(Stages), EnterStage(n), UNCHANGED <<run, parts>>
    PROVE  Counted'
<1>1. StageFits(Stages[n], run.name, run.telnet) BY StagesFit DEF SideFits
<1>2. S' = Stages[n] BY DEF S, Stages, EnterStage
<1>3. n \in Nat BY StagesFit DEF SideFits
<1>4. /\ at' = n /\ sess' = 1 /\ sent' = 0 /\ left' = Stages[n].reach.probes
      /\ pc' = IF Stages[n].reach.probes > 0 THEN "probe" ELSE "open"
  BY DEF EnterStage
<1> QED BY <1>1, <1>2, <1>3, <1>4, SendsSome DEF Counted

LEMMA CountedKept ==
    ASSUME Placed, Counted, [Next]_vars
    PROVE  Counted'
<1>0. pc \notin {"start", "exit", "done"} =>
        Sends \in Nat /\ Sends > 0 /\ S.read.sessions \in {1, 2} /\ S.reach.probes \in Nat
  BY StageOfRun, SendsSome DEF Sends
<1>1. CASE Begin
  <2>1. 1 \in 1..Len(Stages) BY <1>1, StagesFit DEF Begin, SideFits
  <2> QED BY <1>1, <2>1, EnterCounted DEF Begin
<1>2. CASE NextStage /\ EnterStage(at + 1) /\ at < Len(Stages)
  <2>1. at \in 1..Len(Stages) BY <1>2 DEF NextStage, Placed
  <2>2. at + 1 \in 1..Len(Stages) BY <1>2, <2>1, StagesFit DEF SideFits
  <2> QED BY <1>2, <2>2, EnterCounted DEF NextStage
<1>3. CASE NextStage /\ pc' = "exit" /\ UNCHANGED <<run, at, left, sess, sent, parts>>
  BY <1>3, StayCounted DEF Counted
<1>4. CASE NextStage BY <1>2, <1>3, <1>4 DEF NextStage
<1>5. CASE Refuse \/ Save \/ SaveRaises \/ VisitPart \/ Consolidate \/ ConsolidateRaises \/ Exit
  <2>1. parts' \in Nat
    <3>1. CASE Save BY <3>1, ScriptAssumption DEF Counted, Save
    <3>2. CASE VisitPart BY <3>2 DEF Counted, VisitPart
    <3>3. CASE Refuse \/ SaveRaises \/ Consolidate \/ ConsolidateRaises \/ Exit
      BY <3>3 DEF Counted, Refuse, SaveRaises, Consolidate, ConsolidateRaises, Exit
    <3> QED BY <1>5, <3>1, <3>2, <3>3
  <2>2. /\ UNCHANGED <<run, at, left, sess, sent>>
        /\ pc' \in {"exit", "done"} \/ (pc' \in {"parts", "stage"} /\ pc \in {"save", "parts"})
    BY <1>5 DEF Refuse, Save, SaveRaises, VisitPart, Consolidate, ConsolidateRaises, Exit
  <2> QED BY <2>1, <2>2, StayCounted DEF Counted
<1>6. CASE ProbeOk \/ ProbeFails
  <2>1. /\ UNCHANGED <<run, at, sess, sent, parts>> /\ pc = "probe"
        /\ \/ pc' = "open" /\ left' = 0
           \/ pc' = "probe" /\ left > 1 /\ left' = left - 1
           \/ pc' = "stage" /\ left' = left - 1
    BY <1>6 DEF ProbeOk, ProbeFails
  <2> QED BY <2>1, StayCounted DEF Counted
<1>7. CASE SpawnShell
  BY <1>7, ScriptAssumption, StayCounted DEF SpawnShell, Counted
<1>8. CASE ShellReady \/ ShellFails
  <2>1. /\ UNCHANGED <<run, at, sess, sent, parts>> /\ pc = "shell"
        /\ \/ pc' = "login" /\ left' = 0
           \/ pc' = "shell" /\ left > 1 /\ left' = left - 1
           \/ pc' = "close" /\ left' = left - 1
    BY <1>8 DEF ShellReady, ShellFails
  <2> QED BY <2>1, StayCounted DEF Counted
<1>9. CASE \/ SpawnDirect \/ LoginOk \/ LoginFails \/ Connect \/ ConnectFails
           \/ Prepare \/ PrepareRaises \/ Judge
  <2>1. /\ UNCHANGED <<run, at, left, sess, sent, parts>>
        /\ pc \in {"open", "login", "prepare", "judge"}
        /\ \/ pc' \in {"close", "stage", "save"}
           \/ pc' \in {"login", "prepare", "collect"} /\ pc \in {"open", "login", "prepare"}
    BY <1>9
    DEF SpawnDirect, LoginOk, LoginFails, Connect, ConnectFails, Prepare, PrepareRaises, Judge
  <2> QED BY <1>0, <2>1, StayCounted DEF Counted
<1>10. CASE Answer \/ AnswerRaises
  <2>1. /\ UNCHANGED <<run, at, left, sess, parts>> /\ pc = "collect" /\ sent' = sent + 1
        /\ pc' = "close" \/ (pc' = "collect" /\ sent + 1 # Sends)
    BY <1>10 DEF Answer, AnswerRaises
  <2> QED BY <1>0, <2>1, StayCounted DEF Counted
<1>11. CASE EndSession
  <2>1. CASE UNCHANGED sess /\ pc' \in {"stage", "judge"}
    BY <1>11, <2>1, StayCounted DEF EndSession, Counted
  <2>2. CASE pc' = "open" /\ sess < S.read.sessions /\ sess' = sess + 1
    <3>1. S' = S BY <1>11, SameStage DEF EndSession
    <3> QED BY <1>0, <1>11, <2>2, <3>1 DEF EndSession, Counted
  <2> QED BY <1>11, <2>1, <2>2 DEF EndSession
<1>12. CASE UNCHANGED vars
  BY <1>12, StayCounted DEF vars, Counted
<1> QED
  BY <1>1, <1>4, <1>5, <1>6, <1>7, <1>8, <1>9, <1>10, <1>11, <1>12 DEF Next

LEMMA ScriptGoesOn ==
    ASSUME Placed, Counted, Next
    PROVE  Later
<1> USE PlaceValues
<1>1. CASE Begin
  <2>1. Len(Stages) >= 1 /\ Len(Stages) \in Nat BY <1>1, StagesFit DEF Begin, SideFits
  <2>2. at = 0 /\ at' = 1 BY <1>1 DEF Begin, EnterStage, Counted
  <2> QED BY <2>1, <2>2 DEF Later
<1>2. CASE NextStage
  <2>1. CASE at < Len(Stages) /\ at' = at + 1
    BY <2>1, StagesFit DEF Later, SideFits, Counted
  <2>2. CASE UNCHANGED <<at, sess>> /\ pc' = "exit"
    BY <1>2, <2>2 DEF NextStage, Later
  <2> QED BY <1>2, <2>1, <2>2 DEF NextStage, EnterStage
<1>3. CASE \/ Refuse \/ ProbeOk \/ SpawnDirect \/ SpawnShell \/ ShellReady \/ LoginOk
           \/ LoginFails \/ Connect \/ ConnectFails \/ Prepare \/ PrepareRaises
  <2>1. /\ UNCHANGED <<at, sess>>
        /\ \/ pc = "start" /\ pc' = "exit"
           \/ pc = "probe" /\ pc' = "open"
           \/ pc = "open" /\ pc' \in {"shell", "login", "prepare", "stage"}
           \/ pc = "shell" /\ pc' = "login"
           \/ pc = "login" /\ pc' \in {"prepare", "close"}
           \/ pc = "prepare" /\ pc' \in {"collect", "close"}
    BY <1>3
    DEF Refuse, ProbeOk, SpawnDirect, SpawnShell, ShellReady, LoginOk, LoginFails, Connect,
        ConnectFails, Prepare, PrepareRaises
  <2> QED BY <2>1 DEF Later
<1>4. CASE Judge \/ Save \/ SaveRaises \/ Consolidate \/ ConsolidateRaises \/ Exit
  BY <1>4 DEF Judge, Save, SaveRaises, Consolidate, ConsolidateRaises, Exit, Later
<1>5. CASE ProbeFails BY <1>5 DEF ProbeFails, Counted, Later
<1>6. CASE ShellFails BY <1>6 DEF ShellFails, Counted, Later
<1>7. CASE Answer \/ AnswerRaises
  <2>1. Sends \in Nat /\ pc = "collect" BY <1>7, StageOfRun, SendsSome DEF Answer, AnswerRaises, Sends
  <2>2. /\ UNCHANGED <<at, sess>> /\ sent' = sent + 1
        /\ pc' = "close" \/ (pc' = "collect" /\ sent + 1 # Sends)
    BY <1>7 DEF Answer, AnswerRaises
  <2> QED BY <2>1, <2>2 DEF Counted, Later
<1>8. CASE EndSession
  <2>1. CASE UNCHANGED sess /\ pc' \in {"stage", "judge"}
    BY <1>8, <2>1 DEF EndSession, Later
  <2>2. CASE sess < S.read.sessions /\ sess' = sess + 1
    <3>1. S.read.sessions \in {1, 2} BY <1>8, StageOfRun, SendsSome DEF EndSession
    <3> QED BY <1>8, <2>2, <3>1 DEF EndSession, Counted, Later
  <2> QED BY <1>8, <2>1, <2>2 DEF EndSession
<1>9. CASE VisitPart BY <1>9 DEF VisitPart, Counted, Later
<1> QED BY <1>1, <1>2, <1>3, <1>4, <1>5, <1>6, <1>7, <1>8, <1>9 DEF Next

LEMMA TransferGoesOn ==
    ASSUME TransferNext
    PROVE  TransferLater
<1> USE LaterPlaceValues
<1>1. CASE MikrotikConnect \/ MikrotikConnectFails \/ MikrotikList
  BY <1>1 DEF MikrotikConnect, MikrotikConnectFails, MikrotikList, Return, TransferLater
<1>2. ASSUME Raise, LaterPlace[step] < 7
      PROVE  TransferLater
  BY <1>2 DEF Raise, Return, TransferLater
<1>3. CASE MikrotikListFails \/ MikrotikWipeFails
  BY <1>2, <1>3 DEF MikrotikListFails, MikrotikWipeFails
<1>4. CASE MikrotikCount
  BY <1>2, <1>4 DEF MikrotikCount, Return, TransferLater
<1>5. CASE FetchOk \/ FetchFails
  <2>1. /\ UNCHANGED mode /\ step = "fetch" /\ step' \in {"fetch", "count"}
        /\ \E f \in todo : todo' = todo \ {f}
    BY <1>5 DEF FetchOk, FetchFails
  <2> QED BY <2>1 DEF TransferLater
<1>6. CASE MikrotikWipe
  BY <1>6 DEF MikrotikWipe, Return, TransferLater
<1>7. CASE ZabbixConnect \/ ZabbixDump \/ GrafanaConnect \/ GrafanaList
  BY <1>7 DEF ZabbixConnect, ZabbixDump, GrafanaConnect, GrafanaList, Return, TransferLater
<1>8. CASE GrafanaFetch
  BY <1>8 DEF GrafanaFetch, Return, TransferLater
<1>9. CASE VsolRegister \/ VsolPoll \/ VsolCheck
  BY <1>9 DEF VsolRegister, VsolPoll, VsolCheck, Return, TransferLater
<1>10. CASE UploadArrives \/ UploadEnds \/ TokenExpires
  BY <1>10 DEF UploadArrives, UploadEnds, TokenExpires, TransferLater
<1> QED
  BY <1>1, <1>3, <1>4, <1>5, <1>6, <1>7, <1>8, <1>9, <1>10 DEF TransferNext

\* No script goes in circles: whatever the device answers, refuses or cuts off, each step
\* takes the script to a later stage, session or place or uses up one of finitely many tries
\* (RunEnds needs beside this only that the script goes on); for every script of the
\* catalog, and for the scripts that move files, over the fallback to sshpass too.
THEOREM RunsAdvance == RunSpec => OnlyForward
<1> DEFINE Inv == Placed /\ Counted
<1>1. RunInit => Inv BY PlacedStarts, CountedStarts DEF RunInit
<1>2. ASSUME Inv, [RunNext]_<<vars, tvars>>
      PROVE  Inv' /\ [Later]_vars /\ [TransferLater]_tvars
  <2>1. [Next]_vars /\ [TransferNext]_tvars BY <1>2 DEF RunNext
  <2> QED BY <1>2, <2>1, PlacedKept, CountedKept, ScriptGoesOn, TransferGoesOn
<1>3. Inv /\ [RunNext]_<<vars, tvars>> => Inv' /\ [Later]_vars /\ [TransferLater]_tvars
  BY <1>2
<1> QED BY <1>1, <1>3, PTL DEF RunSpec, OnlyForward
=============================================================================
