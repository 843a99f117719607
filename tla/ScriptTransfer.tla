--------------------------- MODULE ScriptTransfer ---------------------------
(***************************************************************************)
(* The scripts that move files instead of reading a screen: the MikroTik   *)
(* downloader, the Zabbix dump, the Grafana dashboards, and the export of  *)
(* a VSOL OLT, which the device uploads to the web process while the       *)
(* script polls the file.                                                  *)
(***************************************************************************)
EXTENDS Naturals, FiniteSets

CONSTANTS Files,    \* paths of the files on the device
          Base      \* os.path.basename of each, the name of its local copy

ASSUME BaseAssumption == DOMAIN Base = Files

VARIABLES job,      \* the script, its jump host, delete_after_download
          step,     \* where it is
          mode,     \* mikrotik: paramiko first, then sshpass
          held,     \* clients the worker holds open
          device,   \* files on the device
          copy,     \* the local file of each name: of no run, an earlier one, half, or which
          todo,     \* files still to fetch or to wipe
          got,      \* files fetched by this run
          failed,   \* files whose download failed (history)
          listed,   \* files on the device at the start (history)
          token,    \* the upload token is in Redis
          upload,   \* requests of the device at the upload endpoint
          outcome   \* what the script returned

tvars == <<job, step, mode, held, device, copy, todo, got, failed, listed, token, upload, outcome>>

Jobs == {"mikrotik_download", "zabbix", "grafana", "vsol_export"}

Names == {Base[f] : f \in Files}

\* The local directory may hold files of earlier runs.
TransferInit ==
    /\ job \in [name : Jobs, jump : BOOLEAN, wipe : BOOLEAN]
    /\ step = IF job.name = "vsol_export" THEN "list" ELSE "connect"
    /\ mode = "paramiko"
    /\ held = IF job.name = "vsol_export" THEN {"session"} ELSE {}
    /\ device \in SUBSET Files
    /\ copy \in [Names -> {"none", "old"}]
    /\ job.name = "vsol_export" => \A n \in Names : copy[n] = "none"
    /\ todo = {} /\ got = {} /\ failed = {} /\ listed = device /\ token = FALSE /\ upload = "none" /\ outcome = "none"

\* close_ssh_client closes the client and the jump client it carries.
Freed == IF "client" \in held THEN {} ELSE held \ {"session"}

Return(result) ==
    /\ step' = "done" /\ outcome' = result /\ held' = Freed

\* An exception of the paramiko path leads to sshpass, one of sshpass to a failure.
Raise ==
    IF mode = "paramiko"
    THEN \/ /\ mode' = "sshpass" /\ step' = "list" /\ held' = Freed /\ got' = {} /\ todo' = {}
            /\ UNCHANGED outcome
         \/ Return("failure") /\ UNCHANGED <<mode, got, todo>>
    ELSE Return("failure") /\ UNCHANGED <<mode, got, todo>>

-----------------------------------------------------------------------------
(* mikrotik_download_backups *)

\* create_ssh_client: the jump client is kept as an attribute of the client.
MikrotikConnect ==
    /\ job.name = "mikrotik_download" /\ step = "connect"
    /\ held' = {"client"} \cup (IF job.jump THEN {"jump"} ELSE {})
    /\ step' = "list"
    /\ UNCHANGED <<job, mode, device, copy, todo, got, failed, listed, token, upload, outcome>>

\* The client is not returned, so nobody closes the jump client it was to carry.
MikrotikConnectFails ==
    /\ job.name = "mikrotik_download" /\ step = "connect"
    /\ \E leak \in IF job.jump THEN {{}, {"jump"}} ELSE {{}} :
        \/ mode' = "sshpass" /\ step' = "list" /\ held' = leak /\ UNCHANGED outcome
        \/ step' = "done" /\ outcome' = "failure" /\ held' = leak /\ UNCHANGED mode
    /\ UNCHANGED <<job, failed, listed, device, copy, todo, got, token, upload>>

\* Faulty variant: files that have a local copy are not fetched again.
MikrotikListNew ==
    /\ job.name = "mikrotik_download" /\ step = "list"
    /\ IF device = {}
       THEN Return("empty") /\ UNCHANGED todo
       ELSE step' = "fetch" /\ UNCHANGED <<held, outcome>>
            /\ todo' \in {d \in SUBSET device : d # {} /\ \A f \in device : copy[Base[f]] = "none" => f \in d}
    /\ UNCHANGED <<job, failed, listed, mode, device, copy, got, token, upload>>

\* No file to fetch is a success whose path is the directory.
MikrotikList ==
    /\ job.name = "mikrotik_download" /\ step = "list"
    /\ IF device = {}
       THEN Return("empty") /\ UNCHANGED todo
       ELSE step' = "fetch" /\ todo' = device /\ UNCHANGED <<held, outcome>>
    /\ UNCHANGED <<job, failed, listed, mode, device, copy, got, token, upload>>

MikrotikListFails ==
    /\ job.name = "mikrotik_download" /\ step = "list"
    /\ Raise
    /\ UNCHANGED <<job, failed, listed, device, copy, token, upload>>

FetchOk ==
    /\ job.name = "mikrotik_download" /\ step = "fetch"
    /\ \E f \in todo :
        /\ copy' = [copy EXCEPT ![Base[f]] = f]
        /\ got' = got \cup {f} /\ todo' = todo \ {f}
        /\ step' = IF todo = {f} THEN "count" ELSE "fetch"
    /\ UNCHANGED <<job, failed, listed, mode, held, device, token, upload, outcome>>

\* sftp.get and scp open the local file before they read the remote one.
FetchFails ==
    /\ job.name = "mikrotik_download" /\ step = "fetch"
    /\ \E f \in todo, left \in {"part", "same"} :
        /\ copy' = IF left = "part" THEN [copy EXCEPT ![Base[f]] = "part"] ELSE copy
        /\ todo' = todo \ {f} /\ failed' = failed \cup {f}
        /\ step' = IF todo = {f} THEN "count" ELSE "fetch"
    /\ UNCHANGED <<job, listed, mode, held, device, got, token, upload, outcome>>

\* Some files may be missing, all may not.
MikrotikCount ==
    /\ job.name = "mikrotik_download" /\ step = "count"
    /\ \/ got = {} /\ Raise
       \/ /\ got # {} /\ job.wipe
          /\ step' = "wipe" /\ todo' = device
          /\ UNCHANGED <<mode, held, got, outcome>>
       \/ /\ got # {} /\ ~job.wipe
          /\ Return("success")
          /\ UNCHANGED <<mode, got, todo>>
    /\ UNCHANGED <<job, failed, listed, device, copy, token, upload>>

\* os.path.exists(local_path_check): any local file of that name will do.
Wipable(f) == copy[Base[f]] # "none"

MikrotikWipe ==
    /\ job.name = "mikrotik_download" /\ step = "wipe"
    /\ IF todo = {} THEN Return("success") /\ UNCHANGED <<device, todo>>
       ELSE \E f \in todo :
                /\ device' = IF Wipable(f) THEN device \ {f} ELSE device
                /\ todo' = todo \ {f}
                /\ UNCHANGED <<step, held, outcome>>
    /\ UNCHANGED <<job, failed, listed, mode, copy, got, token, upload>>

\* The connection is lost while files are removed: everything starts again with sshpass.
MikrotikWipeFails ==
    /\ job.name = "mikrotik_download" /\ step = "wipe" /\ todo # {} /\ mode = "paramiko"
    /\ Raise
    /\ UNCHANGED <<job, failed, listed, device, copy, token, upload>>

-----------------------------------------------------------------------------
(* Zabbix_backup *)

\* The test session, the checks of the parameters, the optional discovery of the database.
ZabbixConnect ==
    /\ job.name = "zabbix" /\ step = "connect"
    /\ \/ step' = "fetch" /\ held' = {"session"} /\ UNCHANGED outcome
       \/ Return("failure")
    /\ UNCHANGED <<job, failed, listed, mode, device, copy, todo, got, token, upload>>

\* Exit statuses of the dump and of gzip as the remote shell reports them.
\* dump_status=${PIPESTATUS[0]} is itself a command: PIPESTATUS[1] is unset after it and
\* gzip_status takes its default, 1.
Reported(dump, gzip) == <<dump, 1>>

\* The dump is refused unless both statuses are 0 and the file is large enough.
DumpTaken(statuses, large) == statuses = <<0, 0>> /\ large

\* Whatever the two commands did.
ZabbixDump ==
    /\ job.name = "zabbix" /\ step = "fetch"
    /\ \E dump, gzip \in {0, 1}, large \in BOOLEAN :
        IF DumpTaken(Reported(dump, gzip), large) THEN Return("success") ELSE Return("failure")
    /\ UNCHANGED <<job, failed, listed, mode, device, copy, todo, got, token, upload>>

-----------------------------------------------------------------------------
(* grafana_backup: the files are dashboards, zipped from a temporary directory. *)

GrafanaConnect ==
    /\ job.name = "grafana" /\ step = "connect"
    /\ \/ step' = "list" /\ UNCHANGED <<held, outcome>>
       \/ Return("failure")
    /\ UNCHANGED <<job, failed, listed, mode, device, copy, todo, got, token, upload>>

\* No dashboard is a success whose path is the directory.
GrafanaList ==
    /\ job.name = "grafana" /\ step = "list"
    /\ \/ device = {} /\ Return("empty") /\ UNCHANGED todo
       \/ device # {} /\ step' = "fetch" /\ todo' = device /\ UNCHANGED <<held, outcome>>
       \/ Return("failure") /\ UNCHANGED todo
    /\ UNCHANGED <<job, failed, listed, mode, device, copy, got, token, upload>>

\* A dashboard that does not answer 200 is skipped, a request that raises ends the script.
GrafanaFetch ==
    /\ job.name = "grafana" /\ step = "fetch"
    /\ \/ \E f \in todo :
            /\ got' \in {got, got \cup {f}}
            /\ todo' = todo \ {f}
            /\ UNCHANGED <<step, held, outcome>>
       \/ todo = {} /\ Return("success") /\ UNCHANGED <<got, todo>>
       \/ Return("failure") /\ UNCHANGED <<got, todo>>
    /\ UNCHANGED <<job, failed, listed, mode, device, copy, token, upload>>

-----------------------------------------------------------------------------
(* vsol_olt: the export, with the session of the command line still open.  Its one file has *)
(* every name.                                                                              *)

Arrived == \E n \in Names : copy[n] # "none"

\* _register_upload_target and the command that starts the upload.
VsolRegister ==
    /\ job.name = "vsol_export" /\ step = "list"
    /\ \/ token' = TRUE /\ step' = "poll" /\ upload' = "asked" /\ UNCHANGED <<held, outcome>>
       \/ token' \in BOOLEAN /\ Return("failure") /\ UNCHANGED upload
    /\ UNCHANGED <<job, failed, listed, mode, device, copy, todo, got>>

\* The deadline of the poll, or a file of more than 80 bytes.
VsolPoll ==
    /\ job.name = "vsol_export" /\ step = "poll"
    /\ \/ Arrived /\ step' = "check" /\ UNCHANGED <<held, outcome>>
       \/ ~Arrived /\ Return("failure")
    /\ UNCHANGED <<job, failed, listed, mode, device, copy, todo, got, token, upload>>

\* What is there is read: half a file may pass for a configuration.
VsolCheck ==
    /\ job.name = "vsol_export" /\ step = "check"
    /\ Return("success") \/ Return("failure")
    /\ got' = {f \in Files : copy[Base[f]] \notin {"none", "part"}}
    /\ UNCHANGED <<job, failed, listed, mode, device, copy, todo, token, upload>>

\* Faulty variant: any request writes its file.
UploadArrivesAnyway ==
    /\ upload = "asked" /\ job.name = "vsol_export"
    /\ upload' = "writing" /\ copy' = [n \in Names |-> "part"]
    /\ UNCHANGED <<job, failed, listed, step, mode, held, device, todo, got, token, outcome>>

\* olt_config_upload: the token is looked up when the request arrives, whenever that is.
UploadArrives ==
    /\ upload = "asked" /\ job.name = "vsol_export"
    /\ IF token
       THEN upload' = "writing" /\ copy' = [n \in Names |-> "part"]
       ELSE upload' = "ended" /\ UNCHANGED copy
    /\ UNCHANGED <<job, failed, listed, step, mode, held, device, todo, got, token, outcome>>

\* The token is used up when the file is complete.
UploadEnds ==
    /\ upload = "writing"
    /\ upload' = "ended" /\ token' = FALSE
    /\ \E f \in Files : copy' = [n \in Names |-> f]
    /\ UNCHANGED <<job, failed, listed, step, mode, held, device, todo, got, outcome>>

\* setex: ten minutes.
TokenExpires ==
    /\ token
    /\ token' = FALSE
    /\ UNCHANGED <<job, failed, listed, step, mode, held, device, copy, todo, got, upload, outcome>>

TransferNext ==
    \/ MikrotikConnect \/ MikrotikConnectFails \/ MikrotikList \/ MikrotikListFails
    \/ FetchOk \/ FetchFails \/ MikrotikCount \/ MikrotikWipe \/ MikrotikWipeFails
    \/ ZabbixConnect \/ ZabbixDump
    \/ GrafanaConnect \/ GrafanaList \/ GrafanaFetch
    \/ VsolRegister \/ VsolPoll \/ VsolCheck \/ UploadArrives \/ UploadEnds \/ TokenExpires
-----------------------------------------------------------------------------
(* Properties. *)

(***************************************************************************)
(* When a transfer has returned nothing is open, except the jump client of *)
(* create_ssh_client when the device behind it could not be reached.       *)
(***************************************************************************)
TransferClosed ==
    /\ step = "done" => held \subseteq {"jump"}
    /\ held = {"jump"} => job.name = "mikrotik_download" /\ job.jump

(***************************************************************************)
(* delete_after_download: a file that is gone from the MikroTik has its    *)
(* local copy, unless its own download failed and left half a file or an   *)
(* old one of its name, or another path with the same file name was stored *)
(* over it.  This holds over the fallback from paramiko to sshpass, too.   *)
(***************************************************************************)
RemovedIsCopied ==
    \A f \in listed \ device :
        \/ copy[Base[f]] = f
        \/ f \in failed
        \/ \E g \in listed \ {f} : Base[g] = Base[f]

(***************************************************************************)
(* The device may still upload after the script has given up, but not for  *)
(* ever: once the script has returned without a file and the token is      *)
(* gone, no file appears in the storage of the device any more.            *)
(***************************************************************************)
NoFileAfterExpiry ==
    [](job.name = "vsol_export" /\ step = "done" /\ ~token /\ ~Arrived => []~Arrived)
=============================================================================
