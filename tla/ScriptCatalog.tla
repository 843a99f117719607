---------------------------- MODULE ScriptCatalog ----------------------------
(***************************************************************************)
(* The scripts that read a configuration from a device's command line, one *)
(* definition each.  A script is what it does over SSH and over telnet: a  *)
(* sequence of stages, each a way of reaching the device and collecting    *)
(* its configuration.  A later stage is a fallback.                        *)
(*                                                                         *)
(* What a command returned is told apart by its kind and by how it ended:  *)
(*   none   (nearly) nothing                     prompt  the device's      *)
(*   short  too little to be a configuration             prompt came back  *)
(*   error  holds one of the error markers       quiet   no more output    *)
(*   mixed  error and configuration markers      mark    the mark that     *)
(*   text   long, no error, no known marker              ends the dump     *)
(*   config long, with configuration markers     pager   pages are left    *)
(*                                               eof     connection closed *)
(***************************************************************************)
EXTENDS Naturals, Sequences

Kinds == {"none", "short", "error", "mixed", "text", "config"}

Endings == {"prompt", "quiet", "mark", "pager", "eof"}

\* Without one of the error markers.
Clean == Kinds \ {"error", "mixed"}

\* Why a stage gave up.
Reasons == {"probe", "algorithm", "open", "auth", "closed", "collect", "check", "save"}

(***************************************************************************)
(* A stage.                                                                *)
(*   reach    via: netmiko, expect (pexpect, through the jump host's shell *)
(*            if there is one) or direct (pexpect that ignores the jump    *)
(*            host); probes: test connections tried before collecting;     *)
(*            bare: they ignore the jump host; fatal: preparing the        *)
(*            terminal may end the session with an exception               *)
(*   read     cmds: commands that may print the configuration, each sent   *)
(*            at most tries times, in at most sessions sessions; goesOn:   *)
(*            an exception of one leaves the others; ends: the endings     *)
(*            that reach the script as text, the others raise              *)
(*   hold     stops: answers that end the search; keeps: answers held      *)
(*            while it goes on; keep: the longest of them, an answer that  *)
(*            ended the search before the longest (accepted), or the last; *)
(*            accepts: answers that pass the check before saving           *)
(*   next     reasons after which the next stage is tried                  *)
(***************************************************************************)
Stage(reach, read, hold, next) == [reach |-> reach, read |-> read, hold |-> hold, next |-> next]

Reach(via, probes, fatal) == [via |-> via, probes |-> probes, bare |-> FALSE, fatal |-> fatal]

\* The same, with test connections that ignore the jump host.
Bare(reach) == [reach EXCEPT !.bare = TRUE]

Read(cmds, goesOn, ends) ==
    [cmds |-> cmds, tries |-> 1, sessions |-> 1, goesOn |-> goesOn, ends |-> ends]

\* The same, with every command sent a second time.
SentTwice(read) == [read EXCEPT !.tries = 2]

Hold(keep, keeps, stops, accepts) ==
    [keep |-> keep, keeps |-> keeps, stops |-> stops, accepts |-> accepts]

Script(ssh, telnet) == [ssh |-> ssh, telnet |-> telnet]

\* For the scripts that do not look at use_telnet.
Always(stages) == Script(stages, stages)

-----------------------------------------------------------------------------
(* The script used by 19 vendors: one session, one command, ten characters. *)

\* send_command waits for the prompt and raises otherwise.
PlainRead == Read(1, FALSE, {"prompt"})

PlainHold == Hold("last", Kinds \X {"prompt"}, Kinds \X {"prompt"}, (Kinds \ {"none"}) \X {"prompt"})

Plain == Always(<<Stage(Reach("netmiko", 0, FALSE), PlainRead, PlainHold, {})>>)

cdata_olt == Plain
checkpoint_firewall == Plain
cisco_router == Plain
fortinet_firewall == Plain
furukawa_olt == Plain
ixc_erp == Plain
juniper_router == Plain
mkauth_erp == Plain
pfsense_firewall == Plain
sap_erp == Plain
sgp_erp == Plain
sonicwall_firewall == Plain
switch_aruba == Plain
switch_dell == Plain
switch_extreme == Plain
switch_zte == Plain
topsap_erp == Plain
vcorp_cgnat == Plain
voalle_erp == Plain

-----------------------------------------------------------------------------
(* The profiles of generic_netmiko_profiles. *)

\* send_command_timing returns what came until the device fell silent; after 300 pages
\* the pager is left on the screen; a closed connection raises.
TimingEnds == {"prompt", "quiet", "mark", "pager"}

ProfileHold ==
    Hold("accepted", Kinds \X TimingEnds, {"text", "config"} \X TimingEnds,
         {"text", "config"} \X TimingEnds)

ProfileStage(candidates, commands) ==
    Stage(Reach("netmiko", candidates, TRUE), Read(commands, TRUE, TimingEnds), ProfileHold, {})

\* _with_telnet_fallback puts a telnet type before cisco_ios and before huawei.
Profile(candidates, withTelnet, commands) ==
    Script(<<ProfileStage(candidates, commands)>>, <<ProfileStage(withTelnet, commands)>>)

OltGeneric == Profile(4, 6, 6)
switch_juniper == Profile(1, 1, 2)
switch_ubiquiti == Profile(3, 4, 3)
switch_arista == Profile(2, 3, 1)
switch_intelbras == Profile(2, 3, 2)
switch_nokia == Profile(3, 4, 3)
nokia_router == Profile(4, 5, 3)
hillstone_cgnat == Profile(2, 3, 3)
a10_cgnat == Profile(3, 4, 3)
ubiquiti_olt == OltGeneric
nokia_olt == OltGeneric
shoreline_olt == OltGeneric
think_olt == OltGeneric
unifibra_olt == OltGeneric

-----------------------------------------------------------------------------
(* Two vendors whose scripts hold the longest answer without an error. *)

LongHold ==
    Hold("longest", Clean \X TimingEnds, {"text", "config"} \X TimingEnds,
         {"text", "config"} \X TimingEnds)

DatacomStage(commands) ==
    Stage(Reach("netmiko", 1, TRUE), Read(commands, TRUE, TimingEnds), LongHold, {})

switch_datacom == Always(<<DatacomStage(3)>>)
datacom_olt == Always(<<DatacomStage(3)>>)

\* Over telnet a test session and a collecting one, both through the jump host's shell.
\* An answer cut short by the deadline is held, but only a complete one ends the search.
intelbrasReach == Reach("expect", 1, TRUE)

intelbrasRead == Read(8, TRUE, {"prompt", "quiet", "mark", "eof"})

intelbrasTelnet ==
    Stage(intelbrasReach, intelbrasRead,
          Hold("longest", Clean \X Endings, {"text", "config"} \X {"prompt", "eof"},
               {"text", "config"} \X Endings), {})

intelbrasSsh == DatacomStage(8)

intelbras_olt == Script(<<intelbrasSsh>>, <<intelbrasTelnet>>)

\* A command that raises ends the collection; the last answer is the one checked.
tplinkHold ==
    Hold("last", Kinds \X {"prompt"}, {"text", "config"} \X {"prompt"},
         {"text", "config"} \X {"prompt"})

tplinkReach(candidates) == Reach("netmiko", candidates, FALSE)

switch_tplink ==
    LET stage(candidates) ==
            Stage(tplinkReach(candidates), Read(2, FALSE, {"prompt"}), tplinkHold, {})
    IN  Script(<<stage(2)>>, <<stage(3)>>)

-----------------------------------------------------------------------------
(* The profiles of olt_cli_backup. *)

\* _send_collect: the prompt, the deadline or the end of the connection; a page is always
\* answered, so a pager left over is a deadline.
ExpectEnds == {"prompt", "quiet", "mark", "eof"}

OltReach == Reach("expect", 0, TRUE)

OltRead(commands) == Read(commands, FALSE, ExpectEnds)

\* A connection that closes counts as a complete answer, a deadline does not.
OltHold ==
    Hold("longest", Clean \X {"prompt", "eof"}, {"config"} \X {"prompt", "eof"},
         {"config"} \X {"prompt", "eof"})

OltStage(commands) == Stage(OltReach, OltRead(commands), OltHold, {})

cianet_olt == Always(<<OltStage(6)>>)
parks_olt == Always(<<OltStage(6)>>)
tplink_olt == Always(<<OltStage(7)>>)
maxprint_olt == Always(<<OltStage(18)>>)

\* The command line of VSOL; the export it falls back to is in ScriptTransfer.
vsolHold ==
    Hold("accepted", Clean \X ExpectEnds, {"config"} \X ExpectEnds, {"config"} \X ExpectEnds)

vsolRead == OltRead(17)

vsol_olt == Always(<<Stage(OltReach, vsolRead, vsolHold, {})>>)

\* Digistar and ZTE do not ask whether the answer was complete.
AnyEndHold ==
    Hold("longest", Clean \X ExpectEnds, {"config"} \X ExpectEnds, {"config"} \X ExpectEnds)

digistarHold == AnyEndHold
digistarReach == Reach("expect", 0, TRUE)
digistarRead == Read(9, FALSE, ExpectEnds)
digistar_olt == Always(<<Stage(digistarReach, digistarRead, digistarHold, {})>>)

zteHold == AnyEndHold
zteReach == Reach("expect", 0, TRUE)
zteRead == Read(6, FALSE, ExpectEnds)
zte_olt == Always(<<Stage(zteReach, zteRead, zteHold, {})>>)

-----------------------------------------------------------------------------
(* Huawei. *)

\* Complete: the prompt came back or the dump has its terminator.  The longest raw answer is
\* the last resort of firmware that mixes errors and configuration.
huaweiOltHold ==
    LET complete == {"config"} \X {"prompt", "mark", "eof"}
    IN  Hold("accepted", Kinds \X ExpectEnds, complete, complete \cup {<<"mixed", "mark">>})

huaweiOltReach == Reach("expect", 0, TRUE)

huaweiOltRead == Read(7, FALSE, ExpectEnds)

\* Telnet that closes before the login is tried again as SSH on the same port.
huawei_olt ==
    LET stage(next) == Stage(huaweiOltReach, huaweiOltRead, huaweiOltHold, next)
    IN  Script(<<stage({})>>, <<stage({"closed"}), stage({})>>)

\* Two sessions at most; the second is opened when the first one's answer is refused.
switchHuaweiRead == [SentTwice(Read(4, TRUE, TimingEnds)) EXCEPT !.sessions = 2]

switchHuaweiHold == ProfileHold

legacyReach == Reach("expect", 0, TRUE)

legacyRead == Read(2, FALSE, ExpectEnds)

switchHuaweiLegacy ==
    Stage(legacyReach, legacyRead,
          Hold("longest", Kinds \X ExpectEnds, {"text", "config"} \X {"prompt", "eof"},
               {"text", "config"} \X ExpectEnds), {})

\* Over SSH a device with old algorithms is reached with the ssh command.
switch_huawei ==
    LET stage(candidates, next) ==
            Stage(Reach("netmiko", candidates, FALSE), switchHuaweiRead, switchHuaweiHold, next)
    IN  Script(<<stage(3, {"algorithm"}), switchHuaweiLegacy>>, <<stage(5, {})>>)

\* The configuration of the router itself; DeviceScript adds its virtual systems.
huaweiNeRead == SentTwice(Read(4, TRUE, TimingEnds))

huaweiNeHold == ProfileHold

huawei_ne_router == Always(<<Stage(Reach("netmiko", 3, FALSE), huaweiNeRead, huaweiNeHold, {})>>)

-----------------------------------------------------------------------------
(* Scripts with a way round netmiko. *)

ciscoHold ==
    Hold("longest", Clean \X Endings, {"config"} \X Endings, {"config"} \X Endings)

ciscoReach(candidates) == Reach("netmiko", candidates, FALSE)

\* _collect_telnet_pexpect: an EOF or a deadline leaves what was read.
ciscoDirect ==
    Stage(Reach("direct", 0, TRUE), Read(5, FALSE, Endings), ciscoHold, {})

switch_cisco ==
    LET stage(candidates, next) ==
            Stage(ciscoReach(candidates), Read(5, TRUE, TimingEnds), ciscoHold, next)
    IN  Script(<<stage(2, {})>>, <<stage(4, Reasons), ciscoDirect>>)

\* _collect_config returns the first long answer, whether a configuration or not.
fiberhomeHold ==
    Hold("accepted", {}, {"text", "config"} \X {"prompt"}, {"config"} \X {"prompt"})

fiberhomeReach(probes) == Reach("netmiko", probes, TRUE)

\* Over telnet the port is tested from the worker itself.
fiberhomeTelnet ==
    Stage(Bare(fiberhomeReach(1)), Read(2, FALSE, {"prompt"}), fiberhomeHold,
          {"open", "collect"})

\* _collect_telnet_with_pexpect: only the privileged prompt ends a dump.
fiberhomeRead == Read(2, FALSE, {"prompt"})

fiberhomeDirect ==
    Stage(Reach("direct", 0, TRUE), fiberhomeRead,
          Hold("accepted", {}, {"config"} \X {"prompt"}, {"config"} \X {"prompt"}), {})

fiberhome_olt ==
    Script(<<Stage(fiberhomeReach(2), Read(2, FALSE, {"prompt"}), fiberhomeHold, {})>>,
           <<fiberhomeTelnet, fiberhomeDirect>>)

\* _collect_export
mikrotikHold ==
    Hold("accepted", Clean \X TimingEnds, {"config"} \X TimingEnds, {"config"} \X TimingEnds)

\* _probe_ssh_banner connects from the worker itself.
mikrotikPort ==
    Stage(Bare(Reach("netmiko", 1, FALSE)), SentTwice(Read(4, TRUE, TimingEnds)), mikrotikHold,
          {"probe", "open", "auth"})

\* _candidate_ports: the registered port, then the usual ones.
mikrotikPorts == 1..4

mikrotik_ros == Always([port \in mikrotikPorts |-> mikrotikPort])

-----------------------------------------------------------------------------
(* The scripts kept under legado-script: no jump host, no check of what came. *)

Legacy(ends) ==
    <<Stage(Reach("direct", 0, TRUE), Read(1, FALSE, ends),
            Hold("last", Kinds \X ends, Kinds \X ends, Kinds \X ends), {})>>

huawei_olt_simple == Always(Legacy({"prompt"}))
huawei_olt_universal == Always(Legacy({"prompt"}))
huawei_olt_smart == Always(Legacy({"prompt"}))
huawei_ma5800_especifico == Always(Legacy({"mark"}))

\* Over SSH its session cannot be opened: the encoding it names does not exist.
huawei_olt_final == Script(<<>>, Legacy({"mark"}))

-----------------------------------------------------------------------------
(* What _load_script finds, by name. *)
Catalog ==
    [cdata_olt |-> cdata_olt, checkpoint_firewall |-> checkpoint_firewall,
     cisco_router |-> cisco_router, fortinet_firewall |-> fortinet_firewall,
     furukawa_olt |-> furukawa_olt, ixc_erp |-> ixc_erp, juniper_router |-> juniper_router,
     mkauth_erp |-> mkauth_erp, pfsense_firewall |-> pfsense_firewall, sap_erp |-> sap_erp,
     sgp_erp |-> sgp_erp, sonicwall_firewall |-> sonicwall_firewall,
     switch_aruba |-> switch_aruba, switch_dell |-> switch_dell,
     switch_extreme |-> switch_extreme, switch_zte |-> switch_zte, topsap_erp |-> topsap_erp,
     vcorp_cgnat |-> vcorp_cgnat, voalle_erp |-> voalle_erp, switch_juniper |-> switch_juniper,
     switch_ubiquiti |-> switch_ubiquiti, switch_arista |-> switch_arista,
     switch_intelbras |-> switch_intelbras, switch_nokia |-> switch_nokia,
     nokia_router |-> nokia_router, hillstone_cgnat |-> hillstone_cgnat,
     a10_cgnat |-> a10_cgnat, ubiquiti_olt |-> ubiquiti_olt, nokia_olt |-> nokia_olt,
     shoreline_olt |-> shoreline_olt, think_olt |-> think_olt, unifibra_olt |-> unifibra_olt,
     switch_datacom |-> switch_datacom, datacom_olt |-> datacom_olt,
     intelbras_olt |-> intelbras_olt, switch_tplink |-> switch_tplink,
     cianet_olt |-> cianet_olt, parks_olt |-> parks_olt, tplink_olt |-> tplink_olt,
     maxprint_olt |-> maxprint_olt, vsol_olt |-> vsol_olt, digistar_olt |-> digistar_olt,
     zte_olt |-> zte_olt, huawei_olt |-> huawei_olt, switch_huawei |-> switch_huawei,
     huawei_ne_router |-> huawei_ne_router, switch_cisco |-> switch_cisco,
     fiberhome_olt |-> fiberhome_olt, mikrotik_ros |-> mikrotik_ros,
     huawei_olt_simple |-> huawei_olt_simple, huawei_olt_universal |-> huawei_olt_universal,
     huawei_olt_smart |-> huawei_olt_smart,
     huawei_ma5800_especifico |-> huawei_ma5800_especifico,
     huawei_olt_final |-> huawei_olt_final]
=============================================================================
