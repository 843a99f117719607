---------------------------- MODULE MCBackupStore ----------------------------
EXTENDS BackupStore

\* One device: two runs of it meet in its directory as runs of two devices of one name would.
MCDevices == {"olt1"}
MCDir == [d \in MCDevices |-> "olt1"]

Text(size, lines, marks) ==
    [kind |-> "text", size |-> size, lines |-> lines, marks |-> marks, plausible |-> FALSE, errors |-> 0]
MCContents == {Text(600, 30, "found"), Text(2000, 30, "unmapped"), Text(600, 30, "missing"),
               [Text(600, 30, "found") EXCEPT !.kind = "dir"]}
=============================================================================
