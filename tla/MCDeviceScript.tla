--------------------------- MODULE MCDeviceScript ---------------------------
(* One script at a time: any of the catalog, or one of those that move files. *)
EXTENDS ScriptRun

MCScripts == DOMAIN Catalog

\* Two paths with the same file name and one with another.
MCFiles == {"flash/a", "disk/a", "b"}
MCBase == [f \in MCFiles |-> IF f = "b" THEN "b" ELSE "a"]
=============================================================================
