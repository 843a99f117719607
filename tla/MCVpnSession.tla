---------------------------- MODULE MCVpnSession ----------------------------
(* The instance of VpnSession for TLC: see vpn.cfg.                         *)
EXTENDS VpnSession

\* The isolated worker, as shipped; workers that share the lock and wait for
\* it; and shared workers that give up waiting and test groups without it,
\* of two groups.
MCDeployments ==
    {[isolated |-> TRUE, timeouts |-> FALSE, uses |-> {"session", "test"},
      groups |-> Groups],
     [isolated |-> FALSE, timeouts |-> FALSE, uses |-> {"session"}, groups |-> Groups],
     [isolated |-> FALSE, timeouts |-> TRUE, uses |-> {"session", "test"},
      groups |-> Groups \ {CHOOSE g \in Groups : TRUE}]}
=============================================================================
