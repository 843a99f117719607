----------------------------- MODULE MCDispatch -----------------------------
EXTENDS Dispatch

Of(b, s, d, c, e, t, keys, kinds) ==
    [batches |-> b, schedulers |-> s, days |-> d, crashes |-> c, edits |-> e, stops |-> t, keys |-> keys, kinds |-> kinds]

\* Two requests and the scheduler; one, with a death and a stop; two runs of the
\* scheduler with an edit and a death; two requests with a death, or with a stop.
MCSizes == {Of(2, 1, 1, 0, 0, 0, {TRUE}, {"backup"}), Of(1, 1, 2, 1, 0, 1, BOOLEAN, Kinds), Of(0, 2, 2, 1, 1, 0, {FALSE}, {}),
            Of(2, 0, 1, 1, 0, 0, {TRUE}, Kinds), Of(2, 0, 1, 0, 0, 1, {TRUE}, {"backup"})}
=============================================================================
