-------------------------- MODULE MCCubesandboxCli --------------------------
(* Small instances of CubesandboxCli for TLC: every subcommand with the    *)
(* options that steer it, and lists of up to three templates, two ready.   *)
EXTENDS CubesandboxCli

CONSTANTS a, b, c

Line(verb, nodes, failedOnly, watch, nonReady, limit, confirmed) ==
    [verb |-> verb, template |-> a, nodes |-> nodes, failedOnly |-> failedOnly,
     watch |-> watch, nonReady |-> nonReady, limit |-> limit, confirmed |-> confirmed]

AllCommands ==
    {Line("create", FALSE, FALSE, TRUE, FALSE, None, FALSE),
     Line("watch", FALSE, FALSE, TRUE, FALSE, None, FALSE)}
    \cup {Line("redo", n, f, w, FALSE, None, FALSE) : n, f, w \in BOOLEAN}
    \cup {Line("build", FALSE, FALSE, w, FALSE, None, y) : w, y \in BOOLEAN}
    \cup {Line("sync-node", TRUE, FALSE, w, r, l, FALSE) :
             w, r \in BOOLEAN, l \in {None, 0, 2}}

Entry(t, ready) == [id |-> t, ready |-> ready]
SomeLists == {<<>>, <<Entry(c, FALSE)>>, <<Entry(a, TRUE), Entry(c, FALSE), Entry(b, TRUE)>>}

=============================================================================
