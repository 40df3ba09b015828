---------------------------- MODULE MCSandboxTool ----------------------------
(* Small instances of SandboxTool for TLC.                                 *)
EXTENDS SandboxTool, TLC

CONSTANTS r1, r2, img, n1, n2, k, t1, t2

Call(name, token, explicit, defects) ==
    [name |-> name, token |-> token, image |-> img, explicit |-> explicit,
     defects |-> defects]

(* Good requests: with and without a token, two names, with and without a  *)
(* command of their own; and one request for each defect, one with two.    *)
CreatePayloads ==
    {Call(n1, k, FALSE, {}), Call(n1, None, FALSE, {}), Call(n2, k, TRUE, {}),
     Call(n1, k, FALSE, {"field"}), Call(n1, None, FALSE, {"image"}),
     Call(n1, None, FALSE, {"key", "json"})}

\* requests and tool ids are interchangeable (there is no liveness in this run)
Symmetry == Permutations({r1, r2}) \cup Permutations({t1, t2})

================================================================================
