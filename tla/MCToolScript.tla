----------------------------- MODULE MCToolScript -----------------------------
(* Small instances of ToolScript for TLC: users who ask for the same tool  *)
(* name, with a token (a --config file) or without (name and image only).  *)
EXTENDS ToolScript, TLC

CONSTANTS r1, r2, q1, img, n1, n2, k, t1, t2

Post(name, token) ==
    [name |-> name, token |-> token, image |-> img, explicit |-> FALSE, defects |-> {}]

TwoUsers == {Post(n1, k), Post(n1, None), Post(n2, k)}

\* one good request, and one the request builder refuses
OneUser  == {Post(n1, None), [Post(n2, k) EXCEPT !.explicit = TRUE, !.defects = {"field"}]}

Symmetry == Permutations({r1, r2}) \cup Permutations({t1, t2})

===============================================================================
