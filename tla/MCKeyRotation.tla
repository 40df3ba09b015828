---------------------------- MODULE MCKeyRotation ----------------------------
(* Key "a" gives way to key "b": in front of it or behind it, and added    *)
(* with a blank at first or not.  The rest of the file is the smallest     *)
(* that starts, changed in one place at a time; sync calls have one        *)
(* parameter out of order.                                                 *)
EXTENDS KeyRotation, TLC

CONSTANTS c1, c2, i1, i2

MCText == {"ap-shanghai", "ags", "http://sync", "a", "b", "long", "ftp://sync"}
MCUrls == {"http://sync"}
MCTooLong == [f \in SyncFields |-> {"long"}]
Forms(texts) == {Plain(t) : t \in texts} \cup {Padded(t) : t \in texts}
MCHeaders == Forms({"", "a", "b"})

A == Plain("a")
B == Plain("b")
MCKeyLists == {<<A, B>>, <<B, A>>, <<B>>, <<A, Padded("b")>>, <<Padded("b"), A>>}

\* f with the value y for x, whether it gave one before or not
Give(f, x, y) == [z \in DOMAIN f \cup {x} |-> IF z = x THEN y ELSE f[z]]

Small ==
    [keys |-> <<A>>, images |-> <<A>>,
     texts |-> [x \in {"SecretID", "SecretKey", "Username", "Password"} |-> A],
     numbers |-> [x \in {} |-> 0]]

Changed ==
    {Small}
    \cup {[Small EXCEPT !.images = k] :
            k \in {<<>>, <<A, B>>, <<Padded("a")>>, <<A, Omitted>>, <<Plain("long")>>}}
    \cup {[Small EXCEPT !.texts = Give(@, x, Padded(""))] : x \in TextFields}
    \cup {[Small EXCEPT !.texts = Give(@, "SyncEndpoint", y)] :
            y \in {Plain("ftp://sync"), Padded("http://sync")}}
    \cup {[Small EXCEPT !.numbers = Give(@, x, 0)] : x \in NumberFields}
    \cup {[Small EXCEPT !.numbers = Give(@, x, -1)] : x \in NumberFields}
    \cup {[Small EXCEPT !.numbers = Give(@, "MaxAttempts", y)] : y \in {10, 11}}

MCFiles == {[f EXCEPT !.keys = k] : f \in Changed, k \in MCKeyLists \cup {<<A>>, <<A, A>>}}

InOrder == [f \in SyncFields |-> A]
MCSyncCalls ==
    {[InOrder EXCEPT !["image"] = m] : m \in Forms({"", "a", "b", "long"})}
    \cup {[InOrder EXCEPT ![f] = y] : f \in SyncFields \ {"image"}, y \in {Omitted, Plain("long")}}

\* safety only
Symmetry == Permutations({c1, c2}) \cup Permutations({i1, i2})

==============================================================================
