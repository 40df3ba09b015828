---------------------------- MODULE MCToolRequest ----------------------------
(***************************************************************************)
(* Bodies for TLC: a minimal one, varied in one part at a time, and in all *)
(* lists at once where these might be mixed up.  Mode, registry type,      *)
(* scheme and protocol have the options of types.go, which httpx.Parse     *)
(* lets through as they are spelled there only.                            *)
(***************************************************************************)
EXTENDS ToolRequest

MCToolNames == {"tool"}
MCOver200 == {"long"}
MCOver64 == {"long", "longToken"}
MCTimeouts == {"5m", "24h"}
MCAbsolute == {"/", "/mnt/cos", "/health", "/data"}
MCAddresses == {"10.0.0.1"}
MCText == {Default[f] : f \in DOMAIN Default}
          \cup MCToolNames \cup MCOver200 \cup MCOver64 \cup MCTimeouts \cup MCAbsolute
          \cup MCAddresses
          \cup {"envd", "TCP", "PUBLIC", "SANDBOX", "HTTPS", "personal", "vpc",
                "ENTERPRISE", "a", "b", "rel"}

Cases == {<<"vpc", "VPC">>, <<"enterprise", "ENTERPRISE">>}
MCUpperCase == [t \in MCText \cup {""} |->
    IF \E c \in Cases : c[1] = t THEN (CHOOSE c \in Cases : c[1] = t)[2] ELSE t]
MCLowerCase == [t \in MCText \cup {""} |->
    IF \E c \in Cases : c[2] = t THEN (CHOOSE c \in Cases : c[2] = t)[1] ELSE t]

\* a text with and without blanks around it
Forms(texts) == {Plain(t) : t \in texts} \cup {Padded(t) : t \in texts}

\* lists of up to n elements of S
Lists(S, n) == UNION {[1 .. k -> S] : k \in 0 .. n}

Minimal ==
    [toolName |-> Plain("tool"), description |-> Omitted, clientToken |-> Omitted,
     defaultTimeout |-> Omitted, roleArn |-> Omitted, persistent |-> "omitted",
     mode |-> Omitted, subnetIds |-> <<>>, securityGroupIds |-> <<>>,
     image |-> Plain("a"), registryType |-> Omitted, env |-> <<>>, ports |-> <<>>,
     command |-> <<>>, args |-> <<>>,
     probePath |-> Omitted, probePort |-> 0, probeScheme |-> Omitted,
     probeNumbers |-> <<0, 0, 0, 0, 0>>,
     servers |-> <<>>, searches |-> <<>>, options |-> <<>>,
     cpu |-> Omitted, memory |-> Omitted, tags |-> <<>>, mounts |-> <<>>]

Good == [entrypoint |-> <<Plain("a"), Padded("b")>>, cmd |-> <<Plain("b")>>]

Pairs(names) == [name : names, value : {Padded("b")}]
Ports(names, numbers) == [name : names, protocol : {Plain("TCP")}, port : numbers]
Mounts(names, paths) ==
    [name : names, endpoint : {Omitted}, bucketName : {Padded("b")}, bucketPath : {Omitted},
     mountPath : paths, readOnly : {"omitted"}]

Heads ==
    {[Minimal EXCEPT !.toolName = n, !.description = d, !.clientToken = c, !.defaultTimeout = t,
                     !.image = i] :
        n \in Forms({"tool", "rel"}), d \in {Omitted, Padded(""), Padded("a"), Plain("long")},
        c \in {Omitted, Padded(""), Padded("a"), Plain("longToken")},
        t \in {Omitted, Padded(""), Plain("24h"), Plain("rel")}, i \in Forms({"", "a"})}

Networks ==
    {[Minimal EXCEPT !.mode = m, !.subnetIds = s, !.securityGroupIds = g, !.registryType = r] :
        m \in {Omitted} \cup {Plain(t) : t \in {"PUBLIC", "VPC", "SANDBOX"}},
        s \in Lists({Plain("a"), Padded("a"), Padded("")}, 2), g \in Lists(Forms({"", "b"}), 1),
        r \in {Omitted, Plain("personal")}}

Commands == {[Minimal EXCEPT !.command = c] : c \in Lists({Plain("a"), Padded("a"), Padded("")}, 2)}
Configs == [entrypoint : Lists({Plain("a"), Padded("a"), Padded("")}, 2),
            cmd : Lists({Plain("b"), Omitted}, 2)]

Probes ==
    {[Minimal EXCEPT !.probePath = path, !.probePort = port, !.probeScheme = s] :
        path \in {Omitted, Padded(""), Padded("/data"), Plain("rel")},
        port \in {-1, 0, 1, 65535, 65536}, s \in {Omitted, Plain("HTTPS")}}
    \cup {[Minimal EXCEPT !.probeNumbers = n] : n \in [1 .. 5 -> {-1, 0, 7}]}

Resolvers ==
    {[Minimal EXCEPT !.servers = s, !.searches = d, !.options = o] :
        s \in Lists(Forms({"", "10.0.0.1", "rel"}), 2), d \in Lists(Forms({"", "a"}), 1),
        o \in Lists(Forms({"", "a"}), 1)}

Listings ==
    {[Minimal EXCEPT !.tags = t] : t \in Lists(Pairs(Forms({"", "a", "b"})), 2)}
    \cup {[Minimal EXCEPT !.ports = p] :
            p \in Lists(Ports(Forms({"", "a"}) \cup {Plain("b")}, {0, 1, 65535, 65536}), 2)}
    \cup {[Minimal EXCEPT !.mounts = m] :
            m \in Lists(Mounts({Omitted, Padded(""), Plain("a"), Padded("aime-agent-harness")},
                               {Omitted, Plain("/mnt/cos"), Padded("/data"), Plain("rel")}), 2)}
    \cup {[Minimal EXCEPT !.env = e, !.tags = t, !.ports = p, !.mounts = m] :
            e \in Lists(Pairs({Plain("a"), Padded("b")}), 3),
            t \in Lists(Pairs({Plain("a"), Padded("b")}), 2),
            p \in Lists(Ports({Plain("a"), Plain("b")}, {1, 2}), 1),
            m \in Lists(Mounts({Plain("a")}, {Plain("/data")}), 1)}

MCInputs ==
    [body : Heads \cup Networks \cup Probes \cup Resolvers \cup Listings, config : {Good}]
    \cup [body : Commands, config : Configs]

=============================================================================
