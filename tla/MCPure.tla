------------------------------ MODULE MCPure ------------------------------
(* The pure functions of the agent checked against their references:     *)
(* parse_service_ports on every label of up to MaxSegments segments, and *)
(* the execute_code reply with match_result on every reply and match     *)
(* object built from the strings below, and host_pid_to_container_pid on *)
(* every host of up to three processes in two containers.                *)
EXTENDS ServicePorts, MatchResult, ContainerPid

CONSTANTS MaxSegments, MaxLen, MaxValueLen

\* Port lists of one or two ports, as the bracketed form allows.
PortLists == UNION {[1 .. n -> PortNums] : n \in 1 .. 2}

Segments == [name : Names, proto : Protos, ports : PortLists] \cup {Junk}

Labels == UNION {[1 .. n -> Segments] : n \in 0 .. MaxSegments}

\* Output strings, and match values, which may also hold the anchor.
Strs == UNION {[1 .. n -> {"a", "b", "."}] : n \in 0 .. MaxLen}
Values == UNION {[1 .. n -> {"a", "b", ".", "^"}] : n \in 0 .. MaxValueLen}

\* The replies _execute_code builds: its exception list is always empty.
Results == [stdout : Strs, stderr : {<<>>, <<"b">>}, exceptions : {<<>>}]

\* Complete match objects with valid and invalid fields, objects missing
\* keys, and no match object at all.
Complete == [op : {"contains", "equal", "regex", "search"},
             target : {"stdout", "stderr", "exception", "stdin"},
             value : Values \cup {NonStr}]
Partial == {[key \in D |-> CASE key = "op" -> "contains"
                             [] key = "target" -> "stdout"
                             [] OTHER -> <<"a">>]
            : D \in SUBSET MatchKeys \ {{}, MatchKeys}}
Matches == Complete \cup Partial \cup {<<>>}

\* Hosts of up to three processes with host pids 11, 22, 33, each in c1,
\* c2 or no container, running one of two commands; container pids are
\* distinct in a container and in any order (pid numbers wrap around).
Procs == [ctr : {"c1", "c2"}, cmd : {"py", "sh"}, cpid : 1 .. 3]
         \cup [ctr : {"host"}, cmd : {"py", "sh"}, cpid : {1}]
Layouts(n) == {ps \in [1 .. n -> Procs] :
                  \A i, j \in 1 .. n : i # j /\ ps[i].ctr = ps[j].ctr
                                     /\ ps[i].ctr # "host" => ps[i].cpid # ps[j].cpid}
Hosts == UNION {{[i \in 1 .. n |-> [hpid |-> 11 * i, ctr |-> ps[i].ctr,
                                   cmd |-> ps[i].cmd, cpid |-> ps[i].cpid]]
                 : ps \in Layouts(n)} : n \in 0 .. 3}
\* /proc/version's numbers as digit strings (<<>>: no match): 3.10, 4.0,
\* 4.1, 4.10, 5.4.
Versions == {<<>>, <<<<3>>, <<1, 0>>>>, <<<<4>>, <<0>>>>, <<<<4>>, <<1>>>>,
             <<<<4>>, <<1, 0>>>>, <<<<5>>, <<4>>>>}

PortInputs == {[kind |-> "ports", label |-> l] : l \in Labels}
MatchInputs == {[kind |-> "match", result |-> r, match |-> m] : r \in Results, m \in Matches}
PidInputs == {[kind |-> "pid", ver |-> v, w |-> h, hp |-> hp] :
                 v \in Versions, h \in Hosts, hp \in {11, 22, 33, 44}}

VARIABLE input

Init == \/ input \in PortInputs
        \/ input \in MatchInputs
        \/ input \in PidInputs
Next == UNCHANGED input

(* The loop of parse_service_ports returns the items, or raises the error *)
(* naming the port, that the label's meaning prescribes.                  *)
ParseMatchesReference ==
    input.kind = "ports" =>
        ParseServicePorts(input.label) = ParseReference(input.label)

(* execute_code returns the reply with the match_result, or the error of *)
(* a malformed match object, that the specification's match semantics    *)
(* prescribe, and the reply alone without a match object.                *)
ReplyMatchesReference ==
    input.kind = "match" =>
        ExecuteCodeReply(input.result, input.match)
            = ReplyReference(input.result, input.match)

(* host_pid_to_container_pid, asked for a host pid and container c1 with *)
(* the cgroup directories c1 and c2, gives on a 4.1 or later kernel (or an *)
(* unreadable version) the pid of the process in c1, InOtherContainerPID  *)
(* if it runs in c2 and NotContainerPID otherwise; on an older kernel,    *)
(* when container pids follow host pids as its comment assumes, the text *)
(* of that pid, and NotContainerPID for a process outside c1.             *)
PidMatchesReference ==
    input.kind = "pid" =>
        LET r == HostPidToContainerPid(input.ver, input.w, <<"c1", "c2">>, "c1", input.hp)
            truth == TruePid(input.w, "c1", input.hp)
        IN IF OlderThan41(input.ver)
           THEN SameOrder(input.w, "c1") =>
                    r = IF truth.int > 0 THEN Str(truth.int) ELSE NotContainerPID
           ELSE r = truth
=============================================================================
