---------------------------- MODULE ServicePorts ----------------------------
(***************************************************************************)
(* parse_service_ports of src/src/ai/backend/agent/utils.py: the image     *)
(* label listing a kernel's service ports, e.g.                            *)
(*     "jupyter:http:8080,sftp:tcp:[2200,2201]"                            *)
(* is parsed one entry at a time with the anchored regex                   *)
(*     ^(name \w+):(proto \w+):(ports \[\d+(,\d+)*\] | \d+)(,|$)           *)
(* The text is abstracted to what the regex reads from it: a sequence of   *)
(* segments, each an entry the regex matches at that point or Junk, a rest *)
(* it does not match (the loop then stops and returns what it has).  An    *)
(* entry is [name, proto, ports] with ports the sequence of integers of    *)
(* the bracketed list.  (\w+ never matches an empty name, so the          *)
(* "must be not empty" check of line 83 cannot fail.)                      *)
(***************************************************************************)
EXTENDS Integers, Sequences, SequencesExt

CONSTANTS
    Names,      \* service names
    Protos,     \* protocol words
    PortNums,   \* port numbers
    Junk        \* a rest of the label that the regex does not match

Entry == [name : Names, proto : Protos, ports : Seq(PortNums)]

\* Ports 2000..2003 are the kernel runner's own (line 94).
Reserved == 2000 .. 2003

\* The protocols a ServicePortProtocols value exists for (line 87).
Supported == {"tcp", "http"}

\* An error result: the ValueError raised, and the port it names (0: none).
Fail(err, port) == [err |-> err, port |-> port, items |-> <<>>]
Ok(items) == [err |-> "none", port |-> 0, items |-> items]

\* The item appended for an entry: host_ports is a None per port.
Item(e) == [name |-> e.name, protocol |-> e.proto, container_ports |-> e.ports,
            host_ports |-> [i \in DOMAIN e.ports |-> "None"]]

\* The checks of one container port p against the ports taken so far, in
\* the order of the code; "none" when p passes.
PortError(p, used) ==
    CASE p \in used       -> "used"
      [] p <= 1024        -> "privileged"
      [] p \in Reserved   -> "reserved"
      [] OTHER            -> "none"

\* Fault variant of CheckPorts: used_ports.add(p) is missing, so a port
\* repeated within or across entries is accepted.
RECURSIVE CheckPortsNoAdd(_, _)
CheckPortsNoAdd(ps, used) ==
    IF ps = <<>>
    THEN [err |-> "none", port |-> 0, used |-> used]
    ELSE LET p == Head(ps) IN
         IF PortError(p, used) # "none"
         THEN [err |-> PortError(p, used), port |-> p, used |-> used]
         ELSE CheckPortsNoAdd(Tail(ps), used)

\* for p in ports: check p, then used_ports.add(p).  The result is the
\* first failing port, or the grown set of used ports.
RECURSIVE CheckPorts(_, _)
CheckPorts(ps, used) ==
    IF ps = <<>>
    THEN [err |-> "none", port |-> 0, used |-> used]
    ELSE LET p == Head(ps) IN
         IF PortError(p, used) # "none"
         THEN [err |-> PortError(p, used), port |-> p, used |-> used]
         ELSE CheckPorts(Tail(ps), used \cup {p})

\* The while loop over the rest s of the label: stop at its end or where
\* the regex does not match; skip pty entries; refuse other protocols;
\* check the ports and append the item.
RECURSIVE Parse(_, _, _)
Parse(s, used, items) ==
    IF s = <<>> \/ Head(s) = Junk
    THEN Ok(items)
    ELSE LET e == Head(s) IN
         CASE e.proto = "pty"       -> Parse(Tail(s), used, items)
           [] e.proto \notin Supported -> Fail("protocol", 0)
           [] OTHER ->
                LET c == CheckPorts(e.ports, used) IN
                IF c.err # "none"
                THEN Fail(c.err, c.port)
                ELSE Parse(Tail(s), c.used, Append(items, Item(e)))

ParseServicePorts(s) == Parse(s, {}, <<>>)

-----------------------------------------------------------------------------
(* The reference: what the label means, stated over the whole input at    *)
(* once.  The entries before the first unmatched rest are read; pty        *)
(* entries are ignored; every other entry is one protocol check followed  *)
(* by one check per port, and the result is the first check that fails,  *)
(* or all the items.                                                       *)

Read(s) ==
    LET stop == SelectInSeq(s, LAMBDA g : g = Junk)
    IN IF stop = 0 THEN s ELSE SubSeq(s, 1, stop - 1)

Served(s) == SelectSeq(Read(s), LAMBDA e : e.proto # "pty")

\* The checks in order: [proto, port] with port 0 for the protocol check.
Checks(s) ==
    FlattenSeq([i \in DOMAIN Served(s) |->
        <<[proto |-> Served(s)[i].proto, port |-> 0]>>
        \o [j \in DOMAIN Served(s)[i].ports |->
               [proto |-> Served(s)[i].proto, port |-> Served(s)[i].ports[j]]]])

\* A service port is a port above 1024, outside the runner's 2000-2003,
\* that no earlier check has named; the error says which rule it breaks
\* first: duplicate, then privileged, then reserved.
ServicePortOK(p, earlier) ==
    p \notin earlier /\ p > 1024 /\ p \notin {2000, 2001, 2002, 2003}

\* The error of check number j of cs, given that the checks before it passed.
CheckError(cs, j) ==
    LET p == cs[j].port
        earlier == {cs[i].port : i \in 1 .. j - 1}
    IN CASE p = 0 /\ cs[j].proto \in Supported    -> "none"
         [] p = 0                                  -> "protocol"
         [] ServicePortOK(p, earlier)              -> "none"
         [] p \in earlier                          -> "used"
         [] p \in {2000, 2001, 2002, 2003} /\ p > 1024 -> "reserved"
         [] OTHER                                  -> "privileged"

ParseReference(s) ==
    LET cs == Checks(s)
        bad == {j \in DOMAIN cs : CheckError(cs, j) # "none"}
    IN IF bad = {}
       THEN Ok([i \in DOMAIN Served(s) |-> Item(Served(s)[i])])
       ELSE LET j == CHOOSE j \in bad : \A i \in bad : j <= i
            IN Fail(CheckError(cs, j), cs[j].port)

=============================================================================
