---------------------------- MODULE ContainerPid ----------------------------
(***************************************************************************)
(* host_pid_to_container_pid of src/src/ai/backend/agent/utils.py: the pid *)
(* a host process has inside its container.  The host is a sequence of    *)
(* processes in host pid order, each with the container it runs in ("host" *)
(* for none), its pid in that container's namespace and its command line.  *)
(* The function reads three views of it: docker top (the container's      *)
(* processes, host pids, in host pid order), ps -aux run in the container  *)
(* (container pids, in container pid order) and the cgroup pids hierarchy  *)
(* (one directory of task host pids per container) with /proc/<pid>/status *)
(* (NSpid: the pid in each namespace, outermost first).  A version string  *)
(* component is a sequence of digits; a pid read from ps stays a str.      *)
(***************************************************************************)
EXTENDS Integers, Sequences, SequencesExt

\* What the function returns: an int, or the text of a pid read from ps.
Pid(n) == [int |-> n]
Str(n) == [str |-> n]

NotContainerPID == Pid(-1)
InOtherContainerPID == Pid(-2)

\* Python's < on two str of digits: lexicographic, character by character.
RECURSIVE StrLess(_, _)
StrLess(a, b) ==
    IF b = <<>> THEN FALSE
    ELSE IF a = <<>> THEN TRUE
    ELSE IF Head(a) # Head(b) THEN Head(a) < Head(b)
    ELSE StrLess(Tail(a), Tail(b))

\* kernel_ver_tuple < ('4', '1'): tuples of str compare item by item.
KernelBefore41(ver) ==
    \/ StrLess(ver[1], <<4>>)
    \/ ver[1] = <<4>> /\ StrLess(ver[2], <<1>>)

\* The rows of docker top for container c, and of ps -aux run inside it.
TopRows(w, c) ==
    LET mine == SelectSeq(w, LAMBDA p : p.ctr = c)
    IN [i \in DOMAIN mine |-> [pid |-> mine[i].hpid, cmd |-> mine[i].cmd]]
PsRows(w, c) ==
    SetToSortSeq({[pid |-> p.cpid, cmd |-> p.cmd] : p \in {q \in ToSet(w) : q.ctr = c}},
                 LAMBDA a, b : a.pid < b.pid)

\* The pre-4.1 path with the ps table indexed without filtering it.
OldPathUnfiltered(w, c, hp) ==
    LET procs == TopRows(w, c)
        hit == SelectInSeq(procs, LAMBDA r : r.pid = hp)
        cmd == procs[hit].cmd
        host_table == SelectSeq(procs, LAMBDA r : r.cmd = cmd)
        container_table == PsRows(w, c)
        process_idx == SelectInSeq(host_table, LAMBDA r : r.pid = hp)
    IN IF hit = 0 \/ process_idx > Len(container_table) THEN NotContainerPID
       ELSE Str(container_table[process_idx].pid)

\* The pre-4.1 path: the command of hp in docker top (IndexError if hp is
\* not there), its index among the host rows with that command, and the
\* container row at that index among the ps rows with that command
\* (IndexError if there are fewer); the pid is returned as read, a str.
OldPath(w, c, hp) ==
    LET procs == TopRows(w, c)
        hit == SelectInSeq(procs, LAMBDA r : r.pid = hp)
        cmd == procs[hit].cmd
        host_table == SelectSeq(procs, LAMBDA r : r.cmd = cmd)
        container_table == SelectSeq(PsRows(w, c), LAMBDA r : r.cmd = cmd)
        process_idx == SelectInSeq(host_table, LAMBDA r : r.pid = hp)
    IN IF hit = 0 \/ process_idx > Len(container_table) THEN NotContainerPID
       ELSE Str(container_table[process_idx].pid)

\* NSpid of the process with host pid hp: its pid in the host and in its
\* container's namespace.
NSpid(w, hp) ==
    LET p == CHOOSE q \in ToSet(w) : q.hpid = hp IN <<p.hpid, p.cpid>>

\* The cgroup walk: the first directory whose tasks hold hp decides; the
\* container's own directory gives NSpid[1], another InOtherContainerPID.
RECURSIVE CgroupScan(_, _, _, _)
CgroupScan(w, dirs, c, hp) ==
    IF dirs = <<>> THEN NotContainerPID
    ELSE IF hp \notin {p.hpid : p \in {q \in ToSet(w) : q.ctr = Head(dirs)}}
         THEN CgroupScan(w, Tail(dirs), c, hp)
    ELSE IF Head(dirs) = c THEN Pid(NSpid(w, hp)[2])
    ELSE InOtherContainerPID

\* The version is <<>> (no match) when /proc/version does not have the form
\* the regular expression expects; the cgroup walk is then taken.
HostPidToContainerPid(ver, w, dirs, c, hp) ==
    IF ver # <<>> /\ KernelBefore41(ver) THEN OldPath(w, c, hp)
    ELSE CgroupScan(w, dirs, c, hp)

-----------------------------------------------------------------------------
(* The reference: the pid of hp in container c, InOtherContainerPID when  *)
(* hp runs in another container, NotContainerPID when in none or absent.  *)
(* A kernel is older than 4.1 by the numbers its version names.           *)

DigitsValue(d) == FoldLeft(LAMBDA acc, x : 10 * acc + x, 0, d)

OlderThan41(ver) ==
    ver # <<>> /\ DigitsValue(ver[1]) * 1000 + DigitsValue(ver[2]) < 4001

TruePid(w, c, hp) ==
    IF \E p \in ToSet(w) : p.hpid = hp /\ p.ctr = c
    THEN Pid((CHOOSE p \in ToSet(w) : p.hpid = hp).cpid)
    ELSE IF \E p \in ToSet(w) : p.hpid = hp /\ p.ctr # "host"
    THEN InOtherContainerPID
    ELSE NotContainerPID

\* Within container c, container pids are in the order of host pids: what
\* the pre-4.1 path assumes of the two tables.
SameOrder(w, c) ==
    \A i, j \in DOMAIN w :
        i < j /\ w[i].ctr = c /\ w[j].ctr = c => w[i].cpid < w[j].cpid

=============================================================================
