------------------------------- MODULE Agent -------------------------------
(***************************************************************************)
(* The kernel lifecycle of the agent (src/sorna/agent/server.py): the      *)
(* container registry, the CPU core map, the restarting_kernels events,    *)
(* the Docker engine's containers and its stream of "die" events, and the *)
(* coroutines that mutate them: _create_kernel, _destroy_kernel,           *)
(* restart_kernel, clean_kernel and monitor.                               *)
(*                                                                         *)
(* The agent runs on one asyncio event loop.  A coroutine runs without     *)
(* interruption between two awaits, so every action below is one such     *)
(* segment: it starts where an awaited Docker call resumes and ends at the *)
(* next await.  Running coroutines are records in the bag `tasks`; `pc`    *)
(* names the await a coroutine is suspended at.  Docker calls take effect  *)
(* on the engine's state at the moment the coroutine resumes.             *)
(***************************************************************************)
EXTENDS Integers, Sequences, FiniteSets, Bags, BagsExt, TLC

CONSTANTS
    Kernels,      \* kernel ids the agent may hand out (token_urlsafe)
    Cores,        \* the host's cores
    NodeOf,       \* NUMA node of each core
    ReqCores,     \* the image label io.sorna.maxcores
    MaxRestarts,  \* restart_kernel calls (and so asyncio.Event objects)
    MaxDestroys,  \* _destroy_kernel calls: destroy_kernel, idle reap, reset
    MaxCrashes,   \* containers that die on their own
    MaxFailures,  \* Docker calls that raise
    MaxExecs,     \* execute_code calls
    MaxShutdowns, \* SIGINT/SIGTERM signals: the first starts shutdown(), a second
                  \* one forces the exit
    MaxReconnects,\* times the event stream ends and is re-established
    MaxStats      \* update_stats coroutines started by stats_timer

ASSUME ReqCores \in Nat \ {0}
ASSUME {MaxRestarts, MaxDestroys, MaxCrashes, MaxFailures, MaxExecs,
        MaxShutdowns, MaxReconnects, MaxStats} \subseteq Nat

VARIABLES
    registry,     \* container_registry: kernel id -> [cid, cores, runner,
                  \* rtask], rtask the runner_task's execute_code (0: none)
    free,         \* the free cores of container_cpu_map
    cstate,       \* Docker: state of container <<kernel id, generation>>
    evq,          \* Docker event stream: kernel ids of pending "die" events
    restarting,   \* restarting_kernels: kernel id -> Event id, 0 = absent
    evset,        \* the Event objects that have been set()
    wd,           \* kernels whose work directory volume_root/<id> exists
    tasks,        \* bag of suspended coroutines
    used,         \* kernel ids handed out so far
    terminated,   \* number of kernel_terminated events dispatched per id
    budget,       \* calls and faults used so far, per kind
    xout,         \* execute_code call -> "running" or how its task ended
    cancelled,    \* execute_code tasks with a cancel() not yet delivered
    phase,        \* main(): serving, then the steps of shutdown()
    bcleans,      \* blocking_cleans: kernel id -> "absent", "unset", "set"
    closing,      \* the kernel ids clean_all_kernels took from the registry
    connected,    \* docker.events.run() is streaming events to the monitor
    sampler       \* update_stats coroutine i -> [pc, snap: the kernel ids and
                  \* container ids read before collect_stats, got: the ids
                  \* whose sample came back]

relay == <<xout, cancelled>>
\* The state only main()'s own tasks change: shutdown() and the
\* fetch_docker_events() loop.
daemon == <<phase, closing, connected>>
vars == <<registry, free, cstate, evq, restarting, evset, wd, tasks, used,
          terminated, budget, xout, cancelled, phase, bcleans, closing,
          connected, sampler>>

Alloc == INSTANCE CpuAllocMap

\* A container is named kernel.<lang>.<id>; each create of the same id
\* makes a new container, numbered by generation.
Gens == 1 .. (1 + MaxRestarts)
CStates == {"none", "created", "running", "dead", "deleted"}

Ops == {"create", "destroy", "restart", "clean", "exec", "final"}
Phases == {"serving", "closing", "destroying", "waiting", "done", "failed",
           "exited"}
Pcs == {"image", "wait", "container", "start", "ports", "lookup", "join",
        "kill", "scheduled", "delete", "feed", "rstart", "result", "cclose",
        "close", "raised"}

Execs == 1 .. MaxExecs
Outcomes == {"none", "running", "ok", "raised"}
\* Result statuses of runner.get_next_result().
Statuses == {"continued", "finished", "exec-timeout"}

Task(op, k, pc) == [op |-> op, k |-> k, pc |-> pc, cid |-> 0, cores |-> {},
                    ev |-> 0, x |-> 0, st |-> "continued", grp |-> 0]

Bounds == [restart |-> MaxRestarts, destroy |-> MaxDestroys,
           crash |-> MaxCrashes, fail |-> MaxFailures, exec |-> MaxExecs,
           shutdown |-> MaxShutdowns, reconnect |-> MaxReconnects,
           stats |-> MaxStats]

CanSpend(kind) == budget[kind] < Bounds[kind]
Spend(kind) == budget' = [budget EXCEPT ![kind] = @ + 1]

\* Resume coroutine t as t2, end it, or end it and spawn another.
Become(t, t2) == tasks' = BagAdd(BagRemove(tasks, t), t2)
Finish(t) == tasks' = BagRemove(tasks, t)

Forget(f, k) == [x \in DOMAIN f \ {k} |-> f[x]]

\* Generations of kernel k whose container still holds the name.
Named(k) == {g \in Gens : cstate[<<k, g>>] \in {"created", "running", "dead"}}
NextGen(k) == CHOOSE g \in Gens : cstate[<<k, g>>] = "none"
                                  /\ \A h \in Gens : h < g => cstate[<<k, h>>] # "none"

\* _destroy_kernel once the record is found: the container id is read and,
\* when a runner_task is recorded, that task is cancelled and awaited
\* ("join"); otherwise collect_stats is awaited before the kill.
KillOrJoin(t0, k) ==
    IF registry[k].rtask = 0
    THEN [t0 EXCEPT !.pc = "kill", !.cid = registry[k].cid]
    ELSE [t0 EXCEPT !.pc = "join", !.cid = registry[k].cid,
                    !.x = registry[k].rtask]

CancelRunner(k) ==
    cancelled' = IF k \in DOMAIN registry
                 THEN cancelled \cup ({registry[k].rtask} \ {0})
                 ELSE cancelled

\* The engine's "die" event for kernel k, seen by the monitor only while
\* the event stream is connected.
Emit(k) == IF connected THEN Append(evq, k) ELSE evq

-----------------------------------------------------------------------------
(* RPC entry points.                                                        *)

\* create_kernel -> _create_kernel(lang): a fresh id, then
\* dispatch('kernel_creating') and docker.images.get(...).
CreateKernel ==
    \E k \in Kernels \ used :
        /\ used' = used \cup {k}
        /\ tasks' = BagAdd(tasks, Task("create", k, "image"))
        /\ UNCHANGED <<registry, free, cstate, evq, restarting, evset, wd,
                       terminated, budget>>

\* destroy_kernel -> _destroy_kernel(kernel_id, 'user-requested'): a
\* missing kernel is only logged; otherwise the container id is read and
\* collect_stats is awaited.
DestroyKernel ==
    \E k \in used :
        /\ CanSpend("destroy")
        /\ Spend("destroy")
        /\ tasks' = IF k \in DOMAIN registry
                    THEN BagAdd(tasks, KillOrJoin(Task("destroy", k, ""), k))
                    ELSE tasks
        /\ CancelRunner(k)
        /\ UNCHANGED <<registry, free, cstate, evq, restarting, evset, wd,
                       used, terminated, xout>>

\* _destroy_kernel coroutines started with asyncio.ensure_future for the
\* kernels in ids, added to the coroutines in base; each looks its kernel
\* up only when it first runs.  grp = 1 marks those of the clean_old_kernels
\* that cleanup_timer started last, while they have not run.
SpawnDestroys(base, ids, g) ==
    /\ CanSpend("destroy")
    /\ Spend("destroy")
    /\ tasks' = base (+) SetToBag({[Task("destroy", k, "lookup") EXCEPT !.grp = g]
                                     : k \in ids})
    /\ UNCHANGED <<registry, free, cstate, evq, restarting, evset, wd, used,
                   terminated>>

\* reset: destroy every kernel of the registry ('agent-reset').
Reset == SpawnDestroys(tasks, DOMAIN registry, 0)

\* cleanup_timer (every 10 s) starts clean_old_kernels, which destroys the
\* kernels idle for longer than idle_timeout ('idle-timeout') and awaits
\* them with asyncio.gather.  Time is not modelled: any non-empty set of
\* registered kernels may be the idle ones.  (A tick that finds no idle
\* kernel leaves a task that ends at once.)
CleanOldKernels ==
    \E idle \in SUBSET DOMAIN registry \ {{}} :
        SpawnDestroys(BagOfAll(LAMBDA u : [u EXCEPT !.grp = 0], tasks), idle, 1)

\* A spawned _destroy_kernel starts: registry lookup (missing -> return),
\* then collect_stats is awaited.
DestroyLookup(t) ==
    /\ t.pc = "lookup"
    /\ IF t.k \in DOMAIN registry
       THEN Become(t, KillOrJoin([t EXCEPT !.grp = 0], t.k))
       ELSE Finish(t)
    /\ CancelRunner(t.k)
    /\ UNCHANGED <<registry, free, cstate, evq, restarting, evset, wd, used,
                   terminated, budget, xout>>

\* restart_kernel: restarting_kernels[id] = Event(), then _destroy_kernel.
\* When the kernel is missing, reading its 'lang' raises KeyError and the
\* Event stays in restarting_kernels.
RestartKernel ==
    \E k \in used :
        LET ev == budget.restart + 1 IN
        /\ CanSpend("restart")
        /\ Spend("restart")
        /\ restarting' = [restarting EXCEPT ![k] = ev]
        /\ tasks' = IF k \in DOMAIN registry
                    THEN BagAdd(tasks, KillOrJoin([Task("restart", k, "")
                                                     EXCEPT !.ev = ev], k))
                    ELSE tasks
        /\ CancelRunner(k)
        /\ UNCHANGED <<registry, free, cstate, evq, evset, wd, used,
                       terminated, xout>>

\* `await runner_task` returns once the cancelled execute_code has ended.
\* It is outside the try block: when that task ended with an exception
\* (CancelledError or KeyError included) _destroy_kernel, and the
\* restart_kernel calling it, raise here without killing the container.
DestroyJoin(t) ==
    /\ t.pc = "join"
    /\ xout[t.x] \in {"ok", "raised"}
    /\ CASE xout[t.x] = "ok" -> Become(t, [t EXCEPT !.pc = "kill"])
         [] t.op = "final"    -> Become(t, [t EXCEPT !.pc = "raised"])
         [] OTHER             -> Finish(t)
    /\ UNCHANGED <<registry, free, cstate, evq, restarting, evset, wd, used,
                   terminated, budget, xout, cancelled>>

-----------------------------------------------------------------------------
\* Fault variant of DestroyKill: the 500 "is not running" answer is taken
\* for 404, so a container that is already dead is forgotten as well.
DestroyKillForgetsDead(t) ==
    LET k == t.k
        c == <<k, t.cid>>
        gone == cstate[c] \in {"none", "deleted", "dead"}
        registry2 == IF gone THEN Forget(registry, k) ELSE registry
    IN
    /\ t.pc = "kill"
    /\ IF k \notin DOMAIN registry
       THEN /\ Finish(t)
            /\ UNCHANGED <<registry, free, cstate, evq>>
       ELSE /\ cstate' = IF cstate[c] = "running"
                         THEN [cstate EXCEPT ![c] = "dead"] ELSE cstate
            /\ evq' = IF cstate[c] = "running" THEN Emit(k) ELSE evq
            /\ registry' = registry2
            /\ IF gone THEN Alloc!Free(registry[k].cores) ELSE UNCHANGED free
            /\ IF t.op = "restart" /\ k \in DOMAIN registry2
               THEN Become(t, [t EXCEPT !.pc = "image"])
               ELSE Finish(t)
    /\ UNCHANGED <<restarting, evset, wd, used, terminated, budget>>

-----------------------------------------------------------------------------
(* _destroy_kernel after collect_stats: store last_stat (KeyError when the  *)
(* record is gone), then container.kill().  A dead container answers 500   *)
(* "is not running" and is left alone; a deleted one answers 404 and the   *)
(* kernel is forgotten: its cores are freed and its record deleted.  In    *)
(* restart_kernel the call returns to reading registry[id]['lang'] and     *)
(* dispatching kernel_restarting.                                          *)
(* The collect_stats and kill awaits are one step here, so the KeyError   *)
(* that the 404 branch raises (outside the bare except) when clean_kernel *)
(* removed the record during the kill await is not represented, nor the  *)
(* branch for other Docker errors, which only logs.                       *)
DestroyKill(t) ==
    LET k == t.k
        c == <<k, t.cid>>
        gone == cstate[c] \in {"none", "deleted"}
        registry2 == IF gone THEN Forget(registry, k) ELSE registry
    IN
    /\ t.pc = "kill"
    /\ IF k \notin DOMAIN registry
       THEN /\ Finish(t)
            /\ UNCHANGED <<registry, free, cstate, evq>>
       ELSE /\ cstate' = IF cstate[c] = "running"
                         THEN [cstate EXCEPT ![c] = "dead"] ELSE cstate
            /\ evq' = IF cstate[c] = "running" THEN Emit(k) ELSE evq
            /\ registry' = registry2
            /\ IF gone THEN Alloc!Free(registry[k].cores) ELSE UNCHANGED free
            /\ IF t.op = "restart" /\ k \in DOMAIN registry2
               THEN Become(t, [t EXCEPT !.pc = "image"])
               ELSE Finish(t)
    /\ UNCHANGED <<restarting, evset, wd, used, terminated, budget>>

-----------------------------------------------------------------------------
(* _create_kernel once docker.images.get resumes.  The lookup may raise.   *)
(* A kernel in restarting_kernels keeps its core_set (read from the        *)
(* registry: KeyError when the record is gone) and waits on the current    *)
(* Event; any other kernel creates its work directory (os.makedirs raises *)
(* if it exists) and allocates min(maxcores, #cores) cores.               *)
CreateImage(t) ==
    /\ t.pc = "image"
    /\ \/ /\ CanSpend("fail")
          /\ Spend("fail")
          /\ Finish(t)
          /\ UNCHANGED <<free, wd>>
       \/ /\ restarting[t.k] # 0
          /\ IF t.k \in DOMAIN registry
             THEN Become(t, [t EXCEPT !.pc = "wait",
                                      !.cores = registry[t.k].cores,
                                      !.ev = restarting[t.k]])
             ELSE Finish(t)
          /\ UNCHANGED <<free, wd, budget>>
       \/ /\ restarting[t.k] = 0
          /\ t.k \in wd
          /\ Finish(t)
          /\ UNCHANGED <<free, wd, budget>>
       \/ /\ restarting[t.k] = 0
          /\ t.k \notin wd
          /\ wd' = wd \cup {t.k}
          /\ \E grant \in Alloc!AllocChoices(free, Alloc!NumCores(ReqCores)) :
                /\ Alloc!Alloc(Alloc!NumCores(ReqCores), grant)
                /\ Become(t, [t EXCEPT !.pc = "container", !.cores = grant[2]])
          /\ UNCHANGED budget
    /\ UNCHANGED <<registry, cstate, evq, restarting, evset, used, terminated>>

\* `with timeout(10): await restarting_kernels[id].wait()`.  Once the Event
\* is set the restart proceeds; otherwise the timeout may fire: the current
\* entry is deleted (KeyError if another restart already removed it),
\* clean_kernel is scheduled, and TimeoutError propagates.
CreateWait(t) ==
    /\ t.pc = "wait"
    /\ \/ /\ t.ev \in evset
          /\ Become(t, [t EXCEPT !.pc = "container"])
          /\ UNCHANGED restarting
       \/ /\ t.ev \notin evset
          /\ restarting[t.k] = 0
          /\ Finish(t)
          /\ UNCHANGED restarting
       \/ /\ t.ev \notin evset
          /\ restarting[t.k] # 0
          /\ restarting' = [restarting EXCEPT ![t.k] = 0]
          /\ tasks' = BagAdd(BagRemove(tasks, t), Task("clean", t.k, "scheduled"))
    /\ UNCHANGED <<registry, free, cstate, evq, evset, wd, used, terminated,
                   budget>>

\* get_extra_volumes, prepare_nvidia and docker.containers.create resume.
\* Any of them may raise; the name kernel.<lang>.<id> conflicts (409) while
\* an earlier container of the id is not deleted.  Nothing returns the
\* cores taken above when this step raises.
CreateContainer(t) ==
    /\ t.pc = "container"
    /\ \/ /\ CanSpend("fail")
          /\ Spend("fail")
          /\ Finish(t)
          /\ UNCHANGED cstate
       \/ /\ Named(t.k) # {}
          /\ Finish(t)
          /\ UNCHANGED <<cstate, budget>>
       \/ /\ Named(t.k) = {}
          /\ cstate' = [cstate EXCEPT ![<<t.k, NextGen(t.k)>>] = "created"]
          /\ Become(t, [t EXCEPT !.pc = "start", !.cid = NextGen(t.k)])
          /\ UNCHANGED budget
    /\ UNCHANGED <<registry, free, evq, restarting, evset, wd, used,
                   terminated>>

\* container.start() resumes (it may raise).
CreateStart(t) ==
    /\ t.pc = "start"
    /\ \/ /\ CanSpend("fail")
          /\ Spend("fail")
          /\ Finish(t)
          /\ UNCHANGED cstate
       \/ /\ cstate' = [cstate EXCEPT ![<<t.k, t.cid>>] = "running"]
          /\ Become(t, [t EXCEPT !.pc = "ports"])
          /\ UNCHANGED budget
    /\ UNCHANGED <<registry, free, evq, restarting, evset, wd, used,
                   terminated>>

\* Fault variant of CreatePorts: the record is stored without the id of the
\* container that was just created.
CreatePortsNoCid(t) ==
    /\ t.pc = "ports"
    /\ registry' = (t.k :> [cid |-> 0, cores |-> t.cores,
                                   runner |-> FALSE, rtask |-> 0]) @@ registry
    /\ restarting' = IF t.op = "restart"
                     THEN [restarting EXCEPT ![t.k] = 0] ELSE restarting
    /\ Finish(t)
    /\ UNCHANGED <<free, cstate, evq, evset, wd, used, terminated, budget>>

\* The four container.port() lookups resume and the record is stored.  A
\* container that has stopped publishes no ports and the lookup raises;
\* one that died after answering is registered all the same.  In
\* restart_kernel the restarting_kernels entry is then deleted.
CreatePorts(t) ==
    LET c == <<t.k, t.cid>> IN
    /\ t.pc = "ports"
    /\ \/ /\ cstate[c] = "dead"
          /\ Finish(t)
          /\ UNCHANGED <<registry, restarting>>
       \/ /\ cstate[c] \in {"running", "dead"}
          /\ registry' = (t.k :> [cid |-> t.cid, cores |-> t.cores,
                                         runner |-> FALSE, rtask |-> 0]) @@ registry
          /\ restarting' = IF t.op = "restart"
                           THEN [restarting EXCEPT ![t.k] = 0] ELSE restarting
          /\ Finish(t)
    /\ UNCHANGED <<free, cstate, evq, evset, wd, used, terminated, budget>>

-----------------------------------------------------------------------------
\* Fault variant of CleanFinish: a restarting kernel has its Event set but
\* the cleanup does not stop there.
CleanFinishNoReturn(k) ==
    /\ evset' = IF restarting[k] # 0 THEN evset \cup {restarting[k]} ELSE evset
    /\ wd' = wd \ {k}
    /\ IF k \in DOMAIN registry
       THEN /\ Alloc!Free(registry[k].cores)
            /\ registry' = Forget(registry, k)
            /\ terminated' = [terminated EXCEPT ![k] = @ + 1]
       ELSE UNCHANGED <<registry, free, terminated>>
    /\ UNCHANGED bcleans

(* clean_kernel, after the engine-delete (or straight away when the record *)
(* is missing): a kernel in restarting_kernels only has its Event set;     *)
(* any other has its work directory removed and, if its record is still    *)
(* there, its cores freed, its record deleted and kernel_terminated        *)
(* dispatched; a kernel in blocking_cleans then has that Event set.       *)
CleanFinish(k) ==
    IF restarting[k] # 0
    THEN /\ evset' = evset \cup {restarting[k]}
         /\ UNCHANGED <<wd, registry, free, terminated, bcleans>>
    ELSE /\ wd' = wd \ {k}
         /\ IF k \in DOMAIN registry
            THEN /\ Alloc!Free(registry[k].cores)
                 /\ registry' = Forget(registry, k)
                 /\ terminated' = [terminated EXCEPT ![k] = @ + 1]
            ELSE UNCHANGED <<registry, free, terminated>>
         /\ bcleans' = IF bcleans[k] = "absent" THEN bcleans
                       ELSE [bcleans EXCEPT ![k] = "set"]
         /\ UNCHANGED evset

\* clean_kernel starts: it reads the record's container id and awaits
\* container.delete(); without a record it goes on at once.
CleanStart(t) ==
    /\ t.pc = "scheduled"
    /\ IF t.k \in DOMAIN registry
       THEN /\ Become(t, [t EXCEPT !.pc = "delete", !.cid = registry[t.k].cid])
            /\ UNCHANGED <<registry, free, evset, wd, terminated, bcleans>>
       ELSE /\ Finish(t)
            /\ CleanFinish(t.k)
    /\ UNCHANGED <<cstate, evq, restarting, used, budget>>

\* container.delete() resumes: a stopped container is removed; a running
\* one answers 409 and a deleted one 404, both only logged.
CleanDelete(t) ==
    LET c == <<t.k, t.cid>> IN
    /\ t.pc = "delete"
    /\ cstate' = IF cstate[c] \in {"created", "dead"}
                 THEN [cstate EXCEPT ![c] = "deleted"] ELSE cstate
    /\ Finish(t)
    /\ CleanFinish(t.k)
    /\ UNCHANGED <<evq, restarting, used, budget>>

-----------------------------------------------------------------------------
(* The execution relay: execute_code -> _execute_code.  The manager sends  *)
(* one execute_code at a time per kernel; a destroy may come at any time.  *)

\* execute_code: bump last_used/num_queries (KeyError when the kernel is
\* unknown), then await runner.feed_input on the kernel's runner, or scan
\* the work directory, build a KernelRunner and await runner.start.
ExecuteCode ==
    \E k \in DOMAIN registry :
        LET x == budget.exec + 1 IN
        /\ CanSpend("exec")
        /\ ~\E e \in DOMAIN tasks : e.op = "exec" /\ e.k = k
        /\ Spend("exec")
        /\ xout' = [xout EXCEPT ![x] = "running"]
        /\ tasks' = BagAdd(tasks,
                      [Task("exec", k, IF registry[k].runner THEN "feed"
                                       ELSE "rstart") EXCEPT !.x = x])
        /\ UNCHANGED <<registry, free, cstate, evq, restarting, evset, wd,
                       used, terminated, cancelled>>

\* Ends execute_code task t, the way it ended.
Ends(t, how) == /\ Finish(t)
                /\ xout' = [xout EXCEPT ![t.x] = how]

\* runner.start / feed_input resumes: a new runner is stored in the record,
\* then runner_task = the current task, and get_next_result is awaited.
\* Both writes raise KeyError when the record is gone.
ExecStarted(t) ==
    /\ t.pc \in {"feed", "rstart"}
    /\ IF t.k \in DOMAIN registry
       THEN /\ registry' = [registry EXCEPT
                              ![t.k].runner = @ \/ t.pc = "rstart",
                              ![t.k].rtask = t.x]
            /\ Become(t, [t EXCEPT !.pc = "result"])
            /\ UNCHANGED xout
       ELSE /\ Ends(t, "raised")
            /\ UNCHANGED registry
    /\ UNCHANGED <<free, cstate, evq, restarting, evset, wd, used, terminated,
                   budget, cancelled>>

\* Fault variant of ExecResult: runner_task is deleted only on the
\* finished/exec-timeout path (no finally), so a continued run leaves it.
ExecResultKeepsTask(t) ==
    /\ t.pc = "result"
    /\ \/ /\ t.x \in cancelled
          /\ cancelled' = cancelled \ {t.x}
          /\ Become(t, [t EXCEPT !.pc = "cclose"])
          /\ UNCHANGED <<registry, xout>>
       \/ /\ t.x \notin cancelled
          /\ t.k \in DOMAIN registry
          /\ \E st \in Statuses :
                IF st = "continued"
                THEN /\ Ends(t, "ok")
                     /\ UNCHANGED registry
                ELSE /\ registry' = [registry EXCEPT ![t.k].rtask = 0]
                     /\ Become(t, [t EXCEPT !.pc = "close", !.st = st])
                     /\ UNCHANGED xout
          /\ UNCHANGED cancelled
    /\ UNCHANGED <<free, cstate, evq, restarting, evset, wd, used, terminated,
                   budget>>

\* get_next_result resumes.  A pending cancel() arrives as CancelledError
\* and runner.close() is awaited.  Otherwise a result of any status comes
\* back and the finally block deletes runner_task (KeyError when the
\* record or the key is gone); a finished or timed-out run then awaits
\* runner.close(), a continued one returns with its runner kept.
ExecResult(t) ==
    /\ t.pc = "result"
    /\ \/ /\ t.x \in cancelled
          /\ cancelled' = cancelled \ {t.x}
          /\ Become(t, [t EXCEPT !.pc = "cclose"])
          /\ UNCHANGED <<registry, xout>>
       \/ /\ t.x \notin cancelled
          /\ \E st \in Statuses :
                IF t.k \in DOMAIN registry /\ registry[t.k].rtask # 0
                THEN /\ registry' = [registry EXCEPT ![t.k].rtask = 0]
                     /\ IF st = "continued"
                        THEN Ends(t, "ok")
                        ELSE /\ Become(t, [t EXCEPT !.pc = "close", !.st = st])
                             /\ UNCHANGED xout
                ELSE /\ Ends(t, "raised")
                     /\ UNCHANGED registry
          /\ UNCHANGED cancelled
    /\ UNCHANGED <<free, cstate, evq, restarting, evset, wd, used, terminated,
                   budget>>

\* runner.close() in the CancelledError handler resumes, or is itself
\* cancelled by a second cancel().  Then `del record['runner']` (skipped
\* when close was cancelled; KeyError when absent) and the finally
\* block's `del record['runner_task']`; the task ends without a result.
ExecCancelClose(t) ==
    LET again == t.x \in cancelled
        present == t.k \in DOMAIN registry
        clean == ~again /\ present /\ registry[t.k].runner
                 /\ registry[t.k].rtask # 0
    IN
    /\ t.pc = "cclose"
    /\ cancelled' = cancelled \ {t.x}
    /\ registry' = IF present
                   THEN [registry EXCEPT ![t.k].rtask = 0,
                                         ![t.k].runner = @ /\ again]
                   ELSE registry
    /\ Ends(t, IF clean THEN "ok" ELSE "raised")
    /\ UNCHANGED <<free, cstate, evq, restarting, evset, wd, used, terminated,
                   budget>>

\* runner.close() after a finished or exec-timeout result resumes: the
\* runner is deleted from the record (KeyError when gone), the output
\* files are uploaded and initial_file_stats deleted.  For exec-timeout
\* the test `kernel_id in self.container_resgistry` raises AttributeError,
\* so no _destroy_kernel is scheduled and no result is returned.
ExecClose(t) ==
    LET ok == t.k \in DOMAIN registry /\ registry[t.k].runner IN
    /\ t.pc = "close"
    /\ registry' = IF ok THEN [registry EXCEPT ![t.k].runner = FALSE]
                   ELSE registry
    /\ Ends(t, IF ok /\ t.st = "finished" THEN "ok" ELSE "raised")
    /\ UNCHANGED <<free, cstate, evq, restarting, evset, wd, used, terminated,
                   budget, cancelled>>

-----------------------------------------------------------------------------
\* monitor: a "die" event of a container named kernel.* schedules
\* clean_kernel(kernel_id) with asyncio.ensure_future.
Monitor ==
    /\ evq # <<>>
    /\ evq' = Tail(evq)
    /\ tasks' = BagAdd(tasks, Task("clean", Head(evq), "scheduled"))
    /\ UNCHANGED <<registry, free, cstate, restarting, evset, wd, used,
                   terminated, budget>>

\* The process in a container exits on its own (crash, OOM, exit()).
ContainerDies ==
    \E k \in used, g \in Gens :
        /\ cstate[<<k, g>>] = "running"
        /\ CanSpend("crash")
        /\ Spend("crash")
        /\ cstate' = [cstate EXCEPT ![<<k, g>>] = "dead"]
        /\ evq' = Emit(k)
        /\ UNCHANGED <<registry, free, restarting, evset, wd, tasks, used,
                       terminated>>

\* Until shutdown() has finished or failed, or the process was forced to
\* exit, the event loop runs.
Alive == phase \notin {"done", "failed", "exited"}

-----------------------------------------------------------------------------
(* stats_timer starts an update_stats every interval without waiting for   *)
(* the previous one.  update_stats reads the registry's ids and container *)
(* ids, then awaits collect_stats; kernels may be destroyed and cleaned   *)
(* in the meantime.                                                        *)

Ticks == 1 .. MaxStats
SamplerPcs == {"none", "collect", "sent", "raised", "cancelled"}

\* stats_timer fires: update_stats snapshots running_kernels and
\* running_containers and awaits collect_stats.
StatsTick ==
    LET i == budget.stats + 1 IN
    /\ CanSpend("stats")
    /\ Spend("stats")
    /\ sampler' = [sampler EXCEPT ![i] =
                     [pc |-> "collect", got |-> {},
                      snap |-> [k \in DOMAIN registry |-> registry[k].cid]]]

\* collect_stats samples container <<k, snap[k]>> while the engine still
\* has it; a sample it cannot take stays None.
StatsSample(i, k) ==
    /\ sampler[i].pc = "collect"
    /\ k \in DOMAIN sampler[i].snap \ sampler[i].got
    /\ cstate[<<k, sampler[i].snap[k]>>] \in {"created", "running", "dead"}
    /\ sampler' = [sampler EXCEPT ![i].got = @ \cup {k}]

\* collect_stats resumes: entries of kernels no longer registered, and
\* None samples, are dropped; the others get the record's limits and
\* counters; instance_stats is dispatched (a timeout is only logged).
StatsResume(i) ==
    /\ sampler[i].pc = "collect"
    /\ sampler' = [sampler EXCEPT ![i].pc = "sent"]

\* shutdown() cancels stats_timer, which cancels its last update_stats if
\* that has not finished; the earlier ones are left to the closing loop.
StatsCancel ==
    sampler' = IF budget.stats > 0 /\ sampler[budget.stats].pc = "collect"
               THEN [sampler EXCEPT ![budget.stats].pc = "cancelled"]
               ELSE sampler

StatsStep(i) ==
    /\ Alive
    /\ \/ \E k \in Kernels : StatsSample(i, k)
       \/ StatsResume(i)
    /\ UNCHANGED <<registry, free, cstate, evq, restarting, evset, wd, tasks,
                   used, terminated, budget, relay, bcleans, daemon>>

-----------------------------------------------------------------------------
(* main(): SIGINT/SIGTERM stops loop.run_forever(), then shutdown() runs.   *)

\* server.close(); await server.wait_closed(): no further RPC is served.
Signal ==
    /\ phase = "serving"
    /\ CanSpend("shutdown")
    /\ Spend("shutdown")
    /\ phase' = "closing"
    /\ UNCHANGED <<registry, free, cstate, evq, restarting, evset, wd, tasks,
                   used, terminated, relay, bcleans, closing, connected,
                   sampler>>

\* clean_all_kernels(blocking=True): a fresh blocking_cleans Event for each
\* registered kernel, a _destroy_kernel('agent-termination') for each, then
\* asyncio.gather of those destroys.
CleanAllKernels ==
    LET ids == DOMAIN registry IN
    /\ phase = "closing"
    /\ phase' = "destroying"
    /\ closing' = ids
    /\ bcleans' = [k \in Kernels |-> IF k \in ids THEN "unset" ELSE bcleans[k]]
    /\ tasks' = tasks (+) SetToBag({Task("final", k, "lookup") : k \in ids})

\* Fault variant of GatherDestroys: the gather collects exceptions
\* (return_exceptions=True), so a raised destroy does not end shutdown().
GatherDestroysAll ==
    /\ phase = "destroying"
    /\ ~\E t \in DOMAIN tasks : t.op = "final" /\ t.pc # "raised"
    /\ phase' = "waiting"
    /\ UNCHANGED <<tasks, closing, bcleans>>

\* The gather resumes: with the first destroy that raised, shutdown()
\* raises and the loop is closed; once all have returned, the
\* blocking_cleans Events are awaited.
GatherDestroys ==
    /\ phase = "destroying"
    /\ \/ /\ \E t \in DOMAIN tasks : t.op = "final" /\ t.pc = "raised"
          /\ phase' = "failed"
       \/ /\ ~\E t \in DOMAIN tasks : t.op = "final"
          /\ phase' = "waiting"
    /\ UNCHANGED <<tasks, closing, bcleans>>

\* The _destroy_kernel tasks of the last clean_old_kernels that have not
\* run yet: a cancel() makes them end with CancelledError when they start.
ReapUnstarted == {t \in DOMAIN tasks : t.grp = 1}

\* The rest of shutdown(): the timers are cancelled (stats_timer cancels
\* the update_stats it started last), then the monitor; instance_terminated
\* is dispatched and the loop is closed.  cleanup_timer cancels its last
\* clean_old_kernels and awaits it: the gather it awaits ends with
\* CancelledError when one of its destroys had not started, and so does
\* `await timer_task` in shutdown(), which raises before the monitor is
\* stopped and instance_terminated is dispatched.  (Destroys already
\* suspended catch the cancel in their bare `except:` and return.)
StopTimers ==
    /\ StatsCancel
    /\ phase' = IF ReapUnstarted = {} THEN "done" ELSE "failed"

\* Fault variant of WaitCleans: the waiters are awaited with asyncio.wait
\* (FIRST_COMPLETED) when there are any, so shutdown goes on once one
\* Event is set.
WaitCleansAny ==
    /\ phase = "waiting"
    /\ closing = {} \/ \E k \in closing : bcleans[k] = "set"
    /\ bcleans' = [k \in Kernels |-> IF k \in closing THEN "absent"
                                    ELSE bcleans[k]]
    /\ StopTimers
    /\ UNCHANGED <<tasks, closing>>

\* Every Event awaited is set: the blocking_cleans entries are deleted and
\* shutdown() goes on.
WaitCleans ==
    /\ phase = "waiting"
    /\ \A k \in closing : bcleans[k] = "set"
    /\ bcleans' = [k \in Kernels |-> IF k \in closing THEN "absent"
                                    ELSE bcleans[k]]
    /\ StopTimers
    /\ UNCHANGED <<tasks, closing>>

\* A second SIGINT/SIGTERM while shutdown() runs: handle_signal finds
\* term_ev set and calls sys.exit(1); SystemExit leaves
\* run_until_complete and the loop is closed with whatever shutdown() had
\* not done yet.
ForcedExit ==
    /\ phase \in {"closing", "destroying", "waiting"}
    /\ CanSpend("shutdown")
    /\ Spend("shutdown")
    /\ phase' = "exited"
    /\ UNCHANGED <<registry, free, cstate, evq, restarting, evset, wd, tasks,
                   used, terminated, relay, bcleans, closing, connected,
                   sampler>>

ShutdownStep ==
    /\ \/ (CleanAllKernels \/ GatherDestroys) /\ UNCHANGED sampler
       \/ WaitCleans
    /\ UNCHANGED <<registry, free, cstate, evq, restarting, evset, wd, used,
                   terminated, budget, relay, connected>>

-----------------------------------------------------------------------------
(* fetch_docker_events: docker.events.run() ends with TimeoutError when the *)
(* API connection times out and is started again; the engine's events of   *)
(* the meantime are not replayed.                                          *)

EventsTimeout ==
    /\ connected
    /\ CanSpend("reconnect")
    /\ Spend("reconnect")
    /\ connected' = FALSE

EventsRestart ==
    /\ ~connected
    /\ connected' = TRUE
    /\ UNCHANGED budget

FetchStep ==
    /\ Alive
    /\ EventsTimeout \/ EventsRestart
    /\ UNCHANGED <<registry, free, cstate, evq, restarting, evset, wd, tasks,
                   used, terminated, relay, bcleans, phase, closing,
                   sampler>>

-----------------------------------------------------------------------------
Init ==
    /\ registry = <<>>
    /\ Alloc!Init
    /\ cstate = [c \in Kernels \X Gens |-> "none"]
    /\ evq = <<>>
    /\ restarting = [k \in Kernels |-> 0]
    /\ evset = {}
    /\ wd = {}
    /\ tasks = EmptyBag
    /\ used = {}
    /\ terminated = [k \in Kernels |-> 0]
    /\ budget = [restart |-> 0, destroy |-> 0, crash |-> 0, fail |-> 0,
                exec |-> 0, shutdown |-> 0, reconnect |-> 0, stats |-> 0]
    /\ xout = [x \in Execs |-> "none"]
    /\ cancelled = {}
    /\ phase = "serving"
    /\ bcleans = [k \in Kernels |-> "absent"]
    /\ closing = {}
    /\ connected = TRUE
    /\ sampler = [i \in Ticks |-> [pc |-> "none", snap |-> <<>>, got |-> {}]]

\* Steps of the coroutines of one kernel.  Only clean_kernel touches
\* blocking_cleans, and only the relay's steps touch its state.
TaskStep(t) ==
    /\ \/ /\ \/ DestroyKill(t)
             \/ CreateImage(t)
             \/ CreateWait(t)
             \/ CreateContainer(t)
             \/ CreateStart(t)
             \/ CreatePorts(t)
          /\ UNCHANGED <<relay, bcleans>>
       \/ /\ \/ CleanStart(t)
             \/ CleanDelete(t)
          /\ UNCHANGED relay
       \/ /\ \/ DestroyLookup(t)
             \/ DestroyJoin(t)
             \/ ExecStarted(t)
             \/ ExecResult(t)
             \/ ExecCancelClose(t)
             \/ ExecClose(t)
          /\ UNCHANGED bcleans
    /\ UNCHANGED <<daemon, sampler>>

KernelStep(k) == Alive /\ \E t \in DOMAIN tasks : t.k = k /\ TaskStep(t)

\* One die event read by the monitor coroutine.
MonitorStep == Alive /\ Monitor /\ UNCHANGED <<relay, bcleans, daemon, sampler>>

\* RPC requests are served until server.close(); the idle reaper, the
\* monitor and the containers go on until shutdown() ends.
Next ==
    \/ \E k \in Kernels : KernelStep(k)
    \/ MonitorStep
    \/ /\ Alive
       /\ \/ /\ phase = "serving"
             /\ \/ DestroyKernel
                \/ RestartKernel
                \/ ExecuteCode
                \/ (CreateKernel \/ Reset) /\ UNCHANGED relay
          \/ (CleanOldKernels \/ ContainerDies) /\ UNCHANGED relay
       /\ UNCHANGED <<bcleans, daemon, sampler>>
    \/ /\ Alive
       /\ StatsTick
       /\ UNCHANGED <<registry, free, cstate, evq, restarting, evset, wd,
                      tasks, used, terminated, relay, bcleans, daemon>>
    \/ \E i \in Ticks : StatsStep(i)
    \/ Signal
    \/ ForcedExit
    \/ ShutdownStep
    \/ FetchStep

\* The event loop resumes every coroutine whose await has completed, the
\* monitor coroutine reads every event, and shutdown() goes on once what
\* it awaits is done; calls, faults and the signal are not fair.
Fairness ==
    /\ \A k \in Kernels : WF_vars(KernelStep(k))
    /\ WF_vars(MonitorStep)
    /\ \A i \in Ticks : WF_vars(StatsStep(i))
    /\ WF_vars(ShutdownStep)
    /\ WF_vars(FetchStep /\ ~connected)

Spec == Init /\ [][Next]_vars /\ Fairness

-----------------------------------------------------------------------------
TaskRec == [op : Ops, k : Kernels, pc : Pcs, cid : {0} \cup Gens,
            cores : SUBSET Cores, ev : 0 .. MaxRestarts, x : {0} \cup Execs,
            st : Statuses, grp : {0, 1}]

TypeOK ==
    /\ DOMAIN registry \subseteq used
    /\ \A k \in DOMAIN registry :
          registry[k] \in [cid : Gens, cores : SUBSET Cores,
                           runner : BOOLEAN, rtask : {0} \cup Execs]
    /\ free \subseteq Cores
    /\ cstate \in [Kernels \X Gens -> CStates]
    /\ evq \in Seq(used)
    /\ restarting \in [Kernels -> 0 .. MaxRestarts]
    /\ evset \subseteq 1 .. MaxRestarts
    /\ wd \subseteq used
    /\ IsABag(tasks) /\ BagToSet(tasks) \subseteq TaskRec
    /\ used \subseteq Kernels
    /\ terminated \in [Kernels -> Nat]
    /\ xout \in [Execs -> Outcomes]
    /\ cancelled \subseteq Execs
    /\ phase \in Phases
    /\ bcleans \in [Kernels -> {"absent", "unset", "set"}]
    /\ closing \subseteq Kernels
    /\ connected \in BOOLEAN
    /\ \A i \in Ticks :
          /\ sampler[i].pc \in SamplerPcs
          /\ \E D \in SUBSET Kernels : sampler[i].snap \in [D -> Gens]
          /\ sampler[i].got \subseteq DOMAIN sampler[i].snap

\* Cores held by a kernel: in its record, or taken by a _create_kernel that
\* has not stored the record yet.
HeldCores == UNION {registry[k].cores : k \in DOMAIN registry}
                \cup UNION {t.cores : t \in DOMAIN tasks}

(* No core is granted to two live kernels, and no core of a live kernel is *)
(* back in container_cpu_map's free pool (_create_kernel's alloc, the 404  *)
(* branch of _destroy_kernel and clean_kernel's free must agree).          *)
CoresDisjoint ==
    /\ \A j, k \in DOMAIN registry :
          j # k => registry[j].cores \cap registry[k].cores = {}
    /\ \A k \in DOMAIN registry : registry[k].cores \cap free = {}

(* Every core is free or held by a kernel: a _create_kernel that fails     *)
(* after container_cpu_map.alloc must give its cores back.                 *)
NoCoreLeak == Cores = free \cup HeldCores

(* clean_kernel dispatches kernel_terminated at most once per kernel, and  *)
(* once it has, the kernel never has a registry record again.             *)
TerminatedIsFinal ==
    \A k \in Kernels :
        /\ terminated[k] <= 1
        /\ terminated[k] = 1 => k \notin DOMAIN registry

(* A registered kernel whose container has died is eventually cleaned up   *)
(* (monitor -> clean_kernel) or given a new container by a restart.        *)
DeadKernelCleaned ==
    \A k \in Kernels, g \in Gens :
        (k \in DOMAIN registry /\ registry[k].cid = g /\ cstate[<<k, g>>] = "dead")
            ~> (k \notin DOMAIN registry \/ registry[k].cid # g)

(* The runner_task a record names is an execute_code still waiting on its  *)
(* result or closing its runner after a cancel: _destroy_kernel cancels    *)
(* and awaits a live call, never one that has already returned.            *)
RunnerTaskLive ==
    \A k \in DOMAIN registry :
        registry[k].rtask # 0 =>
            \E e \in DOMAIN tasks : /\ e.op = "exec" /\ e.k = k
                                   /\ e.x = registry[k].rtask
                                   /\ e.pc \in {"result", "cclose"}

(* A cancelled execute_code leaves its kernel without a runner and without *)
(* a runner_task (the specification's cancellation property), so the next *)
(* execute_code starts a new relay.                                        *)
CancelLeavesNoRunner ==
    [][\A t \in DOMAIN tasks :
          (t.op = "exec" /\ t.pc = "cclose" /\ xout'[t.x] # "running"
           /\ t.k \in DOMAIN registry')
             => ~registry'[t.k].runner /\ registry'[t.k].rtask = 0]_vars

(* An execute_code whose result is exec-timeout schedules _destroy_kernel  *)
(* of its kernel (reason exec-timeout) when the kernel is still registered.*)
ExecTimeoutDestroys ==
    [][\A t \in DOMAIN tasks :
          (t.op = "exec" /\ t.st = "exec-timeout" /\ t.pc = "close"
           /\ xout'[t.x] # "running" /\ t.k \in DOMAIN registry')
             => \E d \in DOMAIN tasks' \ DOMAIN tasks :
                   d.op = "destroy" /\ d.k = t.k]_vars

-----------------------------------------------------------------------------
(* The refinement mapping to KernelLifecycle: a kernel is live while it    *)
(* has a record, creating while a _create_kernel of it runs, failed when  *)
(* that ended without a record, cleaned once kernel_terminated was sent.  *)
(* Its cores are those of its record, or those its _create_kernel holds.  *)

Creating(k) == \E t \in DOMAIN tasks : t.op = "create" /\ t.k = k

LifeOf(k) ==
    CASE terminated[k] > 0       -> "cleaned"
      [] k \in DOMAIN registry   -> "live"
      [] Creating(k)             -> "creating"
      [] k \in used              -> "failed"
      [] OTHER                   -> "new"

HeldOf(k) ==
    IF k \in DOMAIN registry
    THEN registry[k].cores
    ELSE UNION {t.cores : t \in {u \in DOMAIN tasks : u.op = "create" /\ u.k = k}}

Life == INSTANCE KernelLifecycle
            WITH life <- [k \in Kernels |-> LifeOf(k)],
                 held <- [k \in Kernels |-> HeldOf(k)],
                 pool <- free

(* The agent implements KernelLifecycle: every step of its coroutines,     *)
(* interleaved at their awaits, is one of the atomic steps above or leaves *)
(* them unchanged.  So _create_kernel takes non-empty free cores once and  *)
(* stores them or returns them, a live kernel keeps its cores, a destroy   *)
(* or exec never frees them early, and clean_kernel alone returns them.    *)
LifecycleRefined == Life!Spec

(* shutdown() ends once it has begun: clean_all_kernels(blocking=True)     *)
(* gets every blocking_cleans Event it awaits set by clean_kernel, or one  *)
(* of its destroys raises (as may the cancel of cleanup_timer after it),  *)
(* or a second signal forces the exit.                                    *)
ShutdownCompletes == phase = "closing" ~> ~Alive

(* When shutdown() has run to its end, every kernel clean_all_kernels took *)
(* from the registry is gone: its record deleted, kernel_terminated sent   *)
(* once, its work directory removed and none of its containers running.   *)
(* The blocking_cleans wait is what makes shutdown() wait for clean_kernel *)
(* of each of them, which the monitor starts on its die event.            *)
ShutdownCleansSnapshot ==
    phase = "done" =>
        \A k \in closing :
            /\ k \notin DOMAIN registry
            /\ terminated[k] = 1
            /\ k \notin wd
            /\ \A g \in Gens : cstate[<<k, g>>] # "running"

=============================================================================
