# TLA+ models of the Sorna / Backend.AI agent

This directory holds the TLA+ model of the agent daemon in
`src/sorna/agent/server.py`. The agent is one asyncio process. It creates,
restarts, destroys and cleans up Docker containers ("kernels") when the
manager asks over RPC. It hands each kernel a set of CPU cores from a
NUMA-aware allocator. It also reacts to the Docker event stream.

## 1. The system's parts and how they interact

| Part | Code | State it owns |
|---|---|---|
| RPC facade | `AgentRPCServer.create_kernel`, `destroy_kernel`, `restart_kernel`, `execute_code`, `reset` (server.py 170-219) | none: it starts coroutines |
| Kernel lifecycle | `_create_kernel` (221-330), `_destroy_kernel` (332-362), `clean_kernel` (547-583) | `container_registry`, `restarting_kernels`, `blocking_cleans`, work directories |
| CPU allocator | `CPUAllocMap` (resources module, not in this repository) | free cores per NUMA node |
| Docker engine | aiodocker calls | containers: created / running / dead / deleted; the event stream |
| Event monitor | `fetch_docker_events`, `monitor` (506-545) | none: it schedules `clean_kernel` on a `die` event |
| Periodic tasks | `stats_timer`, `heartbeat`, `update_stats`, `clean_old_kernels` (84-121, 446-504, 585-599) | none: they read the registry, dispatch upstream, and reap idle kernels |
| Execution relay | `execute_code`, `_execute_code`, `match_result` (123-147, 198-206, 364-444) | per-kernel `runner` and `runner_task` |
| Shutdown | `clean_all_kernels`, `shutdown` (601-857) | waits on `blocking_cleans` |
| Utilities | `src/src/ai/backend/agent/utils.py` | pure parsers, the host-to-container pid translation, and host I/O helpers |

These parts interact through shared state on one event loop.
- A coroutine runs without interruption only between two `await`s.
- `_create_kernel`, `_destroy_kernel` and `clean_kernel` of the same kernel
  interleave at every Docker call.
- A restart is a `_destroy_kernel` followed by a `_create_kernel`. The two are
  linked by an `asyncio.Event` in `restarting_kernels`.
- `clean_kernel`, scheduled by the monitor when a container dies, sets that
  Event instead of cleaning up.
- The create half waits up to 10 s for the Event.

## 2. Modules

- **`CpuAllocMap.tla`** models the allocator.
  - `Alloc(n, grant)` takes the lowest `n` free cores of a NUMA node with the
    most free cores. Ties are nondeterministic.
  - `Free(s)` returns cores to the pool.
  - `NumCores` is the clamp `min(num_cores, requested_cores)` of server.py
    256-257.
  - The allocator's code is not in this repository, so its operators are
    modelled from the specification and marked `spec_modelled` in
    `PROJECT.json`.
- **`KernelLifecycle.tla`** is the abstract specification of what the
  agent promises about a kernel and its cores. Each step is atomic:
  - `Begin`: an id is handed out.
  - `Grant`: the creation takes a non-empty set of free cores, once.
  - `Register`: the record is stored.
  - `Abort`: the creation fails and returns what it took.
  - `Terminate`: clean_kernel returns the cores of a live kernel and
    reports it, once.

  Restarts, destroys not yet cleaned up and execute_code calls are
  stuttering steps of it.
- **`Agent.tla`** models the whole server. Every action is one coroutine
  segment between two awaits; a suspended coroutine is a record in the bag
  `tasks`, and its `pc` names the await it sits at.

  State:

  | Variable | Code it stands for |
  |---|---|
  | `registry` | container_registry: id -> container generation, cores, `runner`, `rtask` (the runner_task) |
  | `free` | the free cores of the allocator (`INSTANCE CpuAllocMap`) |
  | `cstate` | Docker: the state of container `<<id, generation>>` |
  | `evq` | the pending `die` events, in order |
  | `connected` | whether `docker.events.run()` is streaming |
  | `restarting`, `evset` | restarting_kernels (id -> Event id) and the Events that are set |
  | `bcleans` | blocking_cleans |
  | `xout`, `cancelled` | the outcome of each execute_code task, and the `cancel()`s not yet delivered |
  | `phase`, `closing` | the steps of `shutdown()`, and the ids `clean_all_kernels` took |
  | `sampler` | each update_stats coroutine: where it is, the ids and container ids it read before `collect_stats`, the samples that came back |
  | `wd`, `used`, `terminated`, `budget` | work directories, ids handed out, `kernel_terminated` dispatches, bounded calls and faults |

  Actions, grouped by coroutine:

  | Coroutine | Actions |
  |---|---|
  | `_create_kernel` | `CreateImage`: images.get, then the restart branch, or else makedirs and alloc. `CreateWait`: the 10 s Event wait and its timeout. `CreateContainer`: the volumes, nvidia and create calls, including 409. `CreateStart`. `CreatePorts`: the port lookups, the insert, and clearing restarting_kernels. |
  | `_destroy_kernel` | `DestroyLookup`/`KillOrJoin`: the record lookup, and cancelling the runner_task. `DestroyJoin`: `await runner_task`, which re-raises. `DestroyKill`: kill, with answers 500 and 404. |
  | `clean_kernel` | `CleanStart`, `CleanDelete` and `CleanFinish` (sets the restart Event or the blocking_cleans Event) |
  | `_execute_code` | `ExecuteCode`, `ExecStarted`, `ExecResult`, `ExecCancelClose` and `ExecClose` (the exec-timeout branch raises at the `container_resgistry` typo) |
  | `monitor`, `fetch_docker_events` | `Monitor`, `EventsTimeout` and `EventsRestart`. Die events are emitted while disconnected are lost. |
  | `stats_timer`, `update_stats` | `StatsTick`: the snapshot of ids and container ids. `StatsSample`: one container sampled during `collect_stats`. `StatsResume`: vanished kernels and None samples are dropped, and `instance_stats` is dispatched. `StatsCancel`: at shutdown, the last update_stats is cancelled. |
  | `main()`, `shutdown()` | `Signal`: the first SIGINT/SIGTERM, then server.close. `ForcedExit`: a second signal during shutdown, which calls sys.exit(1). `CleanAllKernels`, `GatherDestroys` and `WaitCleans`. `StopTimers`: the timers and the monitor are cancelled, and the loop is closed. It fails when `cleanup_timer`'s last reap still has a destroy that has not run (`ReapUnstarted`). |
  | RPC and timers | `CreateKernel`, `DestroyKernel`, `RestartKernel`, `Reset` and `CleanOldKernels`. Any non-empty set of kernels may be the idle ones. The destroys of the last `CleanOldKernels` that have not run yet carry `grp = 1`. |
  | environment | `ContainerDies`, and the fail branch of each Docker call |

  The refinement mapping at the end of the module maps each kernel to
  `KernelLifecycle`:
  - `cleaned` once `kernel_terminated` was sent;
  - `live` while it has a record;
  - `creating` while a `_create_kernel` of it runs;
  - `failed` when that ended without a record.

  Its cores are those of its record, or those its `_create_kernel`
  holds, and the pool is `free`. `LifecycleRefined` is
  `KernelLifecycle`'s `Spec` under this mapping.
- **`MatchResult.tla`** models `match_result` and the `execute_code`
  reply (server.py 123-147, 198-206) as operators.
  - Strings are sequences of characters.
  - Regular expressions are drawn from literals, `.` and the anchor `^`.
    `re.search` is a recursive matcher over them.
  - `ReplyReference` states the specification's match semantics
    declaratively.
- **`ServicePorts.tla`** models `parse_service_ports` (utils.py 72-107).
  - It is a set of RECURSIVE operators over an abstract label: a sequence
    of the entries the regex matches, then possibly an unmatched rest.
  - `ParseReference` is a reference definition stated over the whole input.
- **`ContainerPid.tla`** models `host_pid_to_container_pid` (utils.py
  202-318) as operators over an abstract host.
  - The host is a sequence of processes in host pid order. Each has its
    container (or none), its pid in that container and its command.
  - The function reads three views of the host:
    - `TopRows`: docker top, host pids in host pid order;
    - `PsRows`: ps -aux in the container, container pids in container pid
      order;
    - the cgroup directories, walked by `CgroupScan`, with `NSpid`.
  - `KernelBefore41` compares the version as the code does, as a tuple of
    digit strings.
  - `OldPath` is the docker top / ps -aux path. It returns the pid as the
    text read from ps (`Str`).
  - `TruePid` is the reference.
- **`MCAgent.tla`** and **`MCPure.tla`** are the TLC instances. `MCPure`
  has one variable, the input. Its initial states are all inputs of the
  three pure functions, one disjunct of `Init` per function.

## 3. Runs and what they show

The Agent runs use cores {0,1,2,3} on 2 NUMA nodes and 2 cores per kernel,
so that two kernels can share or exhaust a node. They use one or two
kernel ids. The bounds are the constants `Max*`: restarts, destroys
(including reset and idle reaps), self-crashes, failing Docker calls,
execute_code calls, shutdowns and event-stream breaks. A step that would
exceed a bound is disabled.

| Run | Checks | Expect | Shows |
|---|---|---|---|
| terminated_final | TypeOK, TerminatedIsFinal | pass | With one restart, two destroys, a crash, a failure and an event-stream break: `kernel_terminated` is sent at most once, and a terminated kernel is never registered again. |
| cleanup | LifecycleRefined | pass | The run has no restarts, self-crashes, engine failures or stream breaks, and has two destroys and one update_stats. Under these bounds the agent implements `KernelLifecycle`: cores granted once and non-empty, kept while live, returned by `clean_kernel` alone, `kernel_terminated` sent once. |
| relay | RunnerTaskLive | pass | With two calls, two destroys, a restart and a crash on one kernel, the runner_task recorded for the kernel is always a call that is still running. |
| shutdown | ShutdownCompletes, ShutdownCleansSnapshot | pass | The run has no self-crashes or restarts, and has up to two signals. `shutdown()` always ends: all blocking_cleans are set, a destroy raises, the cancel of `cleanup_timer` raises, or a second signal forces the exit. When it runs to its end, every kernel `clean_all_kernels` took has been cleaned: no record, `kernel_terminated` sent once, no work directory and no running container. |
| pure_algorithms | ParseMatchesReference, ReplyMatchesReference, PidMatchesReference | pass | `parse_service_ports` equals its reference on 120,100 labels. The `execute_code` reply with `match_result` equals the specification's match semantics on 28,720 reply and match pairs. `host_pid_to_container_pid` gives the true answer on 48,456 (version, host, pid) inputs. The hosts have up to three processes in c1, c2 or no container. The versions are 3.10, 4.0, 4.1, 4.10, 5.4 and an unreadable one. The pre-4.1 path is checked where container pids follow host pids. |
| double_grant | CoresDisjoint | violation | A 404 destroy during a restart frees the cores, and the restart re-registers with them (354-357, 309). |
| core_leak | NoCoreLeak | violation | A Docker error after `alloc` leaks the cores (258-306). |
| double_restart | TerminatedIsFinal | violation | With two restarts, one's timeout deletes the other's Event; the kernel is reported terminated, then revived (251). |
| double_cancel | CancelLeavesNoRunner | violation | A second destroy re-cancels the call that is closing its runner. The runner stays, and both destroys raise before kill (400, 341). |
| exec_timeout | ExecTimeoutDestroys | violation | The `container_resgistry` typo means exec-timeout never schedules a destroy (429). |
| shutdown_hang | ShutdownCompletes | violation | A container that dies before its record is stored has its die event handled while there is no record (309). The record is never cleaned, and at shutdown its blocking_cleans Event is never set, so shutdown waits forever (613). |
| event_loss | DeadKernelCleaned | violation | A die emitted while `docker.events.run()` restarts is never seen (513). |

`PROJECT.json` records the findings, the hazards at their source lines,
and one mutant per property of each passing run: a plausible fault in the
mapped code that the run must catch.

### Bounds

The violation runs use the smallest bounds that reach each fault. The
passing runs use the largest bounds that finish in under a minute. For
example, with 2 destroys a reset, an idle reap and a user destroy can
meet a restart. The relay run has 2 destroys and 2 calls, so a call can be
cancelled twice.

### Fairness

- asyncio resumes every coroutine whose awaited call has completed, so each
  kernel's coroutine steps are weakly fair (`WF` per kernel).
- The runner enforces the exec timeout, so `get_next_result` returns.
- Each update_stats resumes when `collect_stats` returns (`WF` per
  coroutine).
- The monitor reads every queued event, and `fetch_docker_events` restarts
  the stream at once (`continue`).
- `shutdown()` proceeds once what it awaits is done.
- The restart wait ends at the latest with its 10 s timeout, so a
  restart's `CreateWait` is enabled until it is taken.
- RPC calls, crashes, failures, stream timeouts and the signals come from
  outside and are not fair.
- When `shutdown()` ends or fails, the loop is closed and nothing more
  happens.
- `CHECK_DEADLOCK FALSE` is set in the Agent runs because an idle agent
  with spent budgets legitimately stops.

Why the refinement is checked only under the cleanup bounds: with a
restart, an engine failure or a self-crash, the agent does not implement
`KernelLifecycle`. Those are exactly the faults that the violation runs
`double_grant`, `core_leak` and `shutdown_hang` show.

Properties that followed from the fairness alone (every call, restart
or update_stats eventually ends) or that restated one guard (a restart
reuses the record's cores, a dead kernel is cleaned when no event is
lost) are not checked: no fault in the code could break them without
breaking a property that is checked.

Abstractions of single steps worth knowing when reading a trace:

- `DestroyKill` merges the `collect_stats` await (346) and the `kill`
  await (348) into one step. In the code, `clean_kernel` can remove the
  record during the kill await; the 404 branch then reads
  `container_registry[kernel_id]` (356) and raises `KeyError`, which the
  bare `except` at 361 does not cover because it is raised inside the
  handler. The model takes the 404 branch only as a lookup that succeeds.
  The branch for other Docker errors (359-360) is left out.
- `StatsSample` assumes `collect_stats` returns for every container; a
  raise there would end that update_stats, which the model does not
  represent.

Further issues met while modelling are recorded as hazards or here, not
as runs (at most 12 runs are kept):
- `restart_kernel` of an unregistered id leaks its Event (188-190), after
  which `clean_kernel` never cleans that kernel (562-563). With one
  restart, the shutdown bounds find the consequence: a restart of a kernel
  whose record is not yet stored leaves the Event. The kernel is then
  registered, and at shutdown its `clean_kernel` only sets that Event.
  blocking_cleans is never set, and `shutdown()` hangs. The shutdown run
  has no restarts for this reason.
- A Docker error in the `_create_kernel` of a restart (images.get, create
  or start) also raises past `del restarting_kernels[kernel_id]` (194).
  The killed container's record stays registered with its Event. The
  dead kernel is never cleaned, and shutdown hangs on it.
- Both Event leaks were confirmed with TLC under the shutdown_hang bounds,
  each with its fault in place of the crash. The 194 check restricted
  restarts to registered kernels, to exclude the 188 path. In both runs
  `ShutdownCompletes` is violated. The shutdown_hang run keeps the crash
  bounds and reports the shorter 309/613 trace.
- `shutdown()` can raise while it cancels the timers (113-121, 595-598,
  827-830). `cleanup_timer` cancels its last `clean_old_kernels` and
  awaits it. That task gathers `_destroy_kernel` tasks.
  - A destroy already suspended in `collect_stats` or `kill` catches the
    cancel in its bare `except:` and returns.
  - A destroy that has not run yet ends with CancelledError. The gather
    then raises, and so does `await timer_task` in `shutdown()`.
  - The monitor is then not stopped, and `instance_terminated` is not
    dispatched.
  - With the gather of Python 3.8 and later, any destroy still in flight
    has the same effect.

  `StopTimers` ends in phase `failed` when `ReapUnstarted` is not empty.
  A temporary check of the invariant `phase # "failed"` found a trace:
  - it used the shutdown bounds without executions;
  - a kernel whose `create_kernel` was still running when
    `clean_all_kernels` took its snapshot is reaped after that snapshot;
  - the reap is cancelled before its destroy runs.

  `ShutdownCompletes` asks only that the loop ends, and it does.
- `create_kernel` passes a language that is not in `lang_aliases` to
  `_create_kernel` unchanged (172-173). Specification 4.3 rejects it
  with *UnsupportedLang*; the code only fails when `images.get` finds
  no image. Languages are not modelled, so no run checks this.
- A `create_kernel` still running at shutdown registers its kernel after
  `clean_all_kernels` took its snapshot (603). With `MaxShutdowns = 1`
  the cleanup bounds show this: shutdown ends with both kernels
  registered, and with one container dead and never cleaned.
- `_execute_code` always replies with `'exceptions': []` (437). A match on
  target `exception` is therefore always false, whatever the code raised.
  Specification 4.4 compares the last recorded exception. `MCPure` only
  enumerates replies the code can build, so the check shows this branch
  returning false.
- A kernel restarted while update_stats awaits `collect_stats` is
  reported with the sample of its old container (484).
- `host_pid_to_container_pid` on kernels before 4.1:
  - It pairs the i-th same-command row of docker top with the i-th of
    ps -aux (283-289). After host pids wrap around, the orders differ. Without
    the `SameOrder` precondition, TLC finds a counterexample: two `py`
    processes with host pids 11 and 22 and container pids 2 and 1. The
    code maps 11 to 1.
  - The two tables are taken by separate awaited calls (240, 247-270), so
    a process starting or exiting between them also shifts the index.
  - The pid is returned as the str read from ps (289-291). The cgroup
    path returns an int.
  - A process in another container gives `NotContainerPID`, not
    `InOtherContainerPID`.

### Assumptions

The manager sends at most one `execute_code` per kernel at a time, as the
specification requires (section 5). Two concurrent calls on one kernel are
therefore not explored; `PROJECT.json` lists them as a hazard.

## 4. Not modelled, and why

- `heartbeat` only reads the registry's ids and dispatches them; it
  changes no state. The payloads of `instance_stats` are left out.
- The cancel of update_stats at shutdown is modelled but not exercised.
  With a stats coroutine, the shutdown run takes more than five minutes.
- `last_used`, `num_queries` and `last_stat` are left out. Time is abstracted
  by letting the idle reaper pick any set of kernels.
- The file upload is left out, as is the string handling of
  `get_kernel_id_from_container`, `update_nested_dict` and `read_sysfs`.
  None of them changes the agent's state.
  Reading `update_nested_dict` (46-58) shows two behaviours that unit tests
  reach directly, so no model is kept for them:
  - a str value already in `dest` is a `Sequence`, so `.extend` raises
    AttributeError;
  - an assertion failure leaves `dest` with the keys before it already
    merged.
- `heartbeat` and `heartbeat_timer`, `ping`, `AgentRPCServer.init` and
  `shutdown` change no state.
- In `host_pid_to_container_pid`, the following are left out:
  - a missing `/sys/fs/cgroup/pids/docker` (cgroup v2), which makes the
    cgroup path always return `NotContainerPID`;
  - the `ps -aux` process itself;
  - the column layout of the two tables.

  The cgroup directories are walked in the order c1, c2. A host pid is in
  at most one directory, so the order does not change the result.
- `get_subnet_ip`, `fetch_local_ipaddrs`, libnuma discovery, CLI, logging
  and manager connection are host or network I/O.
- Volumes, nvidia devices and image labels are abstracted to Docker calls
  that may raise.
