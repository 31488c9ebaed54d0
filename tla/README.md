# TLA+ models of Spindle

Spindle loads shared libraries and executables for large parallel jobs. It
reads each file once from the shared file system and spreads it over an overlay
network of per-node daemons, instead of letting every process hit the file
system. This directory holds TLA+ models of the parts of Spindle whose
correctness depends on interleavings, message order or boundary cases, together
with the TLC configurations that check them.

## The system's parts and how they interact

- **Bootstrapper** (`src/src/client/beboot/spindle_bootstrap.c`). It runs once
  per application process. It checks `SPINDLE`, instantiates the cache, fifo
  and daemon directories, and (when it is given daemon arguments) launches the
  node's daemon. For the launch it creates `spindle_daemon_pid` with `O_EXCL`
  and double forks. It then connects to the daemon and execs the application
  through the audit client.
- **Intercept client** (`src/src/client/client/intercept*.c`). It runs inside
  the application. It keeps a hash table of intercepted symbol names
  (`init_bindings_hash`, `lookup_in_binding_hash`) and propagates Spindle into
  exec'd processes.
- **Daemons and the msocket overlay**
  (`src/src/server/auditserver/ldcs_audit_server_md_msocket.c`). Daemons form a
  tree. A message is either point-to-point (P2P) or a broadcast (BCAST).
  - `_ldcs_audit_server_md_msocket_connection_CB` decides whether to route and
    whether to process each message it reads. It routes first, then processes.
  - `ldcs_audit_server_md_distribute` starts a broadcast.
  - The topology bootstrap: `md_init` opens the daemon's server socket (or
    takes rank, size and host list from an external fabric), `server_CB`
    accepts connections, and the front end (FE) sends rank 0 its HOSTINFO,
    HOSTLIST and BOOTSTRAP. Each daemon then connects to its children and
    sends them the same three messages, and the FE's BOOTSTRAP_END broadcast
    ends the bootstrap loop; rank 0 answers it with BOOTSTRAP_END_OK.
  - The message switch handles the bootstrap messages, `FILE_DATA` and `END`.
    Nothing under `src/` sends `FILE_DATA` or `END`: the only `END`
    broadcast is in `md_destroy` under `#if 0`.
  - NUMA replication (`ldcs_audit_server_numa.c`): `numa_should_replicate`
    decides, from the colon-separated include and exclude lists, whether a
    file the daemon reads is copied into every NUMA domain.
- **Cache layer** (spec.md 4.4–4.5). The client lookup, the fetch request
  and its answer are not under `src/`, and the switch as written could not
  serve them (see Not modelled).
- **Exec interception** (`src/src/client/client/intercept_exec.c`). The exec
  wrappers decide whether Spindle follows into the new image
  (`shouldPropogateSpindle`). They strip or copy Spindle's variables
  (`updateEnvironment`) and resolve the file that is really exec'd
  (`find_exec`, `prep_exec`).
- **Configuration** (`src/src/fe/startup/config_mgr.cc`, `config_parser.cc`).
  `gatherAllConfigInfo` layers:
  - the option defaults;
  - the system `spindle.conf`;
  - the user's `spindle.conf`;
  - the command line.

  `toSpindleArgs` turns the merged map into the `opts` bits of
  `spindle_args_t`.
- **Flux shell plugin and front end** (`src/src/flux/flux-spindle.c`,
  `src/src/fe/startup/spindle_fe.cc`). Each shell rank runs one copy of the
  plugin:
  - `sp_init` fills the arguments from the configuration, then applies the
    job's `spindle` option (`sp_getopts`);
  - rank 0 publishes the port in the `shell.init` event;
  - every rank watches the eventlog for that event, then forks its backend;
  - rank 0 also starts the front end (`spindleInitFE`), which blocks its
    shell until the backends connect;
  - `sp_task` prefixes each task's command line with the bootstrapper;
  - `sp_exit` closes the front end.
- **Host binary launcher** (`src/src/fe/hostbin/launch_hostbin.cc`). It is a
  front-end launcher for jobs whose host list comes from a program:
  - `getProcessTable` runs that program once with `popen`, reads the names it
    prints, and keeps the table;
  - `spawnJob` forks the job launcher;
  - `getReturnCodes` takes over the pid of the RSH launcher that
    `spindleInitFE` started. `spindleCloseFE` collects that launcher
    otherwise.

## Modules

| Module | Models | State ↔ code |
|---|---|---|
| `Delivery` | Abstract promise of the overlay: every sent message is delivered once to each of its recipients (`dest` for P2P, everyone but the source for BCAST). | `sentA`, `deliveredA` |
| `TreeRouter` | The msocket routing layer. | `chan[<<a,b>>]`: the in-order socket stream of each tree link. `sendLog`: the messages handed to the overlay. `procLog[n]`: the ids rank n processed, in order. |
| `DaemonLaunch` | `main` and `launch_daemon` of the bootstrapper, for several bootstrappers on one node. | `pc`, `childPc` and `gchildPc` are the program counters of each bootstrapper and its two forked children. `pidfile` and `pidContent` model `spindle_daemon_pid`. `daemon[p]` is the daemon spawned by `p`: none, running, or failed (its fork, the grandchild's fork or its exec failed). `launch` is the node's launch line, a sequence of tokens (text and `atoi` value). `parse_cmdline` is a group of operators over it that give the daemon arguments, the options (`relocAout`, the `OPT_RELOCAOUT` bit) and `cmdline`. |
| `LaunchArgs` | `getApplicationArgsFE`, which builds the bootstrapper's launch line on the front end, and `sp_task`, which puts that line in front of each Flux task's command. | No state. These are operators that build token sequences. |
| `ExecEnv` | The exec wrappers of `intercept_exec.c` for one application process. | `env` is the process environment (a function to values or `Unset`). `loaded` says whether the audit client is in the image. `launch` is the environment the bootstrapper exported. `last` records the last exec call and its result. |
| `ConfigMerge` | Pure operators for the configuration layer: the options table, `strToBool/Long/Enum`, `ConfigMap::set` and `mergeOnto`, `ConfigFile::parse` (continuation lines included), `gatherAllConfigInfo`, `toSpindleArgs` and `fillInSpindleArgsCmdlineFE`. | A ConfigMap is a function from option ids to a value or `Unset`. A file line is a record (comment, blank, no `=`, or name/value with a continuation flag). |
| `FluxPlugin` | The Flux plugin on each shell rank, together with the shell's barrier, the eventlog and the front end. | `phase[r]`, `ctx[r]` (the registered context or `NoCtx`), `cursor[r]` (the eventlog watch), `backend[r]`, `task[r]`, `prefixed[r]`, `eventlog`, `eventCtx` (the `spindle_port` context of `shell.init`) and `fe`. The inputs `sysConf`, `userConf` and `jobOpt` are chosen in `Init`. |
| `Bootstrap` | `md_init`, `server_CB`, the HOSTINFO, HOSTLIST, BOOTSTRAP and BOOTSTRAP_END cases of the message switch, and the FE's side of the exchange, for `N` daemons on a fixed tree. Routing reuses `TreeRouter`'s tree by `INSTANCE`. | `phase[d]` (unstarted, listening, done, error), `rank`, `size`, `hostlist` of each daemon, `conn[d][p]` (state, remote rank and type TOPO/CONTROL of the connection from `d` to `p`), `pending[d]` (connections not yet accepted), `chan` (the socket streams), `fe`, and `fabric` (whether an external fabric numbers the daemons). |
| `Numa` | `numa_should_replicate`, `check_numa_excludes`, `pattern_match` and the `FOREACH_ENTRY` walk, as operators over character sequences, beside a reference read from the options' description (includes are substrings, excludes are prefixes). | `initialized` is `initialize_numa_lib`'s static (0, then 1 or -1 for good); `InitializeNumaLib` is its first call. |
| `Hostbin` | `getProcessTable` (the popen, the `fscanf("%255s")` loop and the cached table), `spawnDaemon`, `spawnJob`, `getReturnCodes`, and the RSH part of `spindleCloseFE`. | `host_array` (the cached table, or the model value `NULL`) and `hostOut` (what the popen that filled it printed). `ret` is the last return value. `useRSH` is `OPT_RSHLAUNCH`. `spawned` and `launcher` are the results of the spawns, and `fe` becomes `exited` after a failed fork. `daemon_pid` is ForkLauncher's, and `rshPid` is the front end's record of its RSH launcher. |
| `BindingHash` | `hash_func`, `init_bindings_hash` and `lookup_in_binding_hash` over names written as byte sequences. | `bindings`, `table`, the loop index `cur`, the probe position `pos`, and `phase`. |

In `TreeRouter`, the actions correspond to the code as follows:

- `Distribute` is `ldcs_audit_server_md_distribute`. It stamps BCAST,
  `dest = -1` and `from = self`.
- `SendP2P` is a P2P send of the layer above (spec.md 4.3).
- `ConnectionCB(a, b)` reads the head of one stream. It routes if
  `DoRoute`, then processes if `DoProcess` (lines 340–370).
- `Route` is `route_msg` as spec.md 4.3 describes it:
  - a BCAST goes to every tree neighbour but `from`;
  - a P2P message goes to the next hop on the tree path.

  `from` is rewritten at each hop.
- `Abs == INSTANCE Delivery` maps `sendLog` to the sent set and `procLog` to
  the delivered sets. `DeliveryRefined` checks `Delivery!SpecA` as a temporal
  property.

In `DaemonLaunch`, `Fork(p)` and `ChildFork(p)` each have a failure branch
as well as the success branch. A failed `fork()` in the bootstrapper takes
neither branch of the code and returns. A failed fork in the child returns
-1, which is `!= 0`, so the child writes its pid and exits. Either way the
pid file exists and no daemon runs. `Connect(p)` is `establish_connection`:
`client_open_connection` is not under `src/`, and nothing it is given tells
it whether a daemon is coming, so it waits until one runs.

In `FluxPlugin`, each action is one callback of the plugin on rank `r`:

- `SpInit(r)` is `sp_init`. It has three outcomes:
  - there is no `spindle` option, so no context is created;
  - `spindle_ctx_create` fails;
  - `fillInSpindleArgsCmdlineFE` and `sp_getopts` are evaluated from
    `ConfigMerge`, and their result is stored in the context. The context is
    registered before it is filled, so a failure leaves it in place.
- `PostShellInit` is the shell's `shell.init` barrier.
- `WaitForShellInit(r)` is `wait_for_shell_init`. On any other event it calls
  `flux_future_reset` (`ResetFuture`).
- `FeConnect` ends the blocking `spindleInitFE`.
- `sp_task(r)` and `TaskExit(r)` cover one task, which is started through the
  bootstrapper when the context is on.
- `sp_exit(r)` is `sp_exit`.

In `Bootstrap`, `MdInit(d)` is `md_init`, `ServerCB(d)` accepts every
pending connection, and `ConnectionCB(d, p)` reads one message and, through
`Dispatch`, routes it (`DoRoute`) and processes it (`DoProcess`, `Process`):
`HostInfo` takes the rank and classifies the connection (lines 399–434),
`HostList` takes the host list, `BootstrapMsg` connects to the children and
sends them their three messages (lines 455–466), and `BootstrapEnd` leaves
the loop. `FeStart` and `FeRecvOk` are the FE's side, which is not under
`src/` and is modelled from spec.md.

Pure computations of one call are operators, evaluated inside the action of
the handler that calls them. Examples are `sp_getopts` and the whole
configuration layer. An intermediate result is passed on as an operator
argument (for example `MergeParsed(g, ConfigFileParse(f))`) rather than bound
by `LET`. The two forms compute the same value, but the argument form keeps
TLC's coverage instrumentation small.

Definitions named `...NoCheck`, `...OffByOne`, `...NoReset` and so on are
mutants: plausible faulty variants of the definition that follows them. No
`Next` uses them.


## Runs

| Run | Module / cfg | Expect | What it shows |
|---|---|---|---|
| `router` | `MCTreeRouter` | pass | See below. |
| `binding_hash` | `MCBindingHash` | pass | Every name of a binding is on an unbroken probe chain. The lookup agrees with a reference search for every name of up to 2 bytes, including the empty name and the names over the length limit. |
| `daemon_launch` | `MCDaemonLaunch` | pass | See below. |
| `daemon_launch_line` | `MCDaemonLaunch_LaunchLine.cfg` | violation | `RunsLaunchedApp` fails for two reasons. First, the tasks get the line that `getApplicationArgsFE` and `sp_task` build, which ends with four fields, while `parse_cmdline` reads seven (line 173). The bootstrapper therefore execs the application's command from its fourth word. TLC shows this trace. Second, `p1` has `SPINDLE=false`, so it execs `cmdline[0]` before `cmdline` is parsed (line 318). |
| `daemon_no_dir` | `MCDaemonLaunch_NoDir.cfg` | violation | The check at line 354 tests `daemon_path`, so it misses a daemon directory that cannot be instantiated. No daemon is started and the bootstrappers never finish. |
| `exec_env` | `MCExecEnv` | pass | See below. |
| `exec_spindle_off` | `MCExecEnv_Off.cfg` | violation | `ExecHonoursSPINDLE` fails, with `SPINDLE` set to `true`, `0` or `false` between calls, for two reasons. First, with `SPINDLE=0` an exec'd image still runs with Spindle, because `shouldPropogateSpindle` compares two literals, `strcmp("spindle", "0")` (intercept_exec.c:69). TLC shows this trace. Second, with `SPINDLE=false`, `execv`/`execvp` unset Spindle's variables in the caller before the exec. If the exec fails, later children that ask for Spindle run without it. |
| `flux` | `MCFluxPlugin` | pass | See below. |
| `bootstrap` | `MCBootstrap` | pass | See below. |
| `hostbin` | `MCHostbin` | pass | See below. |
| `numa_excludes` | `MCNuma` / `MCNuma_Excludes.cfg` | violation | `numa-excludes` is documented as a list of prefixes (config_mgr.cc:217), but `pattern_match` finds an entry anywhere in the name (`strstr`, numa.c:99). For example, the exclude `b` stops the file `ab` from being replicated. |
| `flux_exit_no_ctx` | `MCFluxPlugin_ExitNoCtx.cfg` | violation | In a job without the `spindle` option, `sp_exit` reads `ctx->params.opts` from the NULL context (flux-spindle.c:605), so every such shell crashes at exit. |

What the passing runs check:

- **`router`** routes broadcasts and P2P messages over a 4-node tree (two
  levels), routing before processing at each hop. It checks that messages:
  - are processed once, exactly by their recipients;
  - are in flight only on their tree path;
  - keep per-source order;
  - refine `Delivery`.
- **`daemon_launch`** checks that, with three bootstrappers racing on one node,
  at most one daemon is started. It also checks that every bootstrapper ends
  in each run where no fork or exec of the daemon fails. Runs with such a
  failure are explored, and they can block (see the hazard at
  spindle_bootstrap.c:208). The launch lines
  have the layout `parse_cmdline` reads: with daemon arguments and
  `OPT_RELOCAOUT` or without it, and without daemon arguments. With each of
  them, the application that runs is exactly the command appended to the line.
- **`exec_env`** calls every wrapper on every kind of target, with the
  application changing `SPINDLE` between calls. It checks that:
  - each call returns `exec(2)`'s own outcome;
  - `SPINDLE=false` (in any spelling) keeps Spindle out of the child.
- **`flux`** runs two shell ranks over every combination of system file, user
  file and job option. It checks that:
  - a job whose merged level is `off` runs no Spindle;
  - every task started through the bootstrapper finishes.

- **`bootstrap`** starts four daemons on a two-level tree, with and without
  an external fabric. It checks that:
  - the connections classified TOPO are exactly the tree edges, each with the
    right remote rank;
  - no daemon reaches `_error`, and each one that is done has its own rank,
    the size and the host list;
  - every daemon leaves the bootstrap loop and the FE reads BOOTSTRAP_END_OK.
- **`hostbin`** calls `getProcessTable` any number of times, interleaved with
  `spawnDaemon`, `spawnJob` (including a failed fork or exec), `getReturnCodes`
  and `spindleCloseFE`, with and without RSH launching. It checks that
  every table returned lists exactly the white-space separated words the
  hostbin program printed, in order.

No run states which of push and pull a configuration yields. `case
confSpindleLevel` falls into `case confPushpull` (config_mgr.cc:704), so the
result depends on whether the level is handled before or after `pushpull`.
`config_mgr.h` does not declare `confSpindleLevel`, so the source does not
fix that order.

Each property of a passing run has a mutant in `PROJECT.json`. TLC finds the
property violated when the mutant replaces its definition.

## Bounds

- **`router`:**
  - 4 ranks in a two-level tree, so one path has an intermediate hop.
  - 5 messages: two broadcasts from different sources, two P2P messages
    3→2 (checks order on a path through the root), and one 2→3.

  A broadcast and a P2P message cross on a link in both directions. That is
  the interleaving the route-before-process order has to survive.
- **`daemon_launch`:** 3 bootstrappers, so two of them race the `O_EXCL`
  create while a third arrives after the daemon has started. The application
  command has four words, so the front end's shifted line still stays inside
  `argc` and reaches the exec.
- **`binding_hash`:**
  - table size 8, `MAX_BINDING_STR_SIZE` 2, 4 bindings (the assertion needs
    `count + 2 < size`);
  - names of 0–2 bytes over three letters, so collisions and wrap-around
    probing both occur.

  The hash is computed modulo the table size at every step. This is exact,
  because the table size is a power of two dividing 2^32.
- **`bootstrap`:** 4 daemons, tree 1→0, 2→0, 3→1, so rank 0 has two
  children and one child has its own; `fabric` both ways. BOOTSTRAP_END is
  routed over two hops, and a child may be contacted before or after it has
  started listening.
- **`numa_excludes`:** include and exclude lists of up to 2 characters over `a`, `b`, `:`, `^`, `$`, file names of up to 3
  characters over `a`, `b`, and a buffer of 3. Lists that end in `:` are
  left out, because the code then reads past the terminator (see Not
  modelled).
- **`hostbin`:** every output of up to 5 characters over `a`, `b`, a
  blank and a newline whose names have at most 2 characters, with a field
  width of 2 standing for 255. These include the empty output, leading,
  trailing and repeated white space, and one to three names. The width is
  never reached, as with real host names (see Not modelled). There are 2
  applications, enough for a job spawn to race the other calls.
- **`exec_env`:**
  - 9 targets, one of each kind `find_exec` and `prep_exec` tell apart:
    binary, script, bad interpreter, unreadable, vanished, missing,
    not executable, directory, and a bare name found on `PATH`;
  - `SPINDLE` values `true`, `false` and `FALSE` (and `0` in the violation
    run, together with `false`).
- **`flux`:**
  - 2 shell ranks: rank 0 (front end, event context) and one other rank.
  - 3 system files × 5 user files × 8 job options = 120 initial states. The
    files cover:
    - a comment and a blank line;
    - a `level` after `pushpull`;
    - `level=off`;
    - an unknown name that silently ends the parse;
    - a continued line;
    - `pushpull = Pull`, which `strToEnum` accepts in any case;
    - a line without `=`.

    The job options cover:
    - an absent option, and the integer options 1 (returns early) and 0
      (reaches the strict unpack and fails);
    - `pull`;
    - `level: off`;
    - a valid yes/no key, spelt `Yes`;
    - a misspelt key;
    - an invalid yes/no value.

## Fairness

- **`TreeRouter`:** weak fairness per link. Each daemon's listen loop serves
  every readable fd, so a stream with data is eventually read.
- **`DaemonLaunch`:** weak fairness per process. The kernel schedules every
  runnable process. Fairness does not make a fork or an exec succeed. Those
  outcomes stay nondeterministic, and `EveryBootstrapperEnds` names the
  runs where they succeed.
- **`Bootstrap`:** weak fairness on every action. The launcher starts every
  daemon, each daemon's listen loop serves its server socket and every
  readable fd, and the FE reads its connection.
- **`ExecEnv`** and **`Numa`:** safety only, so no fairness.
- **`Hostbin`:** safety only. The driver that calls the launcher is not
  under `src/`, so no order of calls is assumed.
- **`FluxPlugin`:** weak fairness on every callback of every rank, and on the
  barrier and the front-end connection. The shell's reactor runs every ready
  callback, and the backends of a started job connect.

## Not modelled

`PROJECT.json` lists each part with its reason.

- In `Bootstrap`: hosts that fail to connect, and a fabric that numbers the
  daemons differently from the FE (which sends a daemon to `_error`; the run
  lets the fabric agree). The FE's side (`init`/`run_topo_bootstrap`) is not
  under `src/` and is modelled from spec.md.
- The cache protocol. Under `src/` no message of it has a sender. Its
  `FILE_DATA` case has `store_file` commented out and would free
  uninitialised names (msocket.c:534). A fetch request or a not-found answer
  would fall into `default` and `_error` (msocket.c:574). There is no
  behaviour of the code to check. `PROJECT.json` keeps the two lines as
  hazards.
- In NUMA replication: the libnuma and mmap wrappers, and
  `numa_update_local_filename`. Two defects of `FOREACH_ENTRY` are recorded
  as hazards and not checked, because each would need a violation run of its
  own: a list ending in `:` makes the walk step past the terminator
  (numa.c:65), and an entry of exactly `MAX_PATH_LEN+1` characters is
  terminated one byte past the buffer (numa.c:69).
- glibc link-map and DTV patching (pointer surgery on glibc internals).
- In `launch_hostbin`:
  - `ForkLauncher`, which is not under `src/` (its use of `daemon_pid`,
    including a -1 taken after `spindleCloseFE` cleared the record, is a
    hazard);
  - the daemon arguments (constant strings and number formatting);
  - the choice between the libexec path and the bare name, which only
    decides which program prints the names.

  Names of 255 or more characters, which `%255s` would split, are excluded
  by an `ASSUME`. An unset hostbin path gives an empty table, not NULL; this
  is kept in the model (`Printed`), and no property claims a non-empty table.
- The test programs.
- In `FluxPlugin`:
  - the 300-second timeout of the `shell.init` watch;
  - what `spindleCloseFE` does to backends that are still serving. The model
    keeps them serving (OPT_PERSIST), and `PROJECT.json` records the early
    close as a hazard.
- In `ConfigMerge`:
  - the command-line parser beyond the Flux launcher's fixed argv;
  - the list join of `mergeOnto`, whose result is not stored.

`route_msg`, the FE's side of the bootstrap and the daemon's answers to the
exec wrappers are not in `src/`. They are modelled from spec.md and marked
`spec_modelled` in the map. `client_open_connection` is not in `src/`
either. `Connect` gives it the one behaviour its arguments allow: waiting
for a daemon.
