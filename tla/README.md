# TLA+ models of the socket shadow state and startup of `subtrace run`

## The system

`subtrace run` starts a target program under a seccomp user-notification
filter (`src/unnamed/part_001`, the `run` command). It intercepts the
target's socket syscalls and serves them in `src/cmd/run/socket/socket.go`.
Each target socket is backed by a real kernel socket, plus a **shadow
state** per inode (`Inode.state`, an `atomic.Pointer[ImmutableState]`).
The states are Passive, Connecting, Connected, Listening and Closed.

Every handler (Connect, Bind, Listen, Close) works the same way:

1. Load the state.
2. Do the kernel work.
3. Publish the next state with `CompareAndSwap(prev, next)`.

A handler that loses the CAS returns `ERESTART`, and the kernel re-drives the syscall.

Several aliases (dup'd fds) of one inode can call handlers concurrently,
from different target threads.

Helper sockets:

- **Temp bind sockets** are helper sockets that "park" an address bound by
  `bind(2)`, or hold the source address of a connect. They are owned by a
  Passive or Connecting state.
- **Connect** publishes Connecting. It then starts two goroutines: a dummy
  accept and the external dial. A completion goroutine CASes Connecting to
  Connected, or back to Passive with a latched errno. It then hands the
  errno to a blocking caller and closes the temp socket if nothing owns it.

## Modules

| module | models |
|---|---|
| `ShadowState` | The abstract promise: the published states follow the declared edges, and Closed is final. |
| `Socket` | The detailed model of `socket.go`: Connect, its goroutines, Bind, Listen up to its CAS, Errno (SO_ERROR), getsockname (`BindAddr`), Close. |
| `MC_Socket` | Symmetry over threads and aliases, used by every Socket cfg. |
| `ListenAccept` | The Listening phase: accept loop, dispatch loop and per-connection goroutines, the `backlog` LoadOrStore rendezvous, `Accept`, and the final `Close` of a Listening socket. |
| `MC_ListenAccept` | Symmetry over peers and threads. |
| `GodebugHack` | `ensureAsyncPreemptionHack` (part_001:198-251): the asyncpreemptoff scan, the restore switch, the environ rewrite and the re-exec. |
| `EphemeralAddr` | `getEphemeralLoopbackAddr` and `bindEphemeral` (socket.go:856-942) as RECURSIVE operators over the interface list: the interface and address scans, the family tests, `copy()` into the sockaddr, the wildcard fallback, and the bind/getsockname failures. Init enumerates the inputs, and a single `BindEphemeral` step runs the function to its return. |
| `Run` | `entrypointParent` (part_001:265-366): `GodebugHack` runs to its proceed point, then `Startup`. It instantiates both as `G` and `S`. Each component's steps leave the other's variables unchanged. |
| `Startup` | The handshake of `forkChild` and `entrypointChild` (part_001:366-413, 424-567): the shared memfd word, futex wait/wake, pidfd_getfd, engine start, the child's intercepted closes, exec, and the tracee's intercepted syscalls. |

State of `Socket`:

| variable | stands for |
|---|---|
| `sock` | `*ImmutableState`. Pointer identity is the counter `ver`, so a CAS succeeds iff `ver` is unchanged. |
| `tmp` | The temp bind sockets: unused, bound (open) or closed. |
| `kbound` | The target's kernel socket has an address: after `bindEphemeral` at 520, or after the connect to the dummy listener at 368. |
| `active` | `listening.active`. |
| `fds`, `inode` | The aliases: open or closing, and `Inode.remove`. |
| `th` | One record per target thread: the syscall in progress and the state it loaded (`prev`). Its `pc` is `idle`, `restart` (after ERESTART), `cas` (between kernel work and CAS) or `wait` (a blocking connect waiting on `errnoConnect`). |
| `comp` | The completion goroutine of the one running connect. |
| `px` | The proxy of a successful dial and dummy accept: `st` (none, running, ended), the `skipCloseTCP` flag `skip`, whether its two connections are `open`, and how many times they were closed (`closes`). One record is enough: at most one connect per socket gets as far as building a proxy. |

Each handler is split into two actions at the one point where another actor can interleave:

- `XLoad` covers the IncRef, Load, switch and kernel work.
- `XCas` covers the CAS and everything after it.

The environment is modelled as constants:

- `DialResults`: ok, an errno, or another Go error.
- `AcceptResults`: the dummy accept succeeds or fails.
- `KernelFails`: whether the socket(2)/bind(2)/net.Listen/newDummyListener failures happen.

The proxy's lifecycle:

- `ConnectFinish` starts it (`go proxy.start()` at 248, before the CAS). A lost CAS (ERESTART) closes both connections at 280-287 while the proxy runs.
- `Close` of a Connected socket (751-764) does the `skipCloseTCP` CAS. Its winner leaves the connections to the proxy; its loser closes them.
- `ProxyEnd` stands for the end of `(*proxy).start`, which does the equivalent CAS. `proxy.go` is not under `src/`, so `ProxyEnd` is modelled from the comment at 753-756 and is marked spec_modelled.

Infrastructure errors (a Go `error` returned to the dispatcher) are shown as `ENOSYS`.

### ListenAccept

`ListenAccept` starts from the state a successful Listen publishes:

- Listening;
- `active` true;
- `lis` open;
- both goroutines running.

Its actors and the steps they take:

| actor | steps |
|---|---|
| external peer | `ExtConnect`: enters `lis`'s queue. No fairness. |
| accept loop | `LoopAccept` pushes a proxy on `buffer`. It is guarded by the capacity `2*Backlog`. |
| | `LoopStop`/`LoopFail` stop the loop on ErrClosed or on another error. |
| | The deferred calls then run in reverse order as three steps: `close(buffer)`, `active.Store(false)`, `lis.Close()`. |
| dispatch loop | `DispatchTake` ranges over `buffer`. `DispatchExit` ends the range once `buffer` is closed and drained. |
| dispatch goroutine, one per connection | `DispatchDial`: the dial lands in the target's kernel queue `kq`, or fails and closes the external side. |
| | `DispatchStore`: `LoadOrStore`. |
| | `DispatchSend`: `ch <- p`. |
| target thread | `AcceptCall` (the switch and the `active` check), `Accept4`, `Accept4Fail` (EAGAIN from a non-blocking socket with an empty queue; `nonblock` is the target's O_NONBLOCK, chosen in `Init`), `AcceptLookup` (`LoadOrStore`), `AcceptRecv` (`<-ch`, the new Connected socket). |
| final Close | `CloseCall`: close(2), which resets `kq`, then the CAS to Closed. |
| | `CloseListener`: `active.CompareAndSwap(true,false)`, then `lis.Close()`. |

A channel is named by its maker: the dispatcher of connection c, or the accept handler that got c.

A connection stands for its process-side address, the key both sides use.
The kernel keeps that address unique while the connection is alive. Both
parties always reach `LoadOrStore` once accept4 has returned the
connection. So an entry is never stale, and the address check at socket.go:682
cannot fail. For that reason it is not a property.

Not modelled here:

- A blocked accept4 woken by close(2). Linux does not wake an accept(2)
  blocked on a descriptor another thread closes, so the thread stays in
  `accept4`. This is also what the model does.
- The Fstat failure after `<-ch` (687). Accept returns an error without
  closing or starting the proxy it received, which leaks both of that
  proxy's connections. This path is recorded as a hazard only. fstat(2) on a
  just-accepted descriptor fails only on EFAULT or ENOMEM. A disjunct for it
  would also need a violation run of its own, and the project already has
  its twelve runs.

### GodebugHack

A GODEBUG value is the sequence `strings.Split(v, ",")` gives. The
environment keeps every `GODEBUG=` and `SUBTRACE_ORIG_GODEBUG=` entry in
order, because the rewrite can create duplicates. `os.Getenv` and the new
process see the first one (`Dedup`).

- `Init`: the user's GODEBUG is unset or any value of up to `MaxLen` fields
  drawn from `Items`.
- `Hack`: one run of the function. It either returns, after the restore
  switch, or execs the rewritten environ. `execs` counts re-executions.
- `RuntimeApo`: the Go runtime's reading of GODEBUG. Settings apply left to
  right, and the last one wins. This reading is modelled from the runtime's
  documented behaviour; it is not in this repository.

### Startup

There are two processes, plus the tracee the child becomes.

| variable | stands for |
|---|---|
| `word` | The shared uint32 at `addr`. It is zeroed before the fork. |
| `parent` | `forkChild` and `entrypointParent`: setup, `futex.Wait` (`wait`, then `sleep` if the word is still 0), the load (`read`), pidfd_open/getfd, `process.New` and `eng.Start`, then wait4 (`serve`). |
| `child` | `entrypointChild`: mmap, LookPath, InstallFilter with the store, futex.Wake, close(3), close(fd), exec. Then the tracee (`running`). |
| `held` | The child still has its copy of the listener fd. |
| `got` | The parent's engine serves the listener. |
| `notif` | Per child thread: the state of its intercepted syscall. |
| `calls` | The tracee's intercepted syscalls so far. |
| `code` | The parent's exit code. |

Failures are the constant `Failures`: each step named there may fail or
succeed. close(2) is one of the intercepted syscalls (spec.md, the
syscall set), so the child's own close(3) waits for the parent's engine
(`Closes`). The engine's answering is one step per notification
(`EngineAnswer`); the engine's code is not under `src/`.

## Runs

| run | result | what it shows |
|---|---|---|
| `safety` (`Socket_safety.cfg`) | pass, 251k states | Checks `TempSocketsAccounted`, `ProxyClosedOnce` (the proxy's connections are closed at most once, whichever of Close, the proxy's end and a lost completion CAS comes first), `ConnectOKOnlyWhenConnected` and `ShadowRefinement` (Socket implements ShadowState). Setup: 2 threads, 2 aliases, all failures on. |
| `liveness` (`Socket_liveness.cfg`) | pass, 202k states | `ConnectingResolves`: Connecting always resolves when the dial returns ok or an errno and the dummy accept succeeds. `ClosedReleasesTemps`: after the final close, every temp socket is eventually closed. `ProxyReleased`: after the final close, the proxy's connections are eventually closed, including when the completion CAS was lost. |
| `connecting_stuck` | violation | Two ways leave the inode Connecting forever with no completion CAS. A non-Errno dial error, or a failed dummy accept, skips the CAS (socket.go:238). A newDummyListener failure after Connecting was published (158) returns before the goroutines start. The run has all failures on, `KernelFails` included, so it reaches both. |
| `listen_race` | violation | Listen closes the parked bind (560) before its CAS. A Connect that wins the race publishes Connecting whose bind socket is already closed. |
| `getsockname_stale` | violation | `GetsocknameNoEBADF`: getsockname is split into `NameLoad` (IncRef and Load, 464-470) and `NameReply` (getsockname on the parked socket, 944). A non-blocking connect returns EINPROGRESS. A getsockname then loads Connecting, and the completion goroutine CASes to Connected and closes the temp socket (289-298) before the getsockname reads it. The target gets EBADF on an open, connected socket. The comment at 256-259 keeps that socket for exactly this call, and the spec says getsockname after bind returns the address even across CAS retries. |
| `la_check` (`ListenAccept_check.cfg`) | pass, 330k states | `ExternalAccounted`: every open external connection is held by the buffer, its dispatcher, a backlog channel or an accepted socket. `AcceptReturns`: an accept that got a kernel connection gets its proxy, whichever side reaches LoadOrStore first. `ListenerReleased`: after the final close, `lis` is closed and both loops exit, whichever of Close and the loop wins `active`. Setup: 2 peers, 2 threads, accept-loop failure and Close enabled. |
| `la_external_leak` | violation | A proxy stored in `backlog` (626) before the target closes its listening socket is never drained. Its external connection stays open. The spec says in-flight tasks are cancelled by closing their external endpoints. |
| `la_accept_hang` | violation | Accept passes the `active` check (647), then the accept loop fails and closes `lis`. The thread blocks in accept4 on a socket still published as Listening, while later accepts get EINVAL. |
| `gd_preempt` | violation | `PreemptionOff`: with `GODEBUG=asyncpreemptoff=1,asyncpreemptoff=0`, the hack stops at the first `=1` field (part_001:208) and proceeds. The runtime, where the last setting wins, runs with async preemption on. |
| `ea_check` (`EphemeralAddr_check.cfg`) | pass, 608k states | `LookupMatchesReference`: the recursive scan returns what a declarative reference returns (the first IPNet loopback of the family among the interfaces whose `Addrs()` succeeded, else the joined errors or "not found"). `BoundLoopbackWhenFound`: a loopback bind that found an address binds a loopback address of the socket's own family. `copy()` of a wrong-length slice would give 0.0.0.0 instead. `TypeOK` also requires a SockaddrInet4 to carry a 4-byte address and a SockaddrInet6 a 16-byte one. |
| `run_check` (`Run_check.cfg`) | pass, 11k states | `Run` composes the hack and the handshake as `entrypointParent` orders them. `AtMostOneReexec`: for every user GODEBUG of up to 3 fields from {`asyncpreemptoff=1`, `asyncpreemptoff=0`, `gctrace=1`, empty}, or unset, the hack re-execs at most once. `TraceeInheritsUserGodebug`: the child exists only after the hack returned, and the child and tracee inherit the user's GODEBUG with no `SUBTRACE_ORIG_GODEBUG`. `TraceeTraced`: the tracee never runs before the engine holds its listener. `ParentLeavesWait`: the parent leaves futex.Wait whenever the child succeeds or fails at a step that reports through the word. `Failures` leaves out mmap, the one child failure that reports nothing; with it the property fails (see the divergences below). `ChildNotStranded`: a forked child always execs or exits. Setup: setup, LookPath, filter and execve failures; 3 tracee threads, 4 calls. |
| `st_stranded` | violation | pidfd_getfd fails (504). The parent returns (the same holds for pidfd_open, EPERM and `process.New`), while the child is blocked in its own intercepted close(3) with no engine to answer it. |
Every property of a passing run has a mutant in `PROJECT.json`: an
operator defined just before the definition it replaces, named after the
bug it plants. TLC finds each mutant violating its property.

## Bounds

The cfgs use these bounds:

- `Threads`: 2, which is the least for a CAS race.
- `Aliases`: 2, which is the least for a final close racing a handler on another alias.
- `MaxCalls = 2` syscalls per thread. With two threads this is enough for:
  - bind, then connect, against listen or close;
  - the ERESTART re-drive, which does not count against the budget.
- `MaxTemp = 8` temp sockets. These are never reused, so they must not run out. With 8, at least one id was always unused in every reachable state (checked with an auxiliary invariant while sizing).

The violation runs use 1 or 2 threads and up to 3 calls, enough for their
shortest counterexamples.

ListenAccept uses:

- 2 or 3 peers, which is enough for a connection in each stage at once;
- 2 accepting threads;
- `Backlog = 8`, the clamp minimum. The buffer (16) therefore never fills in these instances.

Three peers (1.1M states, 10 minutes) exceed the run budget. Two peers
still put one connection in the buffer or a dispatcher while the other is
parked in `backlog`.

GodebugHack uses values of up to 3 fields from 4 items (85 user values).
That covers unset, empty, one or several `asyncpreemptoff` settings in
either order, and other keys around them. `MaxExecs = 3` leaves room for a
re-exec loop to show.

Startup has a single child, as the code does. `Width = 16`: the sentinel
^0 differs from every fd number, and nothing in the handshake does
arithmetic on the word. There are 3 tracee threads with 4 intercepted
calls, so notifications are pending on several threads when the tracee
exits.

EphemeralAddr uses up to 2 interfaces of up to 2 addresses each, from two
IPv4 loopbacks, `::1`, `::ffff:127.0.0.1` and `10.0.0.1`, as IPNet or IPAddr,
plus interfaces whose `Addrs()` fails. So the model covers:

- two loopbacks of one family in either order;
- a mapped address that is loopback but of the other family;
- an error before a match.

## Fairness

Weak fairness covers only the tracer's own code:

- the CAS step of a handler that has loaded a state;
- the dial and dummy-accept goroutines;
- the completion goroutine;
- the end of `(*proxy).start` once the socket is Closed. Only then does the process side of the proxy read EOF, so the proxy is not assumed to end while the target still uses the socket.

In ListenAccept, weak fairness covers:

- the accept loop and dispatch loop;
- the dispatch goroutines;
- the steps of an Accept handler after the target entered it;
- the kernel handing a queued connection to a blocked accept4;
- the listener step of Close.

External peers, the target's calls and listener failures have no fairness.

In Startup, weak fairness covers every step of both processes before the
exec, the engine's answer and a tracee thread resuming after it. The
tracee's own syscalls and its exit have no fairness. In `Run`, the hack step is
weakly fair too: it is code of the parent that always runs to completion.
`Startup`'s fairness is reused unchanged. The hack reaches its proceed point
within one re-exec, so that fairness constrains the same behaviours as in
`Startup` alone.

The target process may stop issuing syscalls at any time. So the Load
actions have no fairness, and deadlock checking is off. This is stated in each cfg.

## Not modelled (yet)

- The proxy's byte copying. Only its lifecycle and close coordination are modelled (`proxy.go` is not under `src/`).
- The FD reference counts beyond open/closing. The fd package is not under `src/`, and the spec's account of it ("closed only when the last reference is dropped", with a mutex around close(2)) does not settle whether `Socket.Close`'s `Lock` waits for holders such as a blocked accept4. Modelling it would mean guessing.
- A spurious return of `futex.Wait` with the word still 0. Whether the futex package retries is not visible in this repository. The model lets the wait return only on a changed word (recorded as a hazard).
- CLI, PTY and journaling plumbing.
- The CI workflow (`part_000`).

Divergences noted while modelling but not kept as runs (recorded as hazards in `PROJECT.json`):

- when the child's mmap fails (part_001:521), it exits without storing ^0 or waking the parent, so the parent waits in `futex.Wait` forever. Adding `"mmap"` to `Failures` in `Run_check.cfg` makes `ParentLeavesWait` fail;

- listen(2) re-driven after a failure returns ENOSYS (socket.go:520);
- SO_ERROR never clears the latched errno (488). The spec leaves this open;
- a second blocking connect gets EALREADY (96);
- `bindEphemeral(loopback=true)` drops the lookup's error and binds the wildcard address when no loopback address is found (905, 913). The target's listening socket is then reachable directly, bypassing the tracer. Spec 4.6 says it binds to (loopback, 0);
- an InstallFilter failure makes subtrace exit 127, the code for "command not found" (part_001:548).

## Plan

1. Socket core: done.
2. `ListenAccept`: done.
3. `Startup` and `GodebugHack`: done.
4. Proxy close coordination (`skipCloseTCP`): done.
5. Ephemeral loopback bind (`EphemeralAddr`) and the composition `Run`: done.
6. FD reference counting (spec_modelled), refined to the open/closing status used here.
