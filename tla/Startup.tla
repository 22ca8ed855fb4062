------------------------------ MODULE Startup ------------------------------
(***************************************************************************)
(* The seccomp-listener handshake of `subtrace run` (src/unnamed/part_001: *)
(* forkChild and entrypointChild).  The parent fork-execs itself as the    *)
(* child with a 4-byte shared memfd mapping, then futex-waits on it.  The  *)
(* child installs the seccomp filter, stores the listener's fd number (or  *)
(* ^uint32(0) on failure) in the word and wakes the parent, which takes    *)
(* the listener with pidfd_getfd and starts the engine.  The child then    *)
(* closes its copies; close(2) is itself intercepted, so the child blocks  *)
(* until the engine answers, and only then execs the tracee.               *)
(***************************************************************************)
EXTENDS Integers

CONSTANTS
    Failures,   \* the steps that may fail in this configuration
    Width,      \* bits of the shared word (uint32 in the code)
    ListenerFd, \* the fd number seccomp.InstallFilter returns in the child
    MaxTraceeCalls, \* bound on the intercepted syscalls the tracee makes
    Threads     \* the child's threads; Main runs entrypointChild

Steps == {"setup", "mmap", "lookpath", "filter", "pidfd_open", "getfd", "eperm",
          "process", "execve"}
ASSUME Failures \subseteq Steps /\ Width \in Nat /\ ListenerFd \in 3..(2^Width - 2)
       /\ MaxTraceeCalls \in Nat /\ Threads # {}

NotFound == 2^Width - 1            \* ^uint32(0)

\* close(2) is one of the syscalls the child's own filter intercepts
\* (process.Handlers).
CloseIntercepted == TRUE

Main == CHOOSE t \in Threads : TRUE

VARIABLES
    word,     \* the shared uint32
    parent,   \* forkChild / entrypointParent
    secfd,    \* the value the parent loaded from the word
    child,    \* entrypointChild, then the tracee
    held,     \* the child still has its listener fd open
    got,      \* the parent's engine serves the child's listener
    code,     \* the parent's exit code ("none" while it runs)
    notif,    \* per thread, its intercepted syscall: "none", "pending", "answered"
    calls     \* intercepted syscalls the tracee has made

vars == <<word, parent, secfd, child, held, got, code, notif, calls>>

(* forkChild is about to create the memfd; the child does not exist yet.   *)
Init ==
    /\ word = 0 /\ parent = "setup" /\ secfd = 0
    /\ child = "none" /\ held = FALSE /\ got = FALSE /\ code = "none"
    /\ notif = [t \in Threads |-> "none"] /\ calls = 0

\* The outcomes a step may have: it fails only if the configuration lets it.
Fails(s) == IF s \in Failures THEN BOOLEAN ELSE {FALSE}

-----------------------------------------------------------------------------
(* The child.                                                              *)

\* mmap of fd 3 fails: entrypointChild returns an error, the child exits 1.
ChildMmap ==
    /\ child = "mmap"
    /\ \E f \in Fails("mmap") : child' = IF f THEN "exited" ELSE "lookpath"
    /\ UNCHANGED <<word, parent, secfd, held, got, code, notif, calls>>

\* Store a value in the shared word.  futex.Wake follows as its own step.
ChildLookPath ==
    /\ child = "lookpath"
    /\ \E f \in Fails("lookpath") :
       IF f
       THEN word' = NotFound /\ child' = "wake_exit"
       ELSE UNCHANGED word /\ child' = "filter"
    /\ UNCHANGED <<parent, secfd, held, got, code, notif, calls>>

ChildFilter ==
    /\ child = "filter"
    /\ \E f \in Fails("filter") :
       IF f
       THEN word' = NotFound /\ child' = "wake_exit" /\ UNCHANGED held
       ELSE word' = ListenerFd /\ child' = "wake" /\ held' = TRUE
    /\ UNCHANGED <<parent, secfd, got, code, notif, calls>>

\* Mutant of Wake: futex.Wake is dropped.
WakeNone(p) == p

\* futex.Wake(addr, 1) wakes the parent if it sleeps on the word.
Wake(p) == IF p = "sleep" THEN "read" ELSE p

ChildWake ==
    /\ child \in {"wake", "wake_exit"}
    /\ parent' = Wake(parent)
    /\ child' = IF child = "wake" THEN "close3" ELSE "exited"
    /\ UNCHANGED <<word, secfd, held, got, code, notif, calls>>

\* munmap, then close(3) and close(fd).  close(2) is intercepted: the call
\* becomes a notification on the listener and returns only once the parent's
\* engine answers it.
ChildClose ==
    /\ child \in {"close3", "closefd"} /\ notif[Main] = "none"
    /\ notif' = [notif EXCEPT ![Main] = IF CloseIntercepted THEN "pending" ELSE "answered"]
    /\ UNCHANGED <<word, parent, secfd, child, held, got, code, calls>>

\* The engine's handler answers thread t's pending notification.
EngineAnswer(t) ==
    /\ got /\ notif[t] = "pending"
    /\ notif' = [notif EXCEPT ![t] = "answered"]
    /\ UNCHANGED <<word, parent, secfd, child, held, got, code, calls>>

\* Mutant of Closes: close(2) returns without the engine's answer.
ClosesUnserved(n) == n[Main] # "none"

Closes(n) == n[Main] = "answered"

\* close(2) returns; closing fd drops the child's copy of the listener.
ChildCloseReturn ==
    /\ child \in {"close3", "closefd"} /\ Closes(notif)
    /\ child' = IF child = "close3" THEN "closefd" ELSE "exec"
    /\ held' = (child = "close3")
    /\ notif' = [notif EXCEPT ![Main] = "none"]
    /\ UNCHANGED <<word, parent, secfd, got, code, calls>>

ChildExec ==
    /\ child = "exec"
    /\ \E f \in Fails("execve") : child' = IF f THEN "exited" ELSE "running"
    /\ UNCHANGED <<word, parent, secfd, held, got, code, notif, calls>>

\* The tracee makes a syscall its filter intercepts (socket, connect,
\* close, ...): it blocks until the engine answers.
TraceeSyscall(t) ==
    /\ child = "running" /\ notif[t] = "none" /\ calls < MaxTraceeCalls
    /\ notif' = [notif EXCEPT ![t] = "pending"] /\ calls' = calls + 1
    /\ UNCHANGED <<word, parent, secfd, child, held, got, code>>

TraceeResume(t) ==
    /\ child = "running" /\ notif[t] = "answered"
    /\ notif' = [notif EXCEPT ![t] = "none"]
    /\ UNCHANGED <<word, parent, secfd, child, held, got, code, calls>>

\* The tracee exits (exit_group): its threads die, pending notifications
\* with them.
TraceeExit ==
    /\ child = "running"
    /\ child' = "exited" /\ notif' = [t \in Threads |-> "none"]
    /\ UNCHANGED <<word, parent, secfd, held, got, code, calls>>

-----------------------------------------------------------------------------
(* The parent.                                                             *)

\* Mutant of FutexExpect: the wait is given the wrong expected value.
FutexExpectOne == 1

\* futex.Wait(addr, 0): sleep iff the word still holds the expected value.
FutexExpect == 0

\* memfd_create, ftruncate, mmap and zeroing the word, os.Executable, the
\* PTYs, then ForkExec: any failure returns an error before a child exists.
ParentSetup ==
    /\ parent = "setup"
    /\ \E f \in Fails("setup") :
       IF f
       THEN parent' = "exited" /\ code' = "err" /\ UNCHANGED <<word, child>>
       ELSE parent' = "wait" /\ word' = 0 /\ child' = "mmap" /\ UNCHANGED code
    /\ UNCHANGED <<secfd, held, got, notif, calls>>

ParentWait ==
    /\ parent = "wait"
    /\ parent' = IF word = FutexExpect THEN "sleep" ELSE "read"
    /\ UNCHANGED <<word, secfd, child, held, got, code, notif, calls>>

\* secfd := atomic.LoadUint32(addr); ^0 ends forkChild with (0, nil, nil)
\* and entrypointParent returns 127.
ParentRead ==
    /\ parent = "read"
    /\ secfd' = word
    /\ IF word = NotFound
       THEN parent' = "exited" /\ code' = "127"
       ELSE parent' = "pidfd" /\ UNCHANGED code
    /\ UNCHANGED <<word, child, held, got, notif, calls>>

\* The results pidfd_open and pidfd_getfd may give together.
PidfdResults ==
    {"ok"} \cup (IF Failures \cap {"pidfd_open", "getfd"} # {} THEN {"err"} ELSE {})
           \cup (IF "eperm" \in Failures THEN {"eperm"} ELSE {})

\* pidfd_open, then pidfd_getfd(secfd), which finds the listener while the
\* child still holds it.  An error ends entrypointParent: EPERM (no
\* SYS_PTRACE) with 1, any other error as an error.
ParentPidfd ==
    /\ parent = "pidfd"
    /\ \E r \in PidfdResults :
       LET ok == r = "ok" /\ held
       IN /\ parent' = IF ok THEN "process" ELSE "exited"
          /\ code' = CASE ok -> code [] r = "eperm" -> "1" [] OTHER -> "err"
    /\ UNCHANGED <<word, secfd, child, held, got, notif, calls>>

\* process.New for the child's pid, then go eng.Start(): from here the
\* engine answers the child's notifications.
ParentEngine ==
    /\ parent = "process"
    /\ \E f \in Fails("process") :
       IF f
       THEN parent' = "exited" /\ code' = "err" /\ UNCHANGED got
       ELSE parent' = "serve" /\ got' = TRUE /\ UNCHANGED code
    /\ UNCHANGED <<word, secfd, child, held, notif, calls>>

\* wait4 on the tracee, eng.Wait, eng.Close, then exit with its status.
ParentExit ==
    /\ parent = "serve" /\ child = "exited"
    /\ parent' = "exited" /\ code' = "status"
    /\ UNCHANGED <<word, secfd, child, held, got, notif, calls>>

Next ==
    \/ ChildMmap \/ ChildLookPath \/ ChildFilter \/ ChildWake
    \/ ChildClose \/ ChildCloseReturn \/ ChildExec \/ TraceeExit
    \/ \E t \in Threads : TraceeSyscall(t) \/ EngineAnswer(t) \/ TraceeResume(t)
    \/ ParentSetup \/ ParentWait \/ ParentRead \/ ParentPidfd \/ ParentEngine
    \/ ParentExit

\* Both processes run on and the kernel completes their syscalls; the tracee
\* itself need not make a syscall or exit.
Fairness ==
    /\ WF_vars(ChildMmap) /\ WF_vars(ChildLookPath) /\ WF_vars(ChildFilter)
    /\ WF_vars(ChildWake) /\ WF_vars(ChildClose) /\ WF_vars(ChildCloseReturn)
    /\ \A t \in Threads : WF_vars(EngineAnswer(t)) /\ WF_vars(TraceeResume(t))
    /\ WF_vars(ChildExec) /\ WF_vars(ParentSetup) /\ WF_vars(ParentWait)
    /\ WF_vars(ParentRead) /\ WF_vars(ParentPidfd) /\ WF_vars(ParentEngine)
    /\ WF_vars(ParentExit)

Spec == Init /\ [][Next]_vars
FairSpec == Spec /\ Fairness


-----------------------------------------------------------------------------
(* Properties.                                                             *)

\* The tracee never runs untraced: by the time the child execs the target
\* command the parent's engine holds its seccomp listener (the intercepted
\* close(2) keeps the child from closing its copy before pidfd_getfd).
TraceeTraced == child = "running" => got

\* The parent does not stay in futex.Wait when the child succeeds or fails
\* at a step that reports through the word (LookPath, InstallFilter,
\* execve): the store and the wake race the parent's wait, and the parent
\* still leaves it.  A failed mmap (part_001:521) reports nothing and breaks
\* this property; that failure is a recorded hazard, outside the runs.
ParentLeavesWait == parent \in {"wait", "sleep"} ~> parent \notin {"wait", "sleep"}

\* Once forked, the child eventually execs the tracee or exits; it is never left blocked
\* in a syscall its own filter intercepts with nobody to answer.
ChildNotStranded == child # "none" ~> child \in {"running", "exited"}

=============================================================================
