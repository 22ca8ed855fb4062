-------------------------------- MODULE Run --------------------------------
(***************************************************************************)
(* entrypointParent (src/unnamed/part_001:265-366): the parent first runs   *)
(* ensureAsyncPreemptionHack, which may re-execute it, and only once the    *)
(* hack has returned does it reach forkChild.  The child is started with    *)
(* the parent's os.Environ() (480) and hands that environment on to the     *)
(* tracee at its execve (534, 563).                                         *)
(*                                                                         *)
(* The composition runs GodebugHack to its "proceed" point and then the     *)
(* Startup handshake; each component's variables are left unchanged by the  *)
(* other's steps.                                                           *)
(***************************************************************************)
CONSTANTS
    Items, MaxLen, MaxExecs,                               \* GodebugHack
    Failures, Width, ListenerFd, MaxTraceeCalls, Threads   \* Startup

VARIABLES
    env, started, pc, execs, user,                         \* GodebugHack
    word, parent, secfd, child, held, got, code, notif, calls   \* Startup

hackVars == <<env, started, pc, execs, user>>
startupVars == <<word, parent, secfd, child, held, got, code, notif, calls>>
vars == <<hackVars, startupVars>>

G == INSTANCE GodebugHack
S == INSTANCE Startup

Init == G!Init /\ S!Init

\* One run of ensureAsyncPreemptionHack (part_001:271); forkChild has not
\* been reached yet.
HackStep == G!Hack /\ UNCHANGED startupVars

\* A step of the parent or child handshake, once the hack returned nil.
StartupStep == pc = "proceed" /\ S!Next /\ UNCHANGED hackVars

Next == HackStep \/ StartupStep

\* The hack returns within one re-execution (AtMostOneReexec), so Startup's
\* own fairness, stated over its variables, constrains the same behaviours
\* as it does in Startup alone, shifted past the hack.
Fairness == WF_vars(HackStep) /\ S!Fairness

Spec == Init /\ [][Next]_vars
FairSpec == Spec /\ Fairness

-----------------------------------------------------------------------------
(* Properties.                                                             *)

\* The hack re-executes the parent at most once, whatever GODEBUG was.
AtMostOneReexec == G!AtMostOneReexec

\* The child, and the tracee it becomes, exist only after the hack has
\* returned, and they run with the user's GODEBUG (unset and "" alike) and
\* no SUBTRACE_ORIG_GODEBUG: both inherit the parent's environment as the
\* restore switch of ensureAsyncPreemptionHack left it.
TraceeInheritsUserGodebug ==
    child # "none" =>
        /\ pc = "proceed"
        /\ G!Getenv(env.gd) = G!Getenv(user)
        /\ env.orig = <<>>

\* The tracee never runs before the parent's engine holds its listener.
TraceeTraced == S!TraceeTraced

\* The parent leaves futex.Wait whenever the child succeeds or reports its
\* failure through the word (every child failure except mmap).
ParentLeavesWait == S!ParentLeavesWait

\* A forked child always execs the tracee or exits.
ChildNotStranded == S!ChildNotStranded

=============================================================================
