---------------------------- MODULE GodebugHack ----------------------------
(***************************************************************************)
(* ensureAsyncPreemptionHack (src/unnamed/part_001, the run command): the   *)
(* parent re-executes itself with asyncpreemptoff=1 added to GODEBUG and    *)
(* the original value parked in SUBTRACE_ORIG_GODEBUG, then, in the         *)
(* re-executed process, restores GODEBUG so that the tracee inherits the    *)
(* user's value.                                                           *)
(*                                                                         *)
(* A GODEBUG value is the sequence strings.Split(v, ",") gives ("" is      *)
(* <<"">>), so strings.Join is the identity on it.  The environment keeps   *)
(* every GODEBUG= and SUBTRACE_ORIG_GODEBUG= entry in order; os.Getenv and  *)
(* the Go runtime after execve see the first one.                          *)
(***************************************************************************)
EXTENDS Naturals, Sequences, SequencesExt

CONSTANTS
    Items,      \* GODEBUG fields the inputs are made of
    MaxLen,     \* longest GODEBUG value (number of fields) given by the user
    MaxExecs    \* bound on re-executions explored

ASSUME MaxLen \in Nat /\ MaxExecs \in Nat

Apo == "asyncpreemptoff"
Flag == "asyncpreemptoff=1"
Empty == "<empty>"            \* SUBTRACE_ORIG_GODEBUG=<empty>: GODEBUG was unset

\* strings.Cut(kv, "="): the fields are "key=value" or "".
Key(kv) == IF kv = "" THEN "" ELSE CHOOSE k \in {"asyncpreemptoff", "gctrace"} :
                                    \E v \in {"0", "1", "01"} : kv = k \o "=" \o v
Val(kv) == IF kv = "" THEN "" ELSE CHOOSE v \in {"0", "1", "01"} : kv = Key(kv) \o "=" \o v

Values == UNION {[1..n -> Items] : n \in 1..MaxLen}
NoVal == <<"">>                  \* os.Getenv of an unset variable

\* os.Getenv: the first entry, or "".
Getenv(entries) == IF entries = <<>> THEN NoVal ELSE Head(entries)

VARIABLES
    env,       \* [gd : GODEBUG= entries, orig : SUBTRACE_ORIG_GODEBUG= entries]
    started,   \* the GODEBUG the running process's runtime parsed at startup
    pc,        \* "start" (about to run the hack) or "proceed" (hack returned nil)
    execs,     \* re-executions so far
    user       \* the user's GODEBUG entries (history)

vars == <<env, started, pc, execs, user>>

(* The user starts subtrace with GODEBUG unset or set to any small value.  *)
Init ==
    /\ user \in {<<>>} \cup {<<v>> : v \in Values}
    /\ env = [gd |-> user, orig |-> <<>>]
    /\ started = Getenv(user)
    /\ pc = "start" /\ execs = 0

\* The loop over strings.Split(orig, ","): TRUE when it meets a field
\* asyncpreemptoff with value exactly "1" (and returns there).
RECURSIVE FoundFlag(_)
FoundFlag(s) == /\ s # <<>>
                /\ \/ Key(Head(s)) = Apo /\ Val(Head(s)) = "1"
                   \/ FoundFlag(Tail(s))

\* The fields kept in excl: everything whose key is not asyncpreemptoff.
Excl(s) == SelectSeq(s, LAMBDA kv : Key(kv) # Apo)

\* Mutant of Restore: the "<empty>" marker is restored verbatim.
RestoreNoEmptyCase(e) ==
    IF Getenv(e.orig) = NoVal THEN e ELSE [gd |-> <<Getenv(e.orig)>>, orig |-> <<>>]

\* The switch on SUBTRACE_ORIG_GODEBUG once asyncpreemptoff=1 is found.
Restore(e) ==
    CASE Getenv(e.orig) = <<Empty>> -> [gd |-> <<>>, orig |-> <<>>]
      [] Getenv(e.orig) = NoVal     -> e
      [] OTHER                      -> [gd |-> <<Getenv(e.orig)>>, orig |-> <<>>]

\* Mutant of NewGodebug: the GODEBUG= entry loses the appended flag.
NewGodebugNoFlag(orig) == Excl(orig)

\* "GODEBUG=" + strings.Join(append(excl, "asyncpreemptoff=1"), ",").
NewGodebug(orig) == Append(Excl(orig), Flag)

\* The value parked in SUBTRACE_ORIG_GODEBUG.
OrigMarker(orig) == IF orig = NoVal THEN <<Empty>> ELSE orig

\* The environ handed to execve: every GODEBUG= entry rewritten, then the
\* entries appended for the original value.
Reexec(e) ==
    LET orig == Getenv(e.gd)
        gd   == [i \in DOMAIN e.gd |-> NewGodebug(orig)]
    IN IF orig # NoVal
       THEN [gd |-> gd, orig |-> Append(e.orig, OrigMarker(orig))]
       ELSE [gd |-> Append(gd, <<Flag>>), orig |-> Append(e.orig, OrigMarker(orig))]

\* Only the first entry of each variable survives into the new process.
Dedup(e) == [gd |-> IF e.gd = <<>> THEN <<>> ELSE <<Head(e.gd)>>,
             orig |-> IF e.orig = <<>> THEN <<>> ELSE <<Head(e.orig)>>]

\* One run of ensureAsyncPreemptionHack: return with GODEBUG restored, or
\* execve the binary with the rewritten environment.
Hack ==
    /\ pc = "start"
    /\ IF FoundFlag(Getenv(env.gd))
       THEN /\ env' = Restore(env)
            /\ pc' = "proceed"
            /\ UNCHANGED <<started, execs>>
       ELSE /\ execs < MaxExecs
            /\ env' = Dedup(Reexec(env))
            /\ started' = Getenv(env'.gd)
            /\ execs' = execs + 1
            /\ UNCHANGED pc
    /\ UNCHANGED user

\* The hack has returned and the parent carries on (the process may stop).
Done == pc = "proceed" /\ UNCHANGED vars

Next == Hack \/ Done

Spec == Init /\ [][Next]_vars

-----------------------------------------------------------------------------
(* Properties.                                                             *)

\* The Go runtime reads GODEBUG left to right, a later setting overriding an
\* earlier one; asyncpreemptoff is an integer (0 when absent).
RuntimeApo(v) ==
    FoldLeft(LAMBDA acc, kv : IF Key(kv) = Apo THEN Val(kv) ELSE acc, "0", v)

\* When the hack lets the parent proceed, the parent's own runtime really
\* runs with async preemption off (the reason the hack exists).
PreemptionOff ==
    pc = "proceed" => RuntimeApo(started) \in {"1", "01"}

\* The hack re-executes the binary at most once, whatever GODEBUG was.
AtMostOneReexec == execs <= 1

=============================================================================
