---------------------------- MODULE ListenAccept ----------------------------
(***************************************************************************)
(* The Listening phase of one socket inode (src/cmd/run/socket/socket.go,  *)
(* Socket.Listen after its CAS, Socket.Accept, and the final Socket.Close   *)
(* of a Listening socket).                                                 *)
(*                                                                         *)
(* External peers connect to the real listener `lis`.  The accept loop     *)
(* turns each accepted connection into a proxy pushed on `buffer`; the     *)
(* dispatch loop spawns one goroutine per proxy that dials the target's    *)
(* loopback listening socket and meets the target's accept(2) handler      *)
(* through backlog.LoadOrStore(addr, ch): whichever side arrives first     *)
(* stores a one-slot channel, the other loads and deletes it, and the      *)
(* proxy travels through it.  A connection is identified by its external  *)
(* peer, which also stands for the process-side address the two sides key *)
(* the backlog map by (unique among live connections).                     *)
(***************************************************************************)
EXTENDS Naturals, Sequences, SequencesExt, FiniteSets

CONSTANTS
    Conns,            \* external peers (model values)
    Threads,          \* target threads calling accept(2)
    MaxCalls,         \* accept(2) calls per target thread
    Backlog,          \* listen(2) backlog after the clamp to at least 8
    AcceptLoopFails   \* whether lis.Accept may fail with an error other than ErrClosed

ASSUME Backlog >= 8 /\ MaxCalls \in Nat /\ AcceptLoopFails \in BOOLEAN

Cap == 2 * Backlog                         \* make(chan *proxy, backlog*2)

\* A channel is named after the side that made it: the dispatcher of
\* connection c or the accept handler that got c from accept4.
ChanIds == {"d", "a"} \X Conns
NoChan  == <<"none", "none">>
NoConn  == "none"

VARIABLES
    sockTag,   \* Inode.state: "Listening" or "Closed"
    active,    \* listening.active
    kopen,     \* the target's kernel socket (loopback ephemeral listener) is open
    lis,       \* the external listener: "open" or "closed"
    loop,      \* accept loop goroutine: "run", "deactivate", "closelis", "exited"
    dloop,     \* dispatch loop goroutine: "run" or "exited"
    buffer,    \* the buffered channel of proxies
    bclosed,   \* close(buffer) has happened
    ext,       \* external connection of each peer: idle, queued, open, closed
    disp,      \* per-connection dispatch goroutine: [pc, ch]
    kq,        \* connections queued on the target's kernel socket
    bl,        \* listening.backlog: Conns -> channel id or NoChan
    chans,     \* one-slot channels: "none" (unmade), "empty" or the proxy held
    th,        \* accept handlers: [pc, conn, ch, ret]
    calls,     \* accept(2) calls issued per thread
    child,     \* connections handed to a new Connected socket
    closer,    \* the final Close of the Listening socket: idle, active, done
    nonblock   \* O_NONBLOCK on the target's socket (set by the target, fixed here)

vars == <<sockTag, active, kopen, lis, loop, dloop, buffer, bclosed, ext, disp,
          kq, bl, chans, th, calls, child, closer, nonblock>>

(* Listen has published Listening with active = true, started lis and the  *)
(* two goroutines, and returned 0.                                         *)
Init ==
    /\ sockTag = "Listening" /\ active = TRUE /\ kopen = TRUE /\ lis = "open"
    /\ loop = "run" /\ dloop = "run" /\ buffer = <<>> /\ bclosed = FALSE
    /\ ext = [c \in Conns |-> "idle"]
    /\ disp = [c \in Conns |-> [pc |-> "none", ch |-> NoChan]]
    /\ kq = {} /\ bl = [c \in Conns |-> NoChan]
    /\ chans = [i \in ChanIds |-> "none"]
    /\ th = [t \in Threads |-> [pc |-> "idle", conn |-> NoConn, ch |-> NoChan, ret |-> "OK"]]
    /\ calls = [t \in Threads |-> 0]
    /\ child = {} /\ closer = "idle"
    /\ nonblock \in BOOLEAN

\* Closing lis resets the connections still in its kernel accept queue.
CloseLis == /\ lis' = "closed"
            /\ ext' = [c \in Conns |-> IF ext[c] = "queued" THEN "closed" ELSE ext[c]]

-----------------------------------------------------------------------------
(* Environment: an external peer connects to the listening port.           *)
ExtConnect(c) ==
    /\ ext[c] = "idle" /\ lis = "open"
    /\ ext' = [ext EXCEPT ![c] = "queued"]
    /\ UNCHANGED <<sockTag, active, kopen, lis, loop, dloop, buffer, bclosed, disp,
                   kq, bl, chans, th, calls, child, closer, nonblock>>

-----------------------------------------------------------------------------
(* Accept loop.                                                            *)

\* lis.Accept returns c; buffer <- p (blocks while the buffer is full).
LoopAccept(c) ==
    /\ loop = "run" /\ lis = "open" /\ ext[c] = "queued"
    /\ Len(buffer) < Cap
    /\ ext' = [ext EXCEPT ![c] = "open"]
    /\ buffer' = Append(buffer, c)
    /\ UNCHANGED <<sockTag, active, kopen, lis, loop, dloop, bclosed, disp, kq, bl,
                   chans, th, calls, child, closer, nonblock>>

\* lis.Accept fails (ErrClosed, or any other error); the deferred calls run
\* in reverse order: close(buffer), active.Store(false), lis.Close().
LoopStop ==
    /\ loop = "run" /\ lis = "closed"
    /\ loop' = "deactivate" /\ bclosed' = TRUE
    /\ UNCHANGED <<sockTag, active, kopen, lis, dloop, buffer, ext, disp, kq, bl,
                   chans, th, calls, child, closer, nonblock>>

LoopFail ==
    /\ AcceptLoopFails /\ loop = "run" /\ lis = "open"
    /\ loop' = "deactivate" /\ bclosed' = TRUE
    /\ UNCHANGED <<sockTag, active, kopen, lis, dloop, buffer, ext, disp, kq, bl,
                   chans, th, calls, child, closer, nonblock>>

LoopDeactivate ==
    /\ loop = "deactivate"
    /\ loop' = "closelis" /\ active' = FALSE
    /\ UNCHANGED <<sockTag, kopen, lis, dloop, buffer, bclosed, ext, disp, kq, bl,
                   chans, th, calls, child, closer, nonblock>>

LoopCloseLis ==
    /\ loop = "closelis"
    /\ loop' = "exited" /\ CloseLis
    /\ UNCHANGED <<sockTag, active, kopen, dloop, buffer, bclosed, disp, kq, bl,
                   chans, th, calls, child, closer, nonblock>>

-----------------------------------------------------------------------------
(* Dispatch loop and its per-connection goroutines.                        *)

\* for p := range buffer { go func(p) ... }
DispatchTake ==
    /\ dloop = "run" /\ buffer # <<>>
    /\ disp' = [disp EXCEPT ![Head(buffer)].pc = "dial"]
    /\ buffer' = Tail(buffer)
    /\ UNCHANGED <<sockTag, active, kopen, lis, loop, dloop, bclosed, ext, kq, bl,
                   chans, th, calls, child, closer, nonblock>>

\* The range ends once buffer is closed and drained.
DispatchExit ==
    /\ dloop = "run" /\ bclosed /\ buffer = <<>>
    /\ dloop' = "exited"
    /\ UNCHANGED <<sockTag, active, kopen, lis, loop, buffer, bclosed, ext, disp, kq,
                   bl, chans, th, calls, child, closer, nonblock>>

\* Mutant of DialFailed: the error path forgets p.external.Close().
DialFailedKeepsExternal(c) == ext

\* net.Dial to the ephemeral address failed: close the external side.
DialFailed(c) == [ext EXCEPT ![c] = "closed"]

\* net.Dial("tcp", ephemeral): the connection lands in the target's
\* kernel accept queue, or is refused once the target closed its socket.
DispatchDial(c) ==
    /\ disp[c].pc = "dial"
    /\ \/ /\ kopen
          /\ kq' = kq \cup {c}
          /\ disp' = [disp EXCEPT ![c].pc = "store"]
          /\ UNCHANGED ext
       \/ /\ ~kopen
          /\ ext' = DialFailed(c)
          /\ disp' = [disp EXCEPT ![c].pc = "done"]
          /\ UNCHANGED kq
    /\ UNCHANGED <<sockTag, active, kopen, lis, loop, dloop, buffer, bclosed, bl,
                   chans, th, calls, child, closer, nonblock>>

\* backlog.LoadOrStore(addr, ch); on a hit take the stored channel and Delete
\* the entry.  Returns the channel the caller uses and the new map and
\* channel table.
LoadOrStore(c, own) ==
    IF bl[c] = NoChan
    THEN [ch |-> own, bl |-> [bl EXCEPT ![c] = own], chans |-> [chans EXCEPT ![own] = "empty"]]
    ELSE [ch |-> bl[c], bl |-> [bl EXCEPT ![c] = NoChan], chans |-> chans]

\* Mutant of DispatchLoadOrStore: the dispatcher keeps sending on its own
\* channel although it found the accepter's.
DispatchLoadOrStoreOwn(c) ==
    LET r == LoadOrStore(c, <<"d", c>>)
    IN [r EXCEPT !.ch = <<"d", c>>, !.chans = [@ EXCEPT ![<<"d", c>>] = "empty"]]

DispatchLoadOrStore(c) == LoadOrStore(c, <<"d", c>>)

DispatchStore(c) ==
    /\ disp[c].pc = "store"
    /\ LET r == DispatchLoadOrStore(c)
       IN /\ disp' = [disp EXCEPT ![c] = [pc |-> "send", ch |-> r.ch]]
          /\ bl' = r.bl /\ chans' = r.chans
    /\ UNCHANGED <<sockTag, active, kopen, lis, loop, dloop, buffer, bclosed, ext, kq,
                   th, calls, child, closer, nonblock>>

\* ch <- p: the one-slot channel is empty, so the send does not block.
DispatchSend(c) ==
    /\ disp[c].pc = "send" /\ chans[disp[c].ch] = "empty"
    /\ chans' = [chans EXCEPT ![disp[c].ch] = c]
    /\ disp' = [disp EXCEPT ![c].pc = "done"]
    /\ UNCHANGED <<sockTag, active, kopen, lis, loop, dloop, buffer, bclosed, ext, kq,
                   bl, th, calls, child, closer, nonblock>>

-----------------------------------------------------------------------------
(* Socket.Accept, run for a target thread's accept4(2).                    *)

AcceptIssue(t) ==
    /\ th[t].pc = "idle" /\ calls[t] < MaxCalls
    /\ calls' = [calls EXCEPT ![t] = @ + 1]

\* IncRef, Load, the switch and the active check; then block in accept4.
AcceptCall(t) ==
    /\ AcceptIssue(t)
    /\ th' = [th EXCEPT ![t] =
                 CASE sockTag = "Closed" -> [@ EXCEPT !.ret = "EBADF"]
                   [] ~active             -> [@ EXCEPT !.ret = "EINVAL"]
                   [] OTHER               -> [@ EXCEPT !.pc = "accept4"]]
    /\ UNCHANGED <<sockTag, active, kopen, lis, loop, dloop, buffer, bclosed, ext,
                   disp, kq, bl, chans, child, closer, nonblock>>

\* unix.Accept4 returns a queued connection and its peer address.
Accept4(t) ==
    /\ th[t].pc = "accept4"
    /\ \E c \in kq :
          /\ kq' = kq \ {c}
          /\ th' = [th EXCEPT ![t].pc = "lookup", ![t].conn = c]
    /\ UNCHANGED <<sockTag, active, kopen, lis, loop, dloop, buffer, bclosed, ext,
                   disp, bl, chans, calls, child, closer, nonblock>>

\* unix.Accept4 on a non-blocking socket with an empty accept queue fails
\* with EAGAIN, returned as the handler's errno; the socket is left as is.
Accept4Fail(t) ==
    /\ th[t].pc = "accept4" /\ nonblock /\ kq = {}
    /\ th' = [th EXCEPT ![t].pc = "idle", ![t].ret = "EAGAIN"]
    /\ UNCHANGED <<sockTag, active, kopen, lis, loop, dloop, buffer, bclosed, ext,
                   disp, kq, bl, chans, calls, child, closer, nonblock>>

AcceptLookup(t) ==
    /\ th[t].pc = "lookup"
    /\ LET r == LoadOrStore(th[t].conn, <<"a", th[t].conn>>)
       IN /\ th' = [th EXCEPT ![t].pc = "recv", ![t].ch = r.ch]
          /\ bl' = r.bl /\ chans' = r.chans
    /\ UNCHANGED <<sockTag, active, kopen, lis, loop, dloop, buffer, bclosed, ext,
                   disp, kq, calls, child, closer, nonblock>>

\* p := <-ch, then the new Connected socket is created and returned.  Both
\* parties have now used the channel and the map entry is gone.
AcceptRecv(t) ==
    /\ th[t].pc = "recv" /\ chans[th[t].ch] \in Conns
    /\ child' = child \cup {chans[th[t].ch]}
    /\ chans' = [chans EXCEPT ![th[t].ch] = "none"]
    /\ th' = [th EXCEPT ![t] = [pc |-> "idle", conn |-> NoConn, ch |-> NoChan, ret |-> "OK"]]
    /\ UNCHANGED <<sockTag, active, kopen, lis, loop, dloop, buffer, bclosed, ext,
                   disp, kq, bl, calls, closer, nonblock>>

-----------------------------------------------------------------------------
(* The final Socket.Close of the Listening socket.                         *)

\* close(2) of the target's socket (its kernel accept queue is reset), then
\* the CAS to Closed.
CloseCall ==
    /\ closer = "idle"
    /\ closer' = "active" /\ sockTag' = "Closed"
    /\ kopen' = FALSE /\ kq' = {}
    /\ UNCHANGED <<active, lis, loop, dloop, buffer, bclosed, ext, disp, bl, chans,
                   th, calls, child, nonblock>>

\* Mutant of CloseListenerWins: the CAS arguments are swapped.
CloseListenerWinsSwapped == ~active

\* listening.active.CompareAndSwap(true, false).
CloseListenerWins == active

CloseListener ==
    /\ closer = "active"
    /\ closer' = "done"
    /\ IF CloseListenerWins
       THEN active' = ~active /\ CloseLis
       ELSE UNCHANGED <<active, lis, ext>>
    /\ UNCHANGED <<sockTag, kopen, loop, dloop, buffer, bclosed, disp, kq, bl, chans,
                   th, calls, child, nonblock>>

-----------------------------------------------------------------------------
Next ==
    \/ \E c \in Conns : ExtConnect(c) \/ LoopAccept(c)
                        \/ DispatchDial(c) \/ DispatchStore(c) \/ DispatchSend(c)
    \/ LoopStop \/ LoopFail \/ LoopDeactivate \/ LoopCloseLis
    \/ DispatchTake \/ DispatchExit
    \/ \E t \in Threads : AcceptCall(t) \/ Accept4(t) \/ Accept4Fail(t)
                          \/ AcceptLookup(t) \/ AcceptRecv(t)
    \/ CloseCall \/ CloseListener

(* Every goroutine of the tracer, and a handler once the target entered it, *)
(* runs on; the kernel hands a queued connection to a blocked accept4.  The *)
(* external peers, the target's syscalls and listener failures need not     *)
(* happen.                                                                 *)
Fairness ==
    /\ \A c \in Conns : /\ WF_vars(LoopAccept(c)) /\ WF_vars(DispatchDial(c))
                        /\ WF_vars(DispatchStore(c)) /\ WF_vars(DispatchSend(c))
    /\ WF_vars(LoopStop) /\ WF_vars(LoopDeactivate) /\ WF_vars(LoopCloseLis)
    /\ WF_vars(DispatchTake) /\ WF_vars(DispatchExit) /\ WF_vars(CloseListener)
    /\ \A t \in Threads : /\ WF_vars(Accept4(t)) /\ WF_vars(Accept4Fail(t))
                          /\ WF_vars(AcceptLookup(t))
                          /\ WF_vars(AcceptRecv(t))

Spec == Init /\ [][Next]_vars
FairSpec == Spec /\ Fairness

-----------------------------------------------------------------------------
(* Properties.                                                             *)

\* Every open external connection has exactly one holder in the pipeline:
\* the buffer, its dispatch goroutine, a backlog channel, or the Connected
\* socket Accept made for it.  The accept loop, dial error path and Close
\* must not drop one on the floor.
ExternalAccounted ==
    \A c \in Conns : ext[c] = "open" =>
        \/ Contains(buffer, c)
        \/ disp[c].pc \in {"dial", "store", "send"}
        \/ \E i \in ChanIds : chans[i] = c
        \/ c \in child

\* An accept(2) that got a connection from the kernel returns: the dispatcher
\* of that connection and the handler meet through backlog.LoadOrStore in
\* either order and the proxy arrives on the channel the handler waits on.
AcceptReturns ==
    \A t \in Threads : th[t].pc \in {"lookup", "recv"} ~> th[t].pc = "idle"

\* After the final close of a Listening socket the external listener is
\* closed and both the accept loop and the dispatch loop finish, whichever
\* of Close and the accept loop wins listening.active.
ListenerReleased ==
    sockTag = "Closed" ~> (lis = "closed" /\ loop = "exited" /\ dloop = "exited")

\* After the final close of a Listening socket every external connection it
\* accepted is eventually closed or owned by an accepted socket (the spec:
\* "on target close ... in-flight tasks are cancelled by closing their
\* external endpoints").
ExternalResolved ==
    sockTag = "Closed" ~> \A c \in Conns : ext[c] = "open" => c \in child

\* A thread blocked in accept4 on a Listening socket can still be served:
\* the external listener is open or a connection is on its way to it.
AcceptServable ==
    \A t \in Threads :
        th[t].pc = "accept4" /\ sockTag = "Listening" =>
            \/ lis = "open" \/ kq # {} \/ buffer # <<>>
            \/ \E c \in Conns : disp[c].pc = "dial"

=============================================================================
