------------------------------- MODULE Socket -------------------------------
(***************************************************************************)
(* The socket facade of src/cmd/run/socket/socket.go for ONE socket inode  *)
(* shared by several target descriptors (dup aliases) and used by several  *)
(* target threads at once.  Every intercepted syscall is handled by its    *)
(* own tracer goroutine: it Loads the immutable state, does kernel work,   *)
(* and publishes a fresh state with CompareAndSwap; the window between the *)
(* Load and the CAS is a step boundary here.  Connect additionally spawns  *)
(* the completion goroutine (external dial, dummy-listener accept, final   *)
(* CAS), modelled by the variable comp.                                    *)
(*                                                                         *)
(* Data is abstracted: addresses are not represented, only whether the     *)
(* throwaway "temp bind" sockets are unused, bound or closed; a state value *)
(* is a record whose ver field stands for the pointer identity that        *)
(* atomic.Pointer.CompareAndSwap compares.                                 *)
(***************************************************************************)
EXTENDS Integers, FiniteSets

CONSTANTS
    Threads,        \* target threads issuing syscalls on the socket
    Aliases,        \* target descriptors aliasing the inode (dup, SCM_RIGHTS)
    MaxCalls,       \* syscalls each thread may issue (ERESTART re-drives are free)
    MaxTemp,        \* temp bind sockets the model may create
    DialResults,    \* outcomes of the external net.Dial
    AcceptResults,  \* outcomes of the dummy listener's Accept
    KernelFails     \* whether helper socket(2)/bind(2)/listen(2) may fail

ASSUME /\ MaxCalls \in Nat \ {0} /\ MaxTemp \in Nat \ {0}
       /\ DialResults \subseteq {"ok", "errno", "other"} /\ DialResults # {}
       /\ AcceptResults \subseteq {"ok", "fail"} /\ AcceptResults # {}
       /\ KernelFails \in BOOLEAN

Tags    == {"Passive", "Connecting", "Connected", "Listening", "Closed"}
Errnos  == {"OK", "EBADF", "EISCONN", "EALREADY", "EINPROGRESS", "EINVAL",
            "ERESTART", "ECONNREFUSED", "EADDRINUSE", "ENOSYS"}
Ops     == {"connect", "bind", "listen", "close", "errno", "getsockname"}
NoBind  == 0
TempIds == 1..MaxTemp

VARIABLES
    sock,     \* Inode.state: [tag, bind, errno, ver] (ver = pointer identity)
    tmp,      \* temp bind socket i: "unused" | "bound" | "closed"
    kbound,   \* the target's own kernel socket has a local address
    active,   \* listening.active of the Listening state
    fds,      \* per alias Socket.FD: "open" | "closing" (ClosingIncRef done)
    inode,    \* the aliases registered on the inode (Inode.add/remove)
    th,       \* per thread: the syscall being handled and its locals
    comp,     \* the connect completion goroutine
    calls,    \* syscalls issued per thread
    nonblock, \* O_NONBLOCK of the target's open file (fcntl F_GETFL)
    px        \* the proxy of the connect: [st, skip, open, closes]

vars == <<sock, tmp, kbound, active, fds, inode, th, comp, calls, nonblock, px>>

State(tag, bind, errno) == [tag |-> tag, bind |-> bind, errno |-> errno, ver |-> sock.ver + 1]

\* A handler's locals; prev keeps what the CAS and the cleanup read of the
\* loaded state: its identity and its parked bind socket.
Call(op, a, pc, prev, nb, ret) ==
    [op |-> op, alias |-> a, pc |-> pc, prev |-> [ver |-> prev.ver, bind |-> prev.bind],
     nb |-> nb, ret |-> ret]

NoPrev == [ver |-> -1, bind |-> NoBind]
IdleComp == [st |-> "idle", mid |-> [tag |-> "Passive", bind |-> NoBind, errno |-> "OK", ver |-> -1],
             owner |-> CHOOSE t \in Threads : TRUE, dial |-> "pending", acc |-> "pending"]

\* proxy.start: "none" (not started), "running", "ended"; skip is the
\* one-shot skipCloseTCP flag; open: the process and external connections
\* are open; closes: how often the pair was closed.
NoProxy == [st |-> "none", skip |-> FALSE, open |-> FALSE, closes |-> 0]

Init ==
    /\ sock = [tag |-> "Passive", bind |-> NoBind, errno |-> "OK", ver |-> 0]
    /\ tmp = [i \in TempIds |-> "unused"]
    /\ kbound = FALSE
    /\ active = FALSE
    /\ fds = [a \in Aliases |-> "open"]
    /\ inode = Aliases
    /\ th = [t \in Threads |-> Call("connect", CHOOSE a \in Aliases : TRUE, "idle", NoPrev, NoBind, "OK")]
    /\ comp = IdleComp
    /\ calls = [t \in Threads |-> 0]
    /\ nonblock \in BOOLEAN
    /\ px = NoProxy

Open(i) == tmp[i] = "bound"
Unused == {i \in TempIds : tmp[i] = "unused"}
\* The next temp bind socket created (which id is irrelevant, so the least).
NewTemp == {i \in Unused : \A j \in Unused : i <= j}

\* A fresh syscall by thread t on alias a, or the kernel re-driving the one
\* that returned ERESTART.
Issue(t, op, a) ==
    \/ /\ th[t].pc = "idle" /\ calls[t] < MaxCalls
       /\ calls' = [calls EXCEPT ![t] = @ + 1]
    \/ /\ th[t].pc = "restart" /\ th[t].op = op /\ th[t].alias = a
       /\ UNCHANGED calls

\* The handler of thread t replies e to the target.
Reply(t, e) ==
    th' = [th EXCEPT ![t].pc = IF e = "ERESTART" THEN "restart" ELSE "idle",
                     ![t].ret = e, ![t].nb = NoBind, ![t].prev = NoPrev]


\* getRemoteBindAddr: getsockname(2) on the parked bind socket, which fails
\* with EBADF once that socket is closing.
BindAddrErrno(s) == IF s.bind # NoBind /\ tmp[s.bind] = "closed" THEN "EBADF" ELSE "OK"

\* Close a temp bind socket if nobody closed it yet (ClosingIncRef + close).
CloseTemp(i) == IF i # NoBind /\ Open(i) THEN [tmp EXCEPT ![i] = "closed"] ELSE tmp

-----------------------------------------------------------------------------
(* Connect.                                                                 *)

\* The switch on the loaded state: "go" for Passive, else the early errno.
ConnectSwitch(tag) ==
    CASE tag = "Passive"    -> "go"
      [] tag = "Connected"  -> "EISCONN"
      [] tag = "Connecting" -> IF nonblock THEN "EINPROGRESS" ELSE "EALREADY"
      [] tag = "Listening"  -> "EINVAL"
      [] tag = "Closed"     -> "EBADF"

ConnectLoad(t, a) ==
    /\ Issue(t, "connect", a)
    /\ LET Ret(e) == th' = [th EXCEPT ![t] = Call("connect", a, "idle", NoPrev, NoBind, e)]
           Cas(nb) == th' = [th EXCEPT ![t] = Call("connect", a, "cas", sock, nb, "OK")]
       IN \/ fds[a] = "closing" /\ Ret("EBADF") /\ UNCHANGED tmp
          \/ /\ fds[a] = "open" /\ ConnectSwitch(sock.tag) # "go"
             /\ Ret(ConnectSwitch(sock.tag)) /\ UNCHANGED tmp
          \/ /\ fds[a] = "open" /\ ConnectSwitch(sock.tag) = "go"
             /\ BindAddrErrno(sock) # "OK"
             /\ Ret(BindAddrErrno(sock)) /\ UNCHANGED tmp
          \/ /\ fds[a] = "open" /\ ConnectSwitch(sock.tag) = "go"
             /\ BindAddrErrno(sock) = "OK" /\ sock.bind # NoBind
             /\ Cas(NoBind) /\ UNCHANGED tmp
          \/ /\ fds[a] = "open" /\ ConnectSwitch(sock.tag) = "go" /\ sock.bind = NoBind
             /\ \E i \in NewTemp :
                  \/ tmp' = [tmp EXCEPT ![i] = "bound"] /\ Cas(i)   \* bindEphemeral
                  \/ /\ KernelFails                      \* socket(2)/bind(2) failed
                     /\ tmp' = [tmp EXCEPT ![i] = "closed"]
                     /\ Ret("ENOSYS")
    /\ UNCHANGED <<sock, kbound, active, fds, inode, comp, nonblock, px>>

\* Mutant of ConnectCasLost: the losing connect keeps its new temp socket.
ConnectCasLostLeaks(prev, nb) == tmp

\* The losing connect closes the temp socket it created (not a parked one).
ConnectCasLost(prev, nb) == IF prev.bind = NoBind THEN CloseTemp(nb) ELSE tmp

(* CAS Passive -> Connecting; on success the dummy listener is created, the  *)
(* two goroutines are spawned and the target's socket is connected to the   *)
(* dummy listener.  A non-blocking target returns EINPROGRESS at once.      *)
ConnectCas(t) ==
    /\ th[t].pc = "cas" /\ th[t].op = "connect"
    /\ LET prev == th[t].prev
           mid  == State("Connecting", IF prev.bind # NoBind THEN prev.bind ELSE th[t].nb, "OK")
       IN \/ /\ sock.ver = prev.ver
             /\ sock' = mid
             /\ \/ /\ comp' = [st |-> "running", mid |-> mid, owner |-> t,
                               dial |-> "pending", acc |-> "pending"]
                   /\ kbound' = TRUE
                   /\ IF nonblock THEN Reply(t, "EINPROGRESS")
                                  ELSE th' = [th EXCEPT ![t].pc = "wait", ![t].nb = NoBind]
                \/ /\ KernelFails                 \* newDummyListener failed
                   /\ Reply(t, "ENOSYS")
                   /\ UNCHANGED <<comp, kbound>>
             /\ UNCHANGED tmp
          \/ /\ sock.ver # prev.ver
             /\ tmp' = ConnectCasLost(prev, th[t].nb)
             /\ Reply(t, "ERESTART")
             /\ UNCHANGED <<sock, comp, kbound>>
    /\ UNCHANGED <<active, fds, inode, calls, nonblock, px>>

(* The completion goroutine: the external dial and the dummy accept run     *)
(* concurrently; the accept can only complete once the target's socket has  *)
(* been connected to the dummy listener, which ConnectCas did.              *)
DialExternal ==
    /\ comp.st = "running" /\ comp.dial = "pending"
    /\ \E r \in DialResults : comp' = [comp EXCEPT !.dial = r]
    /\ UNCHANGED <<sock, tmp, kbound, active, fds, inode, th, calls, nonblock, px>>

DummyAccept ==
    /\ comp.st = "running" /\ comp.acc = "pending"
    /\ \E r \in AcceptResults : comp' = [comp EXCEPT !.acc = r]
    /\ UNCHANGED <<sock, tmp, kbound, active, fds, inode, th, calls, nonblock, px>>

\* Mutant of FinishHasNext: a failed dial is not turned into Passive.
FinishHasNextOnlyOk(acc, dial) == acc = "ok" /\ dial = "ok"

\* Whether the goroutine publishes a next state: not after a failed dummy
\* accept nor after a dial error that is not a syscall.Errno (goto out).
FinishHasNext(acc, dial) == acc = "ok" /\ dial # "other"

\* Mutant of FinishErrno: a lost CAS does not turn the errno into ERESTART.
FinishErrnoIgnoresCas(hasNext, casOK, dial) ==
    CASE ~hasNext -> "ENOSYS" [] dial = "errno" -> "ECONNREFUSED" [] OTHER -> "OK"

\* Mutant of FinishCas: the goroutine stores next instead of comparing.
FinishCasBlind(mid) == TRUE

\* CompareAndSwap(mid, next): mid is still the published state.
FinishCas(mid) == sock.ver = mid.ver

\* The errno sent on errnoConnect.
FinishErrno(hasNext, casOK, dial) ==
    CASE ~hasNext       -> "ENOSYS"
      [] ~casOK         -> "ERESTART"
      [] dial = "errno" -> "ECONNREFUSED"
      [] OTHER          -> "OK"

\* shouldCloseBind is cleared only when the CAS to a Passive next succeeded.
FinishKeeps(casOK, next) == casOK /\ next.tag = "Passive"

\* Mutant of FinishProxy: the pair is left open when the CAS to Connected
\* is lost.
FinishProxyKeepsConns(casOK) ==
    [st |-> "running", skip |-> FALSE, open |-> TRUE, closes |-> 0]

\* Both connections exist (dial and dummy accept succeeded): the proxy was
\* started before the CAS; a lost CAS (errno ERESTART) closes both.
FinishProxy(casOK) ==
    [st |-> "running", skip |-> FALSE, open |-> casOK, closes |-> IF casOK THEN 0 ELSE 1]

(* After wg.Wait: choose next, CAS(mid, next), send the errno to a blocking *)
(* caller, close the temp bind socket unless a Passive next now owns it.     *)
ConnectFinish ==
    /\ comp.st = "running" /\ comp.dial # "pending" /\ comp.acc # "pending"
    /\ LET mid     == comp.mid
           hasNext == FinishHasNext(comp.acc, comp.dial)
           next    == IF comp.dial = "errno" THEN State("Passive", mid.bind, "ECONNREFUSED")
                                             ELSE State("Connected", NoBind, "OK")
           casOK   == hasNext /\ FinishCas(mid)
           keep    == FinishKeeps(casOK, next)
       IN /\ sock' = IF casOK THEN next ELSE sock
          /\ tmp' = IF keep THEN tmp ELSE CloseTemp(mid.bind)
          /\ px' = IF hasNext /\ comp.dial = "ok" THEN FinishProxy(casOK) ELSE px
          /\ IF nonblock THEN UNCHANGED th
                         ELSE Reply(comp.owner, FinishErrno(hasNext, casOK, comp.dial))
    /\ comp' = IdleComp
    /\ UNCHANGED <<kbound, active, fds, inode, calls, nonblock>>

-----------------------------------------------------------------------------
(* Bind.                                                                    *)

BindSwitch(tag) ==
    CASE tag = "Passive" -> "go"
      [] tag \in {"Connected", "Connecting", "Listening"} -> "EINVAL"
      [] tag = "Closed" -> "EBADF"

(* Load, reuse or create the parked socket, bind(2) it for real.            *)
BindLoad(t, a) ==
    /\ Issue(t, "bind", a)
    /\ LET Ret(e) == th' = [th EXCEPT ![t] = Call("bind", a, "idle", NoPrev, NoBind, e)]
           Cas(nb, e) == th' = [th EXCEPT ![t] = Call("bind", a, "cas", sock, nb, e)]
           go == fds[a] = "open" /\ BindSwitch(sock.tag) = "go"
       IN \/ fds[a] = "closing" /\ Ret("EBADF") /\ UNCHANGED tmp
          \/ /\ fds[a] = "open" /\ BindSwitch(sock.tag) # "go"
             /\ Ret(BindSwitch(sock.tag)) /\ UNCHANGED tmp
          \/ go /\ Ret("EINVAL") /\ UNCHANGED tmp      \* address of the other family
          \/ /\ go /\ sock.bind # NoBind
             /\ \/ tmp[sock.bind] = "closed" /\ Ret("EBADF") /\ UNCHANGED tmp
                \/ tmp[sock.bind] = "bound" /\ Cas(NoBind, "EINVAL") /\ UNCHANGED tmp
          \/ /\ go /\ sock.bind = NoBind
             /\ \E i \in NewTemp :
                  \/ KernelFails /\ Ret("ENOSYS") /\ UNCHANGED tmp  \* newTempBindSocket
                  \/ tmp' = [tmp EXCEPT ![i] = "bound"] /\ Cas(i, "OK")
                  \/ /\ KernelFails                                \* EADDRINUSE
                     /\ tmp' = [tmp EXCEPT ![i] = "closed"]
                     /\ Cas(NoBind, "EADDRINUSE")
    /\ UNCHANGED <<sock, kbound, active, fds, inode, comp, nonblock, px>>

(* CAS Passive -> Passive: the new parked socket, or the latched bind error *)
(* with the previous parked socket kept.                                    *)
\* Mutant of BindLostRelease: the losing bind keeps its new temp socket.
BindLostKeeps(err, prev, nb) == tmp

\* A lost CAS closes the temp socket Bind created (prev had none).
BindLostRelease(err, prev, nb) ==
    IF err = "OK" /\ prev.bind = NoBind THEN CloseTemp(nb) ELSE tmp

BindCas(t) ==
    /\ th[t].pc = "cas" /\ th[t].op = "bind"
    /\ LET prev == th[t].prev
           err  == th[t].ret
           next == IF err = "OK" THEN State("Passive", th[t].nb, "OK")
                                 ELSE State("Passive", prev.bind, err)
       IN \/ /\ sock.ver = prev.ver
             /\ sock' = next
             /\ Reply(t, err)
             /\ UNCHANGED tmp
          \/ /\ sock.ver # prev.ver
             /\ tmp' = BindLostRelease(err, prev, th[t].nb)
             /\ Reply(t, "ERESTART")
             /\ UNCHANGED sock
    /\ UNCHANGED <<kbound, active, fds, inode, comp, calls, nonblock, px>>

-----------------------------------------------------------------------------
(* Listen: bind the target's socket to an ephemeral loopback address, start *)
(* the external listener, close the parked socket, then CAS.                *)

ListenSwitch(tag) ==
    CASE tag = "Passive" -> "go"
      [] tag \in {"Connected", "Connecting"} -> "EINVAL"
      [] tag = "Listening" -> "OK"
      [] tag = "Closed" -> "EBADF"

ListenLoad(t, a) ==
    /\ Issue(t, "listen", a)
    /\ LET Ret(e) == th' = [th EXCEPT ![t] = Call("listen", a, "idle", NoPrev, NoBind, e)]
           go == fds[a] = "open" /\ ListenSwitch(sock.tag) = "go"
       IN \/ fds[a] = "closing" /\ Ret("EBADF") /\ UNCHANGED <<tmp, kbound>>
          \/ /\ fds[a] = "open" /\ ListenSwitch(sock.tag) # "go"
             /\ Ret(ListenSwitch(sock.tag)) /\ UNCHANGED <<tmp, kbound>>
          \/ go /\ kbound /\ Ret("ENOSYS") /\ UNCHANGED <<tmp, kbound>> \* bindEphemeral: EINVAL
          \/ /\ go /\ ~kbound
             /\ kbound' = TRUE
             /\ \/ BindAddrErrno(sock) # "OK" /\ Ret(BindAddrErrno(sock)) /\ UNCHANGED tmp
                \/ /\ BindAddrErrno(sock) = "OK" /\ KernelFails    \* net.Listen failed
                   /\ Ret("EADDRINUSE") /\ UNCHANGED tmp
                \/ /\ BindAddrErrno(sock) = "OK"
                   /\ tmp' = CloseTemp(sock.bind)
                   /\ th' = [th EXCEPT ![t] = Call("listen", a, "cas", sock, NoBind, "OK")]
    /\ UNCHANGED <<sock, active, fds, inode, comp, nonblock, px>>

ListenCas(t) ==
    /\ th[t].pc = "cas" /\ th[t].op = "listen"
    /\ \/ /\ sock.ver = th[t].prev.ver
          /\ sock' = State("Listening", NoBind, "OK")
          /\ active' = TRUE
          /\ Reply(t, "OK")
       \/ /\ sock.ver # th[t].prev.ver        \* lis.Close()
          /\ Reply(t, "ERESTART")
          /\ UNCHANGED <<sock, active>>
    /\ UNCHANGED <<tmp, kbound, fds, inode, comp, calls, nonblock, px>>

-----------------------------------------------------------------------------
(* Close: ClosingIncRef, close(2), Inode.remove; the last alias CASes to    *)
(* Closed and releases what the previous state owned.                      *)

\* skipCloseTCP.CompareAndSwap(false, true): the winner leaves the
\* connections to the other party, the loser closes them.
SkipOrClose(p) ==
    IF p.skip THEN [p EXCEPT !.open = FALSE, !.closes = @ + 1]
              ELSE [p EXCEPT !.skip = TRUE]

\* Mutant of ProxyOnClose: Close closes the connections whatever the flag.
ProxyOnCloseIgnoresFlag(s) ==
    IF s.tag = "Connected" THEN [px EXCEPT !.skip = TRUE, !.open = FALSE, !.closes = @ + 1]
    ELSE px

\* The Connected case of the final close.
ProxyOnClose(s) == IF s.tag = "Connected" THEN SkipOrClose(px) ELSE px

\* The temp socket owned by the state replaced by Closed.
CloseRelease(s) == IF s.tag \in {"Passive", "Connecting"} THEN CloseTemp(s.bind) ELSE tmp

Close(t, a) ==
    /\ Issue(t, "close", a)
    /\ LET Ret(e) == th' = [th EXCEPT ![t] = Call("close", a, "idle", NoPrev, NoBind, e)]
       IN \/ /\ fds[a] = "closing"
             /\ Ret("EBADF")
             /\ UNCHANGED <<sock, tmp, active, fds, inode, px>>
          \/ /\ fds[a] = "open"
             /\ fds' = [fds EXCEPT ![a] = "closing"]
             /\ inode' = inode \ {a}
             /\ Ret("OK")
             /\ IF inode' # {}
                THEN UNCHANGED <<sock, tmp, active, px>>
                ELSE /\ sock' = State("Closed", NoBind, "OK")
                     /\ tmp' = CloseRelease(sock)
                     /\ active' = FALSE
                     /\ px' = ProxyOnClose(sock)
    /\ UNCHANGED <<kbound, comp, nonblock>>

(* The end of proxy.start, on either side's EOF or error.  The second of it *)
(* and Close to flip skipCloseTCP closes both connections.                  *)
ProxyEnd ==
    /\ px.st = "running"
    /\ px' = [SkipOrClose(px) EXCEPT !.st = "ended"]
    /\ UNCHANGED <<sock, tmp, kbound, active, fds, inode, th, comp, calls, nonblock>>

(* getsockname: Socket.BindAddr takes an FD reference and Loads the state; *)
(* getRemoteBindAddr then asks the kernel for the address of the parked    *)
(* bind socket of a Passive or Connecting state (getsockname(), 944).      *)
NameLoad(t, a) ==
    /\ Issue(t, "getsockname", a)
    /\ th' = [th EXCEPT ![t] = IF fds[a] = "closing"
                               THEN Call("getsockname", a, "idle", NoPrev, NoBind, "EBADF")
                               ELSE Call("getsockname", a, "name", sock, NoBind, "OK")]
    /\ UNCHANGED <<sock, tmp, kbound, active, fds, inode, comp, nonblock, px>>

\* getsockname(bind): IncRef on the parked socket of the state loaded, which
\* fails with EBADF if that socket has been closed since.
NameReply(t) ==
    /\ th[t].pc = "name"
    /\ Reply(t, BindAddrErrno(th[t].prev))
    /\ UNCHANGED <<sock, tmp, kbound, active, fds, inode, comp, calls, nonblock, px>>

(* getsockopt(SO_ERROR): Socket.Errno reports the latched error of Passive. *)
SockErrno(t, a) ==
    /\ Issue(t, "errno", a)
    /\ LET e == IF fds[a] = "closing" THEN "EBADF"
                ELSE IF sock.tag = "Passive" THEN sock.errno ELSE "OK"
       IN th' = [th EXCEPT ![t] = Call("errno", a, "idle", NoPrev, NoBind, e)]
    /\ UNCHANGED <<sock, tmp, kbound, active, fds, inode, comp, nonblock, px>>

-----------------------------------------------------------------------------
Next ==
    \/ \E t \in Threads, a \in Aliases :
          ConnectLoad(t, a) \/ BindLoad(t, a) \/ ListenLoad(t, a)
          \/ Close(t, a) \/ SockErrno(t, a) \/ NameLoad(t, a)
    \/ \E t \in Threads : ConnectCas(t) \/ BindCas(t) \/ ListenCas(t) \/ NameReply(t)
    \/ DialExternal \/ DummyAccept \/ ConnectFinish \/ ProxyEnd

\* The tracer's own goroutines always run on; the target is free to stop.
\* proxy.start ends by itself once the inode is closed (the process side
\* then reads EOF); before that only a peer can end it.
Fairness ==
    /\ \A t \in Threads : WF_vars(ConnectCas(t)) /\ WF_vars(BindCas(t)) /\ WF_vars(ListenCas(t))
                         /\ WF_vars(NameReply(t))
    /\ WF_vars(DialExternal) /\ WF_vars(DummyAccept) /\ WF_vars(ConnectFinish)
    /\ WF_vars(ProxyEnd /\ sock.tag = "Closed")

Spec == Init /\ [][Next]_vars
FairSpec == Spec /\ Fairness

-----------------------------------------------------------------------------
(* Properties.                                                             *)

\* Thread t's handler replies to the target in this step.
Returned(t) ==
    /\ th'[t].pc \in {"idle", "restart"}
    /\ \/ th[t].pc \in {"cas", "wait", "restart", "name"}
       \/ calls'[t] # calls[t]
Replied(t, op) == Returned(t) /\ th'[t].op = op

\* No temp bind socket leaks: every open one is owned by the published state,
\* by a handler between its Load and its CAS, or by the running connect
\* completion; every CAS-failure and error path of Connect, Bind, Listen,
\* the completion goroutine and Close must close what it created.
TempSocketsAccounted ==
    \A i \in TempIds : Open(i) =>
        \/ sock.tag \in {"Passive", "Connecting"} /\ sock.bind = i
        \/ \E t \in Threads : th[t].pc = "cas" /\ th[t].nb = i
        \/ comp.st = "running" /\ comp.mid.bind = i

\* A connect(2) returns 0 only in the step that publishes Connected: the
\* completion goroutine must not report success for a failed dial nor for a
\* CAS it lost to a concurrent close.
ConnectOKOnlyWhenConnected ==
    [][\A t \in Threads : Replied(t, "connect") /\ th'[t].ret = "OK" => sock'.tag = "Connected"]_vars

\* The published states follow the declared state machine (ShadowState):
\* no handler CASes out of Closed or takes an undeclared edge.
Shadow == INSTANCE ShadowState WITH state <- sock.tag
ShadowRefinement == Shadow!Spec

\* A connect that got as far as Connecting is eventually resolved: the inode
\* leaves Connecting (Connected, Passive with the latched errno, or Closed).
ConnectingResolves == sock.tag = "Connecting" ~> sock.tag # "Connecting"

\* After the last alias is closed every temp bind socket is eventually closed,
\* including those held by in-flight handlers and the completion goroutine.
ClosedReleasesTemps == sock.tag = "Closed" ~> \A i \in TempIds : ~Open(i)

\* The proxy's two connections are closed at most once: of Close and the end
\* of proxy.start only the loser of skipCloseTCP closes them, and the
\* completion goroutine closes them itself when it loses the CAS it started
\* the proxy for (socket.go:249, 280).
ProxyClosedOnce == px.closes <= 1

\* After the final close the proxy's connections are eventually closed,
\* whether Close, the end of proxy.start or the completion goroutine that
\* lost its CAS does it.
ProxyReleased == sock.tag = "Closed" ~> ~px.open

\* getsockname on an open descriptor never fails with EBADF: the parked bind
\* socket of the state it loaded stays open long enough (spec: getsockname
\* after a successful bind returns the address, even across CAS retries;
\* socket.go:256-259 keeps the Connecting temp socket for the tracee's
\* getsockname until the CAS).
GetsocknameNoEBADF ==
    [][\A t \in Threads : Replied(t, "getsockname") /\ th'[t].ret = "EBADF"
                          => fds[th[t].alias] = "closing"]_vars

\* The parked bind socket referenced by Passive/Connecting is open, so that
\* getsockname, bind and a later connect/listen can still use it (the spec:
\* "close the parked bind socket only after the external listener is live").
\* Excepted is the window in which a Listen that loaded this very state has
\* closed it and is about to replace the state by Listening.
ParkedBindOpen ==
    /\ sock.tag \in {"Passive", "Connecting"} /\ sock.bind # NoBind
    /\ ~\E t \in Threads : th[t].op = "listen" /\ th[t].pc = "cas" /\ th[t].prev.ver = sock.ver
    => Open(sock.bind)

=============================================================================
