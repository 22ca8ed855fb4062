--------------------------- MODULE EphemeralAddr ---------------------------
(***************************************************************************)
(* getEphemeralLoopbackAddr and bindEphemeral (src/cmd/run/socket/         *)
(* socket.go:856-942).  Listen (520) binds the target's own socket with     *)
(* loopback = TRUE so that only the tracer's dispatcher can reach it; the   *)
(* Connect path (136) binds a temp socket with loopback = FALSE.            *)
(*                                                                         *)
(* An address is named by its text.  A byte slice is a record [ip, len]:   *)
(* the address and whether it is held in 4 or 16 bytes, which is what      *)
(* copy() into a sockaddr depends on.  The inputs -- the interface list     *)
(* net.Interfaces() returns, the address lists iface.Addrs() returns, and   *)
(* the failures of those calls and of bind(2) and getsockname(2) -- are     *)
(* chosen in Init; one step runs bindEphemeral to its return.              *)
(***************************************************************************)
EXTENDS Sequences, SequencesExt

CONSTANTS
    MaxIfaces,    \* longest interface list
    MaxAddrs,     \* longest address list of one interface
    KernelFails   \* whether bind(2) and getsockname(2) may fail

AF_INET == "AF_INET"
AF_INET6 == "AF_INET6"
Nil == "nil"
NoBytes == [ip |-> Nil, len |-> 0]   \* a nil byte slice

\* The addresses an interface may carry: two IPv4 loopbacks, the IPv6
\* loopback, the IPv4-mapped form of 127.0.0.1 and a non-loopback address.
IfaceIPs == {"127.0.0.1", "127.0.0.2", "::1", "::ffff:127.0.0.1", "10.0.0.1"}
V4 == {"0.0.0.0", "127.0.0.1", "127.0.0.2", "10.0.0.1"}

\* net.IP.To4: the 4-byte form of an IPv4 or IPv4-mapped address, else nil.
To4(ip) == CASE ip \in V4                -> ip
             [] ip = "::ffff:127.0.0.1"  -> "127.0.0.1"
             [] OTHER                    -> Nil

\* net.IP.IsLoopback: 127/8 for an IPv4 address, ::1 otherwise.
IsLoopback(ip) == IF To4(ip) # Nil THEN To4(ip) \in {"127.0.0.1", "127.0.0.2"}
                                   ELSE ip = "::1"

\* iface.Addrs() yields *net.IPNet values and, on some systems, *net.IPAddr.
Addrs == [type : {"IPNet", "IPAddr"}, ip : IfaceIPs]
\* An interface whose Addrs() call fails carries no addresses.
Ifaces == {[err |-> TRUE, addrs |-> <<>>]}
          \cup [err : {FALSE}, addrs : BoundedSeq(Addrs, MaxAddrs)]

VARIABLES
    domain,     \* s.Inode.Domain
    loopback,   \* the loopback argument
    fdOpen,     \* fd.IncRef() succeeds
    listErr,    \* net.Interfaces() fails
    ifaces,     \* what net.Interfaces() and iface.Addrs() return, in order
    res         \* "pending", then bindEphemeral's result

vars == <<domain, loopback, fdOpen, listErr, ifaces, res>>

Pending == [err |-> "pending", addr |-> Nil]

Init ==
    /\ domain \in {AF_INET, AF_INET6}
    /\ loopback \in BOOLEAN
    /\ fdOpen \in BOOLEAN
    /\ listErr \in BOOLEAN
    /\ ifaces \in BoundedSeq(Ifaces, MaxIfaces)
    /\ res = Pending

\* Mutant of LoopbackBytes: the IPv4 branch returns addr.IP.To16().
LoopbackBytesTo16(d, a) ==
    IF a.type = "IPNet" /\ IsLoopback(a.ip) /\ d = AF_INET /\ To4(a.ip) # Nil
    THEN [ip |-> "::ffff:" \o To4(a.ip), len |-> 16]
    ELSE IF a.type = "IPNet" /\ IsLoopback(a.ip) /\ d = AF_INET6 /\ To4(a.ip) = Nil
    THEN [ip |-> a.ip, len |-> 16]
    ELSE NoBytes

\* The type switch and the two family tests on one address: the bytes to
\* return, or nil to go on with the next address.
LoopbackBytes(d, a) ==
    IF a.type = "IPNet" /\ IsLoopback(a.ip) /\ d = AF_INET /\ To4(a.ip) # Nil
    THEN [ip |-> To4(a.ip), len |-> 4]
    ELSE IF a.type = "IPNet" /\ IsLoopback(a.ip) /\ d = AF_INET6 /\ To4(a.ip) = Nil
    THEN [ip |-> a.ip, len |-> 16]
    ELSE NoBytes

\* The inner loop over one interface's addresses: the first match, or nil.
RECURSIVE ScanAddrs(_, _)
ScanAddrs(d, as) ==
    IF as = <<>> THEN NoBytes
    ELSE IF LoopbackBytes(d, Head(as)) # NoBytes THEN LoopbackBytes(d, Head(as))
    ELSE ScanAddrs(d, Tail(as))

\* Mutant of Scan: an Addrs() error returns at once instead of continuing.
RECURSIVE ScanReturnsOnError(_, _, _)
ScanReturnsOnError(d, ifs, errs) ==
    IF ifs = <<>> THEN [val |-> NoBytes, err |-> IF errs THEN "joined" ELSE "notfound"]
    ELSE IF Head(ifs).err THEN [val |-> NoBytes, err |-> "joined"]
    ELSE IF ScanAddrs(d, Head(ifs).addrs) # NoBytes
         THEN [val |-> ScanAddrs(d, Head(ifs).addrs), err |-> "none"]
    ELSE ScanReturnsOnError(d, Tail(ifs), errs)

\* The outer loop over the interfaces: an Addrs() error is collected and the
\* loop continues; after the loop the joined errors, if any, else "no
\* loopback address found".
RECURSIVE Scan(_, _, _)
Scan(d, ifs, errs) ==
    IF ifs = <<>> THEN [val |-> NoBytes, err |-> IF errs THEN "joined" ELSE "notfound"]
    ELSE IF Head(ifs).err THEN Scan(d, Tail(ifs), TRUE)
    ELSE IF ScanAddrs(d, Head(ifs).addrs) # NoBytes
         THEN [val |-> ScanAddrs(d, Head(ifs).addrs), err |-> "none"]
    ELSE Scan(d, Tail(ifs), errs)

getEphemeralLoopbackAddr(d) ==
    IF listErr THEN [val |-> NoBytes, err |-> "list"] ELSE Scan(d, ifaces, FALSE)

\* Mutant of Wildcard: both domains start from a zero SockaddrInet4.
WildcardInet4(d) == "0.0.0.0"

\* The zero sockaddr of the domain: &unix.SockaddrInet4{} or Inet6{}.
Wildcard(d) == IF d = AF_INET THEN "0.0.0.0" ELSE "::"

\* copy(sa.Addr[:], val) keeps the first min(len) bytes.  A 16-byte form
\* (::1 or v4-mapped) starts with zero bytes, so a 4-byte Addr gets 0.0.0.0;
\* a 4-byte form fills the top of a 16-byte Addr, the rest zero ("x::").
CopyInto(n, b) == IF b.len = n THEN b.ip
                  ELSE IF n = 4 THEN "0.0.0.0" ELSE b.ip \o "::"

\* The address bindEphemeral hands to bind(2): the loopback address when
\* asked for and found, else the zero address; the lookup's error is dropped.
SockaddrAddr(d, lb) ==
    LET r == getEphemeralLoopbackAddr(d)
    IN IF lb /\ r.err = "none"
       THEN CopyInto(IF d = AF_INET THEN 4 ELSE 16, r.val)
       ELSE Wildcard(d)

Outcomes == IF KernelFails THEN BOOLEAN ELSE {TRUE}

\* bindEphemeral: IncRef, the sockaddr, bind(2), then getsockname(2), whose
\* address (with the kernel's ephemeral port) is returned.
BindEphemeral ==
    /\ res = Pending
    /\ IF ~fdOpen
       THEN res' = [err |-> "EBADF", addr |-> Nil]
       ELSE \E bindOK, nameOK \in Outcomes :
              res' = CASE ~bindOK -> [err |-> "bind", addr |-> Nil]
                       [] ~nameOK -> [err |-> "getsockname", addr |-> Nil]
                       [] OTHER   -> [err |-> "none", addr |-> SockaddrAddr(domain, loopback)]
    /\ UNCHANGED <<domain, loopback, fdOpen, listErr, ifaces>>

Next == BindEphemeral

Spec == Init /\ [][Next]_vars

-----------------------------------------------------------------------------
(* Properties.                                                             *)

\* The returned address fits the socket's family: a SockaddrInet4 carries
\* a 4-byte address, a SockaddrInet6 a 16-byte one.
TypeOK ==
    /\ domain \in {AF_INET, AF_INET6} /\ ifaces \in Seq(Ifaces)
    /\ res.err \in {"pending", "EBADF", "bind", "getsockname", "none"}
    /\ res.err = "none" => (res.addr \in V4 <=> domain = AF_INET)

\* Reference for getEphemeralLoopbackAddr: among the addresses of the
\* interfaces whose Addrs() succeeded, in order, the first IPNet loopback of
\* the domain's family, in the family's byte length; with none, an error
\* that is the joined Addrs() errors if there were any.
RefLookup(d) ==
    LET ok    == SelectSeq(ifaces, LAMBDA i : ~i.err)
        all   == FlattenSeq([k \in 1..Len(ok) |-> ok[k].addrs])
        fam(a) == a.type = "IPNet" /\ IsLoopback(a.ip)
                  /\ (To4(a.ip) # Nil <=> d = AF_INET)
        cands == SelectSeq(all, fam)
    IN CASE listErr      -> [val |-> NoBytes, err |-> "list"]
         [] cands # <<>> -> [val |-> IF d = AF_INET
                                     THEN [ip |-> To4(Head(cands).ip), len |-> 4]
                                     ELSE [ip |-> Head(cands).ip, len |-> 16],
                             err |-> "none"]
         [] \E k \in DOMAIN ifaces : ifaces[k].err -> [val |-> NoBytes, err |-> "joined"]
         [] OTHER        -> [val |-> NoBytes, err |-> "notfound"]

\* getEphemeralLoopbackAddr agrees with the reference for every interface
\* list, including lists where an Addrs() call fails before a loopback.
LookupMatchesReference ==
    \A d \in {AF_INET, AF_INET6} : getEphemeralLoopbackAddr(d) = RefLookup(d)

\* When the lookup finds a loopback address, Listen's bindEphemeral binds
\* the target's socket to a loopback address of its own family (spec 4.6),
\* not to what copy() makes of a byte slice of the wrong length.
BoundLoopbackWhenFound ==
    (loopback /\ res.err = "none" /\ getEphemeralLoopbackAddr(domain).err = "none")
        => IsLoopback(res.addr) /\ (To4(res.addr) # Nil <=> domain = AF_INET)

=============================================================================
