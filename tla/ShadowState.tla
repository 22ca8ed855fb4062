---------------------------- MODULE ShadowState ----------------------------
(***************************************************************************)
(* The promise of the shadow state of one socket inode (Inode.state in     *)
(* src/cmd/run/socket/socket.go): the sequence of states published by the  *)
(* compare-and-swaps of Connect, Bind, Listen, the connect completion      *)
(* goroutine and Close is a path of the declared state machine, and Closed *)
(* has no outgoing edge.  The detailed module Socket implements it.        *)
(***************************************************************************)

VARIABLE state

States == {"Passive", "Connecting", "Connected", "Listening", "Closed"}

\* The edges a single CAS may take.  Passive -> Passive is Bind (or a latched
\* bind error); the self-loop is a new immutable state value.
Edge == { <<"Passive", "Passive">>, <<"Passive", "Connecting">>,
          <<"Connecting", "Connected">>, <<"Connecting", "Passive">>,
          <<"Passive", "Listening">> }
        \cup { <<s, "Closed">> : s \in States \ {"Closed"} }

Init == state = "Passive"

Step == \E s \in States : /\ <<state, s>> \in Edge
                          /\ state' = s

Spec == Init /\ [][Step]_state

=============================================================================
