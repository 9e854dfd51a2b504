--------------------------- MODULE ConnectService ---------------------------
(***************************************************************************)
(* What a forwarded connection is promised.  Over TCP it is told it is     *)
(* connected only if the server is connected to the target it asked for,   *)
(* over UDP only if the server has a socket for it, whatever the target:   *)
(* each datagram is addressed, and filtered, for itself.  The server       *)
(* connects to nothing that was not asked for.  Answers may be lost and    *)
(* connections given up, so a failure promises nothing.                    *)
(*                                                                         *)
(* Connections are numbered in the order in which they get their session   *)
(* id.  Ids wrap, and the promise is between connections of the same id:   *)
(* 2^32 connections apart, and so one and the same in practice.            *)
(***************************************************************************)
EXTENDS Naturals

CONSTANTS
    Conns,        \* connections, by number
    SidSpan,      \* how many session ids there are
    TcpTargets,   \* what a connection may ask for over TCP
    UdpTargets,   \* and over UDP
    Unconnected,  \* a socket that is connected to nothing
    Invalid       \* no target

VARIABLES
    wanted,    \* per connection, the target it asked for, or Invalid
    reached,   \* per connection, what the server's socket is connected to, or Invalid
    result     \* per connection, what it was told

vars == <<wanted, reached, result>>

Asked(c) == wanted[c] # Invalid
Namesakes(c) == {d \in Conns : d % SidSpan = c % SidSpan}

Init ==
    /\ wanted = [c \in Conns |-> Invalid]
    /\ reached = [c \in Conns |-> Invalid]
    /\ result = [c \in Conns |-> "none"]

Ask(c) ==
    /\ ~Asked(c)
    /\ UNCHANGED <<reached, result>>
    /\ \E t \in TcpTargets \cup UdpTargets : wanted' = [wanted EXCEPT ![c] = t]

(* The server has a socket for the connection, once at most.               *)
Serve(c, socket) ==
    /\ reached[c] = Invalid /\ Asked(c)
    /\ reached' = [reached EXCEPT ![c] = socket]
    /\ UNCHANGED <<wanted, result>>

Reach(c) == Serve(c, wanted[c]) /\ wanted[c] \in TcpTargets
Bind(c) == Serve(c, Unconnected) /\ wanted[c] \in UdpTargets

Connected(c) ==
    /\ result[c] = "none" /\ Asked(c)
    /\ \E d \in Namesakes(c) : reached[d] # Invalid
    /\ result' = [result EXCEPT ![c] = "Ok"]
    /\ UNCHANGED <<wanted, reached>>

Failed(c) ==
    /\ result[c] = "none" /\ Asked(c)
    /\ result' = [result EXCEPT ![c] = "Err"]
    /\ UNCHANGED <<wanted, reached>>

Next ==
    \E c \in Conns : Ask(c) \/ Reach(c) \/ Bind(c) \/ Connected(c) \/ Failed(c)

Spec == Init /\ [][Next]_vars

=============================================================================
