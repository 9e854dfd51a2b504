------------------------------- MODULE Filter -------------------------------
(***************************************************************************)
(* The server's address and port filter: the rule lists main.rs builds for *)
(* the commands `server` and `forward`, and the loop of allowed_ip over    *)
(* them, one rule per step.                                                *)
(*                                                                         *)
(* An address is one of Hosts, of which some are loopback and some private *)
(* addresses (is_loopback, is_private and is_unique_local are external).   *)
(* Names are resolved before the filter is asked.                          *)
(***************************************************************************)
EXTENDS Naturals, Sequences

CONSTANTS
    Hosts,      \* IP addresses
    Loopback,   \* those for which is_loopback holds
    PrivateNet, \* those for which is_private or is_unique_local holds
    Ports,      \* port numbers
    MaxPorts,   \* bound: ports per option of `forward`
    MaxRules    \* bound: rules of a list that is not built by main.rs

ASSUME FilterAssumption ==
    /\ Loopback \subseteq Hosts
    /\ PrivateNet \subseteq Hosts \ Loopback
    /\ MaxPorts \in Nat
    /\ MaxRules \in Nat

VARIABLES
    command,      \* what the filter list was built for
    filters,      \* FilterConfig.filters
    socket_addr,  \* the address asked for
    port_type,    \* for TCP or for UDP
    next,         \* the rule the loop looks at
    include       \* the verdict so far

vars == <<command, filters, socket_addr, port_type, next, include>>

(* AddressFilter and PortFilterType, with the addresses and ports they     *)
(* accept, PortType and FilterResult.                                      *)
AddressFilters == {Hosts, PrivateNet, Loopback} \cup {{h} : h \in Hosts}
PortFilters == {Ports} \cup {{p} : p \in Ports}
PortTypes == {"Tcp", "Udp", "TcpUdp"}
Rule == [address : AddressFilters, port : PortFilters, type : PortTypes, include : BOOLEAN]
Rules == UNION {[1..n -> Rule] : n \in 0..MaxRules}
PortList == UNION {[1..n -> Ports] : n \in 0..MaxPorts}

(* main: everything is allowed, then the blocked networks are excluded.    *)
Block(on, address) ==
    IF on THEN <<[address |-> address, port |-> Ports, type |-> "TcpUdp", include |-> FALSE]>>
          ELSE <<>>
AllowAll == <<[address |-> Hosts, port |-> Ports, type |-> "TcpUdp", include |-> TRUE]>>
BlocksFirst(localhost_block, private_network_block) ==
    Block(localhost_block, Loopback) \o Block(private_network_block, PrivateNet) \o AllowAll
ServerRules(localhost_block, private_network_block) ==
    AllowAll \o Block(localhost_block, Loopback) \o Block(private_network_block, PrivateNet)

(* connect_vec_merging_forward: localhost, the given ports only.           *)
PortRules(ports, type) ==
    [i \in 1..Len(ports) |-> [address |-> Loopback, port |-> {ports[i]}, type |-> type,
                              include |-> TRUE]]
ForwardRules(tcp_port, udp_port, both_port) ==
    PortRules(tcp_port, "Tcp") \o PortRules(udp_port, "Udp") \o PortRules(both_port, "TcpUdp")

Server(localhost_block, private_network_block) ==
    [name |-> "server", localhost_block |-> localhost_block,
     private_network_block |-> private_network_block]
Forward(tcp_port, udp_port, both_port) ==
    [name |-> "forward", tcp_port |-> tcp_port, udp_port |-> udp_port, both_port |-> both_port]

Init ==
    /\ \/ \E l, p \in BOOLEAN :
             command = Server(l, p) /\ filters = ServerRules(l, p)
       \/ \E t, u, b \in PortList :
             command = Forward(t, u, b) /\ filters = ForwardRules(t, u, b)
       \/ command = [name |-> "library"] /\ filters \in Rules
    /\ socket_addr \in [ip : Hosts, port : Ports]
    /\ port_type \in {"Tcp", "Udp"}
    /\ next = 1
    /\ include = FALSE

TypeIgnored(rule) == TRUE
TypeMatches(rule) == rule.type \in {port_type, "TcpUdp"}
Matches(rule) ==
    /\ TypeMatches(rule)
    /\ socket_addr.ip \in rule.address
    /\ socket_addr.port \in rule.port

FirstIncludeWins ==
    /\ next <= Len(filters)
    /\ include' = (include \/ (Matches(filters[next]) /\ filters[next].include))
    /\ next' = next + 1
    /\ UNCHANGED <<command, filters, socket_addr, port_type>>

Consider ==
    /\ next <= Len(filters)
    /\ include' = IF Matches(filters[next]) THEN filters[next].include ELSE include
    /\ next' = next + 1
    /\ UNCHANGED <<command, filters, socket_addr, port_type>>

Next == Consider

Spec == Init /\ [][Next]_vars

-----------------------------------------------------------------------------
Decided == next > Len(filters)

(* filter.rs:101, "last filter has the most priority": an address is       *)
(* allowed exactly if a rule that includes it is followed by none that     *)
(* excludes it.                                                            *)
AllowedBy(n) ==
    \E i \in 1..n :
        /\ Matches(filters[i]) /\ filters[i].include
        /\ \A j \in (i + 1)..n : Matches(filters[j]) => filters[j].include
LastMatchDecides == Decided => (include <=> AllowedBy(Len(filters)))

(* cli.rs: --localhost-block and --private-network-block prevent clients   *)
(* from connecting to such addresses, whatever the other flag says, and to *)
(* no others.                                                              *)
FlagsBlock ==
    Decided /\ command.name = "server" =>
        (include <=> /\ command.localhost_block => socket_addr.ip \notin Loopback
                     /\ command.private_network_block => socket_addr.ip \notin PrivateNet)

(* cli.rs, "only allows clients to connect to specified localhost ports":  *)
(* forward allows a port for exactly the protocols it was given for, as    *)
(* the test port_type_is_enforced (filter.rs:183) wants.  The comment at   *)
(* filter.rs:160, "also we don't currently discriminate against tcp or     *)
(* udp", says otherwise; TypeMatches is the code (filter.rs:136).          *)
ElementsOf(ports) == {ports[i] : i \in 1..Len(ports)}
OnlySpecifiedPorts ==
    Decided /\ command.name = "forward" =>
        (include <=> /\ socket_addr.ip \in Loopback
                     /\ socket_addr.port \in ElementsOf(command.both_port)
                          \cup ElementsOf(IF port_type = "Tcp" THEN command.tcp_port
                                                               ELSE command.udp_port))

-----------------------------------------------------------------------------
(* What the loop has found so far, and what the list was built from.       *)
BuiltFromOptions ==
    /\ command.name = "server" =>
          \E l, p \in BOOLEAN : command = Server(l, p) /\ filters = ServerRules(l, p)
    /\ command.name = "forward" =>
          \E t, u, b \in PortList : command = Forward(t, u, b) /\ filters = ForwardRules(t, u, b)
IInv ==
    /\ filters \in Seq(Rule)
    /\ socket_addr \in [ip : Hosts, port : Ports]
    /\ port_type \in {"Tcp", "Udp"}
    /\ next \in 1..(Len(filters) + 1)
    /\ include \in BOOLEAN
    /\ include <=> AllowedBy(next - 1)
    /\ BuiltFromOptions

=============================================================================
