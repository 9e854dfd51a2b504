---------------------------- MODULE FilterProofs ----------------------------
(***************************************************************************)
(* The filter decides by the last matching rule, and the lists that the    *)
(* commands `server` and `forward` build decide as their options say: for  *)
(* every list of rules, all ports and all addresses.                       *)
(***************************************************************************)
EXTENDS Filter, TLAPS

(* Every rule list the loop may be given is a sequence of rules.           *)
LEMMA BlockIsRules ==
    ASSUME NEW on \in BOOLEAN, NEW address \in AddressFilters
    PROVE  /\ Block(on, address) \in Seq(Rule)
           /\ Len(Block(on, address)) = IF on THEN 1 ELSE 0
           /\ on => Block(on, address)[1] = [address |-> address, port |-> Ports,
                                             type |-> "TcpUdp", include |-> FALSE]
<1> DEFINE r == [address |-> address, port |-> Ports, type |-> "TcpUdp", include |-> FALSE]
<1>1. r \in Rule
  BY DEF Rule, PortFilters, PortTypes
<1> HIDE DEF r
<1>2. <<r>> \in Seq(Rule) /\ Len(<<r>>) = 1 /\ <<r>>[1] = r
  BY <1>1
<1>3. << >> \in Seq(Rule) /\ Len(<< >>) = 0
  OBVIOUS
<1>4. Block(on, address) = IF on THEN <<r>> ELSE << >>
  BY DEF Block, r
<1>5. QED
  BY <1>2, <1>3, <1>4 DEF r

LEMMA AllowAllIsRules ==
    /\ AllowAll \in Seq(Rule) /\ Len(AllowAll) = 1
    /\ AllowAll[1] = [address |-> Hosts, port |-> Ports, type |-> "TcpUdp", include |-> TRUE]
<1> DEFINE r == [address |-> Hosts, port |-> Ports, type |-> "TcpUdp", include |-> TRUE]
<1>1. r \in Rule
  BY DEF Rule, AddressFilters, PortFilters, PortTypes
<1> HIDE DEF r
<1>2. <<r>> \in Seq(Rule) /\ Len(<<r>>) = 1 /\ <<r>>[1] = r
  BY <1>1
<1>3. QED
  BY <1>2 DEF AllowAll, r

LEMMA PortRulesAreRules ==
    ASSUME NEW ports \in PortList, NEW type \in PortTypes
    PROVE  /\ PortRules(ports, type) \in Seq(Rule)
           /\ Len(PortRules(ports, type)) = Len(ports)
           /\ Len(ports) \in Nat
           /\ \A i \in 1..Len(ports) :
                 /\ ports[i] \in Ports
                 /\ PortRules(ports, type)[i] =
                       [address |-> Loopback, port |-> {ports[i]}, type |-> type,
                        include |-> TRUE]
<1>1. PICK n \in 0..MaxPorts : ports \in [1..n -> Ports]
  BY DEF PortList
<1>2. n \in Nat
  BY FilterAssumption DEF FilterAssumption
<1>3. Len(ports) = n
  BY <1>1, <1>2
<1>4. \A i \in 1..n : [address |-> Loopback, port |-> {ports[i]}, type |-> type,
                       include |-> TRUE] \in Rule
  BY <1>1 DEF Rule, AddressFilters, PortFilters
<1>5. PortRules(ports, type) \in [1..n -> Rule]
  BY <1>3, <1>4 DEF PortRules
<1>6. QED
  BY <1>1, <1>2, <1>3, <1>5 DEF PortRules

LEMMA InitIInv == Init => IInv
<1> SUFFICES ASSUME Init PROVE IInv
  OBVIOUS
<1>1. filters \in Seq(Rule)
  <2>1. AllowAll \in Seq(Rule)
    BY AllowAllIsRules
  <2>2. ASSUME NEW l \in BOOLEAN, NEW p \in BOOLEAN
        PROVE  ServerRules(l, p) \in Seq(Rule)
    <3>1. Block(l, Loopback) \in Seq(Rule) /\ Block(p, PrivateNet) \in Seq(Rule)
      BY BlockIsRules DEF AddressFilters
    <3>2. QED
      BY <2>1, <3>1 DEF ServerRules
  <2>3. ASSUME NEW t \in PortList, NEW u \in PortList, NEW b \in PortList
        PROVE  ForwardRules(t, u, b) \in Seq(Rule)
    <3>1. /\ PortRules(t, "Tcp") \in Seq(Rule)
          /\ PortRules(u, "Udp") \in Seq(Rule)
          /\ PortRules(b, "TcpUdp") \in Seq(Rule)
      BY PortRulesAreRules DEF PortTypes
    <3>2. QED
      BY <3>1 DEF ForwardRules
  <2>4. ASSUME filters \in Rules PROVE filters \in Seq(Rule)
    <3>1. PICK n \in 0..MaxRules : filters \in [1..n -> Rule]
      BY <2>4 DEF Rules
    <3>2. n \in Nat
      BY FilterAssumption DEF FilterAssumption
    <3>3. QED
      BY <3>1, <3>2
  <2>5. QED
    BY <2>2, <2>3, <2>4 DEF Init
<1>2. BuiltFromOptions
  BY DEF Init, BuiltFromOptions, Server, Forward
<1>3. ~AllowedBy(0)
  BY DEF AllowedBy
<1>4. next - 1 = 0 /\ next \in 1..(Len(filters) + 1)
  BY <1>1 DEF Init
<1>5. QED
  BY <1>1, <1>2, <1>3, <1>4 DEF Init, IInv

LEMMA StepIInv == IInv /\ [Next]_vars => IInv'
<1> SUFFICES ASSUME IInv, [Next]_vars PROVE IInv'
  OBVIOUS
<1>1. CASE Consider
  <2>0. PICK n \in Nat \ {0} : n = next
    BY DEF IInv
  <2>1. /\ n \in Nat \ {0} /\ n <= Len(filters) /\ Len(filters) \in Nat
        /\ filters[n] \in Rule
    BY <1>1, <2>0 DEF Consider, IInv
  <2>2. UNCHANGED <<command, filters, socket_addr, port_type>> /\ next' = n + 1
    BY <1>1, <2>0 DEF Consider
  <2>5. AllowedBy(n) <=> IF Matches(filters[n]) THEN filters[n].include ELSE AllowedBy(n - 1)
    <3>1. filters[n].include \in BOOLEAN
      BY <2>1 DEF Rule
    <3>2. CASE Matches(filters[n]) /\ filters[n].include
      BY <2>1, <3>2 DEF AllowedBy
    <3>3. CASE Matches(filters[n]) /\ ~filters[n].include
      <4>1. ~AllowedBy(n)
        <5> SUFFICES ASSUME NEW i \in 1..n, Matches(filters[i]), filters[i].include,
                            \A j \in (i + 1)..n : Matches(filters[j]) => filters[j].include
                     PROVE  FALSE
          BY DEF AllowedBy
        <5>1. i # n
          BY <3>3
        <5>2. n \in (i + 1)..n
          BY <2>1, <5>1
        <5>3. QED
          BY <3>3, <5>2
      <4>2. QED
        BY <3>3, <4>1
    <3>4. CASE ~Matches(filters[n])
      <4>1. ASSUME AllowedBy(n) PROVE AllowedBy(n - 1)
        <5>1. PICK i \in 1..n :
                 /\ Matches(filters[i]) /\ filters[i].include
                 /\ \A j \in (i + 1)..n : Matches(filters[j]) => filters[j].include
          BY <4>1 DEF AllowedBy
        <5>2. i \in 1..(n - 1)
          BY <2>1, <3>4, <5>1
        <5>3. \A j \in (i + 1)..(n - 1) : j \in (i + 1)..n
          BY <2>1
        <5>4. QED
          BY <5>1, <5>2, <5>3 DEF AllowedBy
      <4>2. ASSUME AllowedBy(n - 1) PROVE AllowedBy(n)
        <5>1. PICK i \in 1..(n - 1) :
                 /\ Matches(filters[i]) /\ filters[i].include
                 /\ \A j \in (i + 1)..(n - 1) : Matches(filters[j]) => filters[j].include
          BY <4>2 DEF AllowedBy
        <5>2. \A j \in (i + 1)..n : j = n \/ j \in (i + 1)..(n - 1)
          BY <2>1
        <5>3. i \in 1..n
          BY <2>1
        <5>4. QED
          BY <3>4, <5>1, <5>2, <5>3 DEF AllowedBy
      <4>3. QED
        BY <3>4, <4>1, <4>2
    <3>5. QED
      BY <3>1, <3>2, <3>3, <3>4
  <2>7. include' \in BOOLEAN
    BY <1>1, <2>0, <2>1 DEF Consider, IInv, Rule
  <2>8. include' <=> AllowedBy(n)
    BY <1>1, <2>0, <2>5 DEF Consider, IInv
  <2>9. (include <=> AllowedBy(next - 1))'
    <3>1. next' - 1 = n
      BY <2>1, <2>2
    <3>2. AllowedBy(next - 1)' <=> AllowedBy(n)
      BY <2>2, <3>1 DEF AllowedBy, Matches, TypeMatches
    <3>3. QED
      BY <2>8, <3>2
  <2>10. BuiltFromOptions'
    BY <2>2 DEF IInv, BuiltFromOptions, Server, Forward
  <2>11. QED
    BY <2>1, <2>2, <2>7, <2>9, <2>10 DEF IInv
<1>2. CASE UNCHANGED vars
  BY <1>2 DEF vars, IInv, AllowedBy, Matches, TypeMatches, BuiltFromOptions
<1>3. QED
  BY <1>1, <1>2 DEF Next

(* The loop's invariant, whatever rules, address and port it is given.     *)
THEOREM LoopInvariant == Spec => []IInv
<1>1. Init => IInv
  BY InitIInv
<1>2. IInv /\ [Next]_vars => IInv'
  BY StepIInv
<1>3. QED
  BY <1>1, <1>2, PTL DEF Spec

(* allowed_ip: the last rule that matches decides, nothing is allowed by   *)
(* default.                                                                *)
THEOREM LastRuleDecides == Spec => []LastMatchDecides
<1>1. IInv => LastMatchDecides
  <2> SUFFICES ASSUME IInv, Decided PROVE include <=> AllowedBy(Len(filters))
    BY DEF LastMatchDecides
  <2>1. next - 1 = Len(filters)
    BY DEF IInv, Decided
  <2>2. QED
    BY <2>1 DEF IInv
<1>2. QED
  BY <1>1, LoopInvariant, PTL

-----------------------------------------------------------------------------
(* A concatenation has the elements of its parts.                          *)
LEMMA Concat ==
    ASSUME NEW S, NEW a \in Seq(S), NEW b \in Seq(S)
    PROVE  /\ a \o b \in Seq(S)
           /\ Len(a \o b) = Len(a) + Len(b) /\ Len(a) \in Nat /\ Len(b) \in Nat
           /\ \A i \in 1..Len(a) : (a \o b)[i] = a[i]
           /\ \A i \in 1..Len(b) : (a \o b)[Len(a) + i] = b[i]
  OBVIOUS

LEMMA Cons ==
    ASSUME NEW S, NEW a \in Seq(S), NEW b \in Seq(S)
    PROVE  Len(a) = 1 => /\ Len(a \o b) = 1 + Len(b) /\ Len(b) \in Nat
                         /\ (a \o b)[1] = a[1]
                         /\ \A i \in 1..Len(b) : (a \o b)[1 + i] = b[i]
<1> DEFINE c == a \o b
<1>1. /\ Len(c) = Len(a) + Len(b) /\ Len(b) \in Nat
      /\ \A i \in 1..Len(a) : c[i] = a[i]
      /\ \A i \in 1..Len(b) : c[Len(a) + i] = b[i]
  BY Concat
<1> HIDE DEF c
<1>2. Len(a) = 1 => /\ Len(c) = 1 + Len(b) /\ c[1] = a[1]
                    /\ \A i \in 1..Len(b) : c[1 + i] = b[i]
  BY <1>1
<1>3. QED
  BY <1>1, <1>2 DEF c

Among(x, q) == \E i \in 1..Len(q) : q[i] = x

LEMMA ConcatElements ==
    ASSUME NEW S, NEW a \in Seq(S), NEW b \in Seq(S), NEW x
    PROVE  Among(x, a \o b) <=> Among(x, a) \/ Among(x, b)
<1> DEFINE c == a \o b
<1>1. /\ Len(c) = Len(a) + Len(b) /\ Len(a) \in Nat /\ Len(b) \in Nat
      /\ \A i \in 1..Len(a) : c[i] = a[i]
      /\ \A i \in 1..Len(b) : c[Len(a) + i] = b[i]
  BY Concat
<1> HIDE DEF c
<1>2. ASSUME NEW i \in 1..Len(c), i \notin 1..Len(a)
      PROVE  i - Len(a) \in 1..Len(b) /\ c[i] = b[i - Len(a)]
  <2>1. i - Len(a) \in 1..Len(b) /\ Len(a) + (i - Len(a)) = i
    BY <1>1, <1>2
  <2>2. QED
    BY <1>1, <2>1
<1>3. \A i \in 1..Len(a) : i \in 1..Len(c)
  BY <1>1
<1>4. \A i \in 1..Len(b) : Len(a) + i \in 1..Len(c)
  BY <1>1
<1>5. Among(x, c) <=> Among(x, a) \/ Among(x, b)
  BY <1>1, <1>2, <1>3, <1>4 DEF Among
<1>6. QED
  BY <1>5 DEF c

(* The first rule of `server` allows everything, each later one excludes   *)
(* one of the blocked networks.                                            *)
Excluding(address) ==
    [address |-> address, port |-> Ports, type |-> "TcpUdp", include |-> FALSE]

LEMMA ServerRulesShape ==
    ASSUME NEW l \in BOOLEAN, NEW p \in BOOLEAN
    PROVE  \E h \in Seq(Rule) :
             /\ ServerRules(l, p) = AllowAll \o h
             /\ \A x : Among(x, h) <=> \/ l /\ x = Excluding(Loopback)
                                       \/ p /\ x = Excluding(PrivateNet)
<1> DEFINE a == Block(l, Loopback)
           b == Block(p, PrivateNet)
<1>1. /\ a \in Seq(Rule) /\ Len(a) = (IF l THEN 1 ELSE 0)
      /\ l => a[1] = Excluding(Loopback)
  BY BlockIsRules DEF Excluding, AddressFilters
<1>2. /\ b \in Seq(Rule) /\ Len(b) = (IF p THEN 1 ELSE 0)
      /\ p => b[1] = Excluding(PrivateNet)
  BY BlockIsRules DEF Excluding, AddressFilters
<1>3. AllowAll \in Seq(Rule)
  BY AllowAllIsRules
<1>4. ServerRules(l, p) = AllowAll \o (a \o b)
  <2> HIDE DEF a, b
  <2>1. (AllowAll \o a) \o b = AllowAll \o (a \o b)
    BY <1>1, <1>2, <1>3
  <2>2. QED
    BY <2>1 DEF ServerRules, a, b
<1> HIDE DEF a, b
<1>5. ASSUME NEW x
      PROVE  Among(x, a \o b) <=> \/ l /\ x = Excluding(Loopback)
                                  \/ p /\ x = Excluding(PrivateNet)
  <2>1. Among(x, a) <=> l /\ x = Excluding(Loopback)
    BY <1>1 DEF Among
  <2>2. Among(x, b) <=> p /\ x = Excluding(PrivateNet)
    BY <1>2 DEF Among
  <2>3. QED
    BY <1>1, <1>2, <2>1, <2>2, ConcatElements
<1>6. a \o b \in Seq(Rule)
  BY <1>1, <1>2, Concat
<1>7. QED
  BY <1>4, <1>5, <1>6

(* main, --localhost-block and --private-network-block.                    *)
THEOREM FlagsAreKept == Spec => []FlagsBlock
<1>1. IInv /\ LastMatchDecides => FlagsBlock
  <2> SUFFICES ASSUME IInv, LastMatchDecides, Decided, command.name = "server"
               PROVE  include <=>
                        /\ command.localhost_block => socket_addr.ip \notin Loopback
                        /\ command.private_network_block => socket_addr.ip \notin PrivateNet
    BY DEF FlagsBlock
  <2>1. PICK l \in BOOLEAN, p \in BOOLEAN :
           command = Server(l, p) /\ filters = ServerRules(l, p)
    BY DEF IInv, BuiltFromOptions
  <2>2. command.localhost_block = l /\ command.private_network_block = p
    BY <2>1 DEF Server
  <2>3. PICK h \in Seq(Rule) :
           /\ filters = AllowAll \o h
           /\ \A x : Among(x, h) <=> \/ l /\ x = Excluding(Loopback)
                                     \/ p /\ x = Excluding(PrivateNet)
    BY <2>1, ServerRulesShape
  <2>4. socket_addr.ip \in Hosts /\ socket_addr.port \in Ports /\ port_type \in {"Tcp", "Udp"}
    BY DEF IInv
  <2> DEFINE N == Len(filters)
             M == Len(h)
  <2>5. /\ N = 1 + M /\ M \in Nat
        /\ filters[1] = AllowAll[1]
        /\ \A i \in 1..M : filters[1 + i] = h[i]
    <3>1. AllowAll \in Seq(Rule) /\ Len(AllowAll) = 1
      BY AllowAllIsRules
    <3>2. /\ Len(AllowAll \o h) = 1 + Len(h) /\ Len(h) \in Nat
          /\ (AllowAll \o h)[1] = AllowAll[1]
          /\ \A i \in 1..Len(h) : (AllowAll \o h)[1 + i] = h[i]
      BY <3>1, Cons, Zenon
    <3>3. QED
      BY <2>3, <3>2, Zenon
  <2> HIDE DEF N, M
  <2>6. Matches(filters[1]) /\ filters[1].include
    BY <2>4, <2>5 DEF AllowAll, Matches, TypeMatches
  <2>7. \A i \in 2..N : i - 1 \in 1..M /\ filters[i] = h[i - 1]
    BY <2>5
  <2>8. \A i \in 1..M : 1 + i \in 2..N
    BY <2>5
  <2>9. \A i \in 1..M : \/ l /\ h[i] = Excluding(Loopback)
                        \/ p /\ h[i] = Excluding(PrivateNet)
    BY <2>3 DEF Among, M
  <2>10. \A i \in 2..N : ~filters[i].include
    BY <2>7, <2>9 DEF Excluding
  <2> DEFINE Blocked == (l /\ socket_addr.ip \in Loopback) \/ (p /\ socket_addr.ip \in PrivateNet)
  <2>11. ASSUME NEW i \in 2..N, Matches(filters[i]) PROVE Blocked
    BY <2>7, <2>9, <2>11 DEF Excluding, Matches
  <2>12. ASSUME Blocked PROVE \E i \in 2..N : Matches(filters[i])
    <3>1. PICK x \in {Excluding(Loopback), Excluding(PrivateNet)} : Among(x, h) /\ Matches(x)
      BY <2>3, <2>4, <2>12 DEF Excluding, Matches, TypeMatches
    <3>2. PICK i \in 1..M : h[i] = x
      BY <3>1 DEF Among, M
    <3>3. QED
      BY <2>5, <2>8, <3>1, <3>2
  <2>13. AllowedBy(N) <=> \A i \in 2..N : ~Matches(filters[i])
    <3>1. ASSUME AllowedBy(N), NEW k \in 2..N, Matches(filters[k])
          PROVE  FALSE
      <4>1. PICK i \in 1..N :
               /\ Matches(filters[i]) /\ filters[i].include
               /\ \A j \in (i + 1)..N : Matches(filters[j]) => filters[j].include
        BY <3>1 DEF AllowedBy
      <4>2. i = 1
        BY <2>5, <2>10, <4>1
      <4>3. QED
        BY <2>10, <3>1, <4>1, <4>2
    <3>2. ASSUME \A i \in 2..N : ~Matches(filters[i])
          PROVE  AllowedBy(N)
      <4>1. 1 \in 1..N /\ 1 + 1 = 2
        BY <2>5
      <4>2. QED
        BY <2>6, <3>2, <4>1 DEF AllowedBy
    <3>3. QED
      BY <3>1, <3>2
  <2>14. include <=> AllowedBy(N)
    BY DEF LastMatchDecides, N
  <2>15. (\A i \in 2..N : ~Matches(filters[i])) <=> ~Blocked
    BY <2>11, <2>12
  <2> HIDE DEF Blocked
  <2>16. include <=> ~Blocked
    BY <2>13, <2>14, <2>15
  <2>17. QED
    BY <2>2, <2>16 DEF Blocked
<1>2. QED
  BY <1>1, LoopInvariant, LastRuleDecides, PTL

(* The rules of one option of `forward` match its ports on localhost.      *)
LEMMA PortRulesMatch ==
    ASSUME NEW ports \in PortList, NEW type \in PortTypes,
           socket_addr \in [ip : Hosts, port : Ports]
    PROVE  /\ \A x : Among(x, PortRules(ports, type)) => x.include
           /\ (\E x : Among(x, PortRules(ports, type)) /\ Matches(x))
                 <=> /\ type \in {port_type, "TcpUdp"}
                     /\ socket_addr.ip \in Loopback
                     /\ socket_addr.port \in ElementsOf(ports)
<1> DEFINE R == PortRules(ports, type)
           rule(i) == [address |-> Loopback, port |-> {ports[i]}, type |-> type, include |-> TRUE]
<1>1. Len(R) = Len(ports) /\ \A i \in 1..Len(ports) : R[i] = rule(i)
  BY PortRulesAreRules
<1> HIDE DEF R
<1>2. \A x : Among(x, R) <=> \E i \in 1..Len(ports) : x = rule(i)
  BY <1>1 DEF Among
<1>3. ASSUME NEW i \in 1..Len(ports)
      PROVE  /\ rule(i).include
             /\ Matches(rule(i)) <=> /\ type \in {port_type, "TcpUdp"}
                                     /\ socket_addr.ip \in Loopback
                                     /\ socket_addr.port = ports[i]
  BY DEF Matches, TypeMatches
<1> HIDE DEF rule
<1>4. (\E x : Among(x, R) /\ Matches(x)) <=> \E i \in 1..Len(ports) : Matches(rule(i))
  BY <1>2
<1>5. \A x : Among(x, R) => x.include
  BY <1>2, <1>3
<1>6. socket_addr.port \in ElementsOf(ports)
         <=> \E i \in 1..Len(ports) : socket_addr.port = ports[i]
  BY DEF ElementsOf
<1>7. QED
  BY <1>3, <1>4, <1>5, <1>6 DEF R

(* connect_vec_merging_forward.                                            *)
THEOREM ForwardIsExact == Spec => []OnlySpecifiedPorts
<1>1. IInv /\ LastMatchDecides => OnlySpecifiedPorts
  <2> SUFFICES ASSUME IInv, LastMatchDecides, Decided, command.name = "forward"
               PROVE  include <=>
                        /\ socket_addr.ip \in Loopback
                        /\ socket_addr.port \in ElementsOf(command.both_port)
                             \cup ElementsOf(IF port_type = "Tcp" THEN command.tcp_port
                                                                  ELSE command.udp_port)
    BY DEF OnlySpecifiedPorts
  <2>1. PICK t \in PortList, u \in PortList, b \in PortList :
           command = Forward(t, u, b) /\ filters = ForwardRules(t, u, b)
    BY DEF IInv, BuiltFromOptions
  <2>2. command.tcp_port = t /\ command.udp_port = u /\ command.both_port = b
    BY <2>1 DEF Forward
  <2> DEFINE A == PortRules(t, "Tcp")
             B == PortRules(u, "Udp")
             C == PortRules(b, "TcpUdp")
  <2>3. A \in Seq(Rule) /\ B \in Seq(Rule) /\ C \in Seq(Rule)
    BY PortRulesAreRules DEF PortTypes
  <2>4. filters = (A \o B) \o C
    BY <2>1 DEF ForwardRules
  <2>5. socket_addr \in [ip : Hosts, port : Ports]
    BY DEF IInv
  <2>6. /\ \A x : Among(x, A) => x.include
        /\ \A x : Among(x, B) => x.include
        /\ \A x : Among(x, C) => x.include
    BY <2>5, PortRulesMatch DEF PortTypes
  <2>7. /\ (\E x : Among(x, A) /\ Matches(x))
              <=> /\ "Tcp" \in {port_type, "TcpUdp"} /\ socket_addr.ip \in Loopback
                  /\ socket_addr.port \in ElementsOf(t)
        /\ (\E x : Among(x, B) /\ Matches(x))
              <=> /\ "Udp" \in {port_type, "TcpUdp"} /\ socket_addr.ip \in Loopback
                  /\ socket_addr.port \in ElementsOf(u)
        /\ (\E x : Among(x, C) /\ Matches(x))
              <=> /\ "TcpUdp" \in {port_type, "TcpUdp"} /\ socket_addr.ip \in Loopback
                  /\ socket_addr.port \in ElementsOf(b)
    BY <2>5, PortRulesMatch DEF PortTypes
  <2> HIDE DEF A, B, C
  <2>8. ASSUME NEW x
        PROVE  Among(x, filters) <=> Among(x, A) \/ Among(x, B) \/ Among(x, C)
    <3>1. A \o B \in Seq(Rule)
      BY <2>3, Concat
    <3>2. Among(x, (A \o B) \o C) <=> Among(x, A \o B) \/ Among(x, C)
      BY <2>3, <3>1, ConcatElements
    <3>3. Among(x, A \o B) <=> Among(x, A) \/ Among(x, B)
      BY <2>3, ConcatElements
    <3>4. QED
      BY <2>4, <3>2, <3>3
  <2>9. \A i \in 1..Len(filters) : filters[i].include
    <3>1. \A i \in 1..Len(filters) : Among(filters[i], filters)
      BY DEF Among
    <3>2. QED
      BY <2>6, <2>8, <3>1
  <2>10. (\E i \in 1..Len(filters) : Matches(filters[i]))
            <=> \E x : Among(x, filters) /\ Matches(x)
    BY DEF Among
  <2>11. AllowedBy(Len(filters)) <=> \E i \in 1..Len(filters) : Matches(filters[i])
    <3>1. Len(filters) \in Nat
      BY DEF IInv
    <3>2. \A i \in 1..Len(filters) : \A j \in (i + 1)..Len(filters) : j \in 1..Len(filters)
      BY <3>1
    <3>3. QED
      BY <2>9, <3>2 DEF AllowedBy
  <2>12. include <=> AllowedBy(Len(filters))
    BY DEF LastMatchDecides
  <2>13. port_type \in {"Tcp", "Udp"}
    BY DEF IInv
  <2>14. QED
    BY <2>2, <2>7, <2>8, <2>10, <2>11, <2>12, <2>13
<1>2. QED
  BY <1>1, LoopInvariant, LastRuleDecides, PTL

=============================================================================
