----------------------------- MODULE MCSessions -----------------------------
(* Two command lines of `connect`, and two session ids: -t 443:8443 has    *)
(* three connections, so that ids wrap, and -b 443:8443 has two accept     *)
(* loops that race for the ids of two connections.                         *)
EXTENDS Sessions

Ascii(s) == \A i \in DOMAIN s : s[i] < 128
Https == {<<443, 8443>>}
TcpOrBoth == {[t |-> Https, u |-> {}, b |-> {}], [t |-> {}, u |-> {}, b |-> Https]}
=============================================================================
