---------------------------- MODULE MCCombinedScan ----------------------------
(* Small networks and jobs for CombinedScan.                               *)
EXTENDS CombinedScan, TLC

\* Addresses 1 and 2 are the scanned range, 3 an operator-listed host behind a router, 4 is
\* outside the allowlist.  1 is a switch that knows everybody, 3 a router.
NoTable == [x \in {} |-> 0]
Switch ==
  [sys |-> {"hostname", "os"}, addrs |-> <<<<1, 7>>, <<4, 8>>>>, mac |-> {7},
   port |-> (1 :> 7) @@ (2 :> 7) @@ (3 :> 8), pvid |-> (1 :> 10) @@ (2 :> 20) @@ (3 :> 30),
   ent |-> (1 :> [chassis |-> FALSE, usable |-> TRUE]) @@ (2 :> [chassis |-> TRUE, usable |-> TRUE]),
   arp |-> <<[ip |-> 2, mac |-> "complete"], [ip |-> 4, mac |-> "complete"], [ip |-> 3, mac |-> "zero"]>>,
   cdp |-> <<>>, unread |-> {"cdp"},
   lldp |-> <<[key |-> 1, ip |-> 3, cols |-> {"hostname", "mac"}],
              [key |-> 1, ip |-> 2, cols |-> {"os"}], [key |-> 2, ip |-> 4, cols |-> {"os"}],
              [key |-> 3, ip |-> 0, cols |-> {"os"}]>>]
Router ==
  [sys |-> {"hostname"}, addrs |-> <<<<4, 1>>>>, mac |-> {1}, port |-> NoTable, pvid |-> NoTable,
   ent |-> (1 :> [chassis |-> TRUE, usable |-> FALSE]), arp |-> <<>>, unread |-> {"arp"},
   cdp |-> <<[key |-> 1, ip |-> 1, cols |-> {"os"}]>>,
   lldp |-> <<[key |-> 1, ip |-> 1, cols |-> {"hostname", "mac"}]>>]
Mute == [Router EXCEPT !.sys = {}, !.unread = {"cdp", "lldp"}, !.addrs = <<<<3, 1>>>>]

Leases(file, isc) ==
  [file |-> file, isc |-> isc,
   rows |-> <<[ip |-> 2, active |-> TRUE, fields |-> {"mac", "hostname"}],
              [ip |-> 4, active |-> TRUE, fields |-> {"mac"}],
              [ip |-> 2, active |-> FALSE, fields |-> {"mac"}]>>]

Range12 == [kind |-> "cidr", ips |-> {1, 2}]
Net(type, up, snmp, names, mode, isc) ==
  [type |-> type, targets |-> <<Range12, HostTarget(3)>>, allowed |-> {1, 2, 3}, v2c |-> TRUE,
   egress |-> [pin |-> mode # "none", mode |-> mode, net |-> {1, 2}],
   up |-> up, open |-> [ip \in IPs |-> {22}], snmp |-> snmp,
   netbios |-> names, mdns |-> {2, 3}, ptr |-> {3}, forward |-> {},
   leases |-> Leases(IF isc THEN "ok" ELSE "unconfigured", isc)]

Known == (1 :> Switch) @@ (3 :> Router)
\* Who is up, who speaks SNMP, who has a NetBIOS name, how egress is pinned.
Networks ==
  {Net("combined", up, Known, {1}, "auto", TRUE) : up \in {{}, {1, 3}, {1, 2}}}
  \cup {Net("combined", {2}, snmp, {1, 2}, "none", FALSE) : snmp \in {NoTable, (3 :> Mute)}}
\* Jobs routed to nmap or to one backend, egress that is pinned for all or straddles the source
\* subnet, an SNMP version that is not supported, an answer from every host.
Jobs ==
  {Net(type, {1, 2}, Known, {1}, "auto", isc) : isc \in BOOLEAN,
     type \in Labels \cup NmapOnly \cup {"dhcp_leases"}}
  \cup {[Net("service_detection", up, Known, {}, mode, FALSE) EXCEPT !.egress.net = net] :
          up \in {{}, {1, 2, 3}}, mode \in {"always", "off", "auto"}, net \in {{}, {1}, {1, 2, 3}}}
  \cup {[Net(type, {2}, Known, {}, "none", TRUE) EXCEPT !.v2c = FALSE, !.leases.isc = FALSE] :
          type \in {"combined", "arp_table"}}
MCWorlds == Networks \cup Jobs

\* One job of every type, and combined ones where a listed router, only a device that leaves tables
\* unread, or nobody speaks SNMP; in the last there are three hosts, one more than workers.
LiveWorlds ==
  {Net(type, {1, 2}, Known, {1}, "auto", TRUE) : type \in Labels \cup NmapOnly \cup {"dhcp_leases"}}
  \cup {Net("combined", {}, Known, {1}, "auto", TRUE)}
  \cup {Net("combined", {2}, (3 :> Mute), {1, 2}, "none", FALSE)}
  \cup {Net("combined", {1, 2}, NoTable, {}, "none", FALSE)}
==============================================================================
