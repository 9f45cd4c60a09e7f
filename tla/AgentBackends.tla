---------------------------- MODULE AgentBackends ----------------------------
(***************************************************************************)
(* What each discovery backend of the scanner agent reports for a target.  *)
(*                                                                         *)
(* The network is a record w: which hosts answer nmap, SNMP, NetBIOS,      *)
(* mDNS and DNS, what their SNMP tables hold, and the DHCP lease file.     *)
(* An address is a number, a CIDR the set of its addresses, and a target   *)
(* is [kind, ips], where kind tells a bare address from a CIDR.  A field   *)
(* of an observation holds the source that supplied it in place of the     *)
(* text, so that who won a merge can be seen.                              *)
(***************************************************************************)
EXTENDS Integers, SequencesExt, FiniteSetsExt

\* The elements of s that are in S, in the order of s.
Within(s, S) == FoldLeft(LAMBDA acc, x : IF x \in S THEN Append(acc, x) ELSE acc, <<>>, s)

\* The numbers of a finite set from the lowest up.
Ascending(S) == Within([n \in 1..Max(S \cup {0}) |-> n], S)

-----------------------------------------------------------------------------
(* Observations and how they merge                                         *)

\* An observation of ip by src that fills the fields and finds the ports given.
Observation(ip, src, fields, ports) ==
  [ip |-> ip, val |-> [f \in fields |-> src], ports |-> [p \in ports |-> src], ev |-> <<src>>]

\* What base lacks, taken from add: scalar fields by name, services by port.
mergeServices(base, add) ==
  [x \in DOMAIN base \cup DOMAIN add |-> IF x \in DOMAIN base THEN base[x] ELSE add[x]]

\* The later source wins.
mergeIntoLast(base, add) ==
  [base EXCEPT !.val = mergeServices(add.val, @), !.ports = mergeServices(@, add.ports),
               !.ev = @ \o add.ev]

mergeInto(base, add) ==
  [base EXCEPT !.val = mergeServices(@, add.val), !.ports = mergeServices(@, add.ports),
               !.ev = @ \o add.ev]

mergeNext(acc, obs) ==
  IF \E i \in DOMAIN acc : acc[i].ip = obs.ip
  THEN [i \in DOMAIN acc |-> IF acc[i].ip = obs.ip THEN mergeInto(acc[i], obs) ELSE acc[i]]
  ELSE Append(acc, obs)

mergeObservations(obs) == FoldLeft(mergeNext, <<>>, obs)

observedIPs(obs) == [i \in DOMAIN obs |-> obs[i].ip]

\* Deduplication by address inside one pass: the first sighting wins.
addFirst(acc, obs) == IF \E i \in DOMAIN acc : acc[i].ip = obs.ip THEN acc ELSE Append(acc, obs)

-----------------------------------------------------------------------------
(* Targets                                                                 *)

HostTarget(ip) == [kind |-> "host", ips |-> {ip}]
TargetIP(t)    == CHOOSE ip \in t.ips : TRUE

hostTargets(ts)   == LET hs == Within(ts, {t \in ToSet(ts) : t.kind = "host"})
                     IN  [i \in DOMAIN hs |-> TargetIP(hs[i])]
addHost(acc, h)   == IF Contains(acc, h) THEN acc ELSE Append(acc, h)
unionHosts(a, b)  == FoldLeft(addHost, <<>>, a \o b)
scopeFromTargets(ts) == UNION {ts[i].ips : i \in DOMAIN ts}

-----------------------------------------------------------------------------
(* Egress planning for nmap.  e = [pin, mode, net]: is a source interface  *)
(* or address configured, the pin mode, the source subnet ({} if unknown). *)

ParsePinMode(s) == IF s \in {"always", "off"} THEN s ELSE "auto"

classifyAdjacency(t, net) ==
  CASE net = {} -> "routed"
    [] t.ips \subseteq net -> "local"
    [] t.kind = "cidr" /\ net \subseteq t.ips -> "straddle"
    [] OTHER -> "routed"

planEgress(e, ts) ==
  LET mode  == ParsePinMode(e.mode)
      near  == {t \in ToSet(ts) : classifyAdjacency(t, e.net) = "local"}
      local == Within(ts, near)
      other == Within(ts, ToSet(ts) \ near)
      Set(s, pinned) == IF s = <<>> THEN <<>> ELSE <<[targets |-> s, pinned |-> pinned]>>
  IN  IF ~e.pin \/ mode = "off" THEN Set(ts, FALSE)
      ELSE IF mode = "always" THEN Set(ts, TRUE)
      ELSE Set(local, TRUE) \o Set(other, FALSE)

planNotices(e, ts) ==
  IF ~e.pin \/ ParsePinMode(e.mode) # "auto" THEN <<>>
  ELSE LET st == Within(ts, {t \in ToSet(ts) : classifyAdjacency(t, e.net) = "straddle"})
       IN  [i \in DOMAIN st |-> "straddle"]

setHasRouted(ts, net) == \E i \in DOMAIN ts : classifyAdjacency(ts[i], net) # "local"

\* Why a set found nobody; nothing to explain when no pin is configured.
zeroHostNotice(e, set) ==
  IF ~e.pin THEN <<>>
  ELSE IF set.pinned /\ setHasRouted(set.targets, e.net) THEN <<"mismatch">>
  ELSE IF ~set.pinned THEN <<"unpinned">> ELSE <<"empty">>

\* The network's side: replies to probes pinned across a router are lost.
Alive(w, set) ==
  {ip \in w.up \cap scopeFromTargets(set.targets) : set.pinned => ip \in w.egress.net}

\* Host discovery reports a MAC (with its vendor as evidence) on the source segment only;
\* the service scan reports ports and the OS.
parseNmapXML(w, ips, stage) ==
  LET s == Ascending(ips)
      Fields(ip) == CASE stage = 2 -> {"os"}
                      [] ip \in w.egress.net -> {"mac"}
                      [] OTHER -> {}
      Ports(ip)  == IF stage = 2 THEN w.open[ip] ELSE {}
      Host(ip)   == [Observation(ip, <<"nmap", stage>>, Fields(ip), Ports(ip))
                       EXCEPT !.ev = IF "mac" \in Fields(ip) THEN @ ELSE <<>>]
  IN  [i \in DOMAIN s |-> Host(s[i])]

-----------------------------------------------------------------------------
(* SNMP.  A device is [sys, addrs, mac, port, pvid, ent, arp, cdp, lldp,   *)
(* unread]: the system-group values it has, its address rows               *)
(* <<ip, ifIndex>>, the interfaces with a usable MAC, bridge port ->       *)
(* ifIndex, bridge port -> VLAN, ENTITY-MIB rows, the ARP, CDP and LLDP    *)
(* tables, and which of these three cannot be walked.  w.snmp is defined   *)
(* on the devices that answer.                                             *)

Answers(w, t) == t.kind = "host" /\ TargetIP(t) \in DOMAIN w.snmp

\* The 802.1Q VLAN of each interface: PVIDs joined through the bridge ports, the last
\* port of an interface wins.
walkVLANs(dev) ==
  LET usable == {p \in DOMAIN dev.port \cap DOMAIN dev.pvid : dev.pvid[p] > 0}
  IN  [i \in {dev.port[p] : p \in usable} |-> dev.pvid[Max({p \in usable : dev.port[p] = i})]]

\* The row whose serial identifies the unit, 0 for none: the lowest chassis row with a usable
\* serial, or else the lowest row with one.
chassisSerial(ent) ==
  LET usable  == {i \in DOMAIN ent : ent[i].usable}
      chassis == {i \in usable : ent[i].chassis}
  IN  IF chassis # {} THEN Min(chassis) ELSE IF usable # {} THEN Min(usable) ELSE 0

\* The decoded view of a device that answers; every table but the system group is optional.
walkInventory(dev) ==
  [sys |-> dev.sys, addrs |-> dev.addrs, mac |-> dev.mac, vlan |-> walkVLANs(dev),
   serial |-> chassisSerial(dev.ent)]

\* One owned address: identity of the device, MAC and VLAN of its interface (0 if unknown).
inventoryObservation(inv, row, ip) ==
  LET own == {f \in {"mac"} : row[2] \in inv.mac} \cup {f \in {"vlan"} : row[2] \in DOMAIN inv.vlan}
             \cup {f \in {"serial"} : inv.serial # 0}
      obs == Observation(row[1], <<"inventory", ip>>, inv.sys \cup own, {})
  IN  [obs EXCEPT !.val = [f \in DOMAIN @ |-> CASE f = "vlan"   -> <<"vlan", inv.vlan[row[2]]>>
                                                [] f = "serial" -> <<"serial", ip, inv.serial>>
                                                [] OTHER        -> @[f]]]

\* The in-scope addresses of the device, or else the address it was asked at.
discoverInventory(w, t, scope) ==
  IF ~Answers(w, t) THEN [obs |-> <<>>, err |-> TRUE]
  ELSE LET inv  == walkInventory(w.snmp[TargetIP(t)])
           own  == Within(inv.addrs, {r \in ToSet(inv.addrs) : r[1] \in scope})
           back == IF TargetIP(t) \in scope THEN <<<<TargetIP(t), 0>>>> ELSE <<>>
           rows == IF own # <<>> THEN own ELSE back
       IN  [obs |-> [i \in DOMAIN rows |-> inventoryObservation(inv, rows[i], TargetIP(t))],
            err |-> FALSE]

\* Rows of the ARP cache are [ip, mac]; one without six octets, or all zero, is incomplete.
macFromPDU(r)     == r.mac = "complete"
parseARPPDUs(dev) == Within(dev.arp, {r \in ToSet(dev.arp) : macFromPDU(r)})

\* ARP without the allowlist.
discoverARPAll(w, t, scope) ==
  IF ~Answers(w, t) \/ "arp" \in w.snmp[TargetIP(t)].unread THEN [obs |-> <<>>, err |-> TRUE]
  ELSE LET rows == parseARPPDUs(w.snmp[TargetIP(t)])
       IN  [obs |-> [i \in DOMAIN rows |-> Observation(rows[i].ip, <<"arp", TargetIP(t)>>, {"mac"}, {})],
            err |-> FALSE]

discoverARP(w, t, scope) ==
  IF ~Answers(w, t) \/ "arp" \in w.snmp[TargetIP(t)].unread THEN [obs |-> <<>>, err |-> TRUE]
  ELSE LET all  == parseARPPDUs(w.snmp[TargetIP(t)])
           rows == Within(all, {r \in ToSet(all) : r.ip \in scope})
       IN  [obs |-> [i \in DOMAIN rows |-> Observation(rows[i].ip, <<"arp", TargetIP(t)>>, {"mac"}, {})],
            err |-> FALSE]

\* Rows of a neighbour table are [key, ip, cols]; ip is 0 without an IPv4 management address,
\* and the first address of a neighbour counts.
hasManAddr(r) == r.ip # 0
firstOfKey(acc, r) == IF \E i \in DOMAIN acc : acc[i].key = r.key THEN acc ELSE Append(acc, r)
neighbours(rows) == FoldLeft(firstOfKey, <<>>, Within(rows, {r \in ToSet(rows) : hasManAddr(r)}))
neighbour(r, proto, ip) == Observation(r.ip, <<proto, ip>>, r.cols, {})

collectCDP(dev, ip) ==
  LET rows == neighbours(dev.cdp)
  IN  IF "cdp" \in dev.unread THEN <<>> ELSE [i \in DOMAIN rows |-> neighbour(rows[i], "cdp", ip)]
collectLLDP(dev, ip) ==
  LET rows == neighbours(dev.lldp)
  IN  IF "lldp" \in dev.unread THEN <<>> ELSE [i \in DOMAIN rows |-> neighbour(rows[i], "lldp", ip)]

\* A failure only when neither table could be read.
walkNeighbors(dev, ip) ==
  [obs |-> collectCDP(dev, ip) \o collectLLDP(dev, ip), err |-> {"cdp", "lldp"} \subseteq dev.unread]

discoverNeighbors(w, t, scope) ==
  IF ~Answers(w, t) THEN [obs |-> <<>>, err |-> TRUE]
  ELSE [walkNeighbors(w.snmp[TargetIP(t)], TargetIP(t))
          EXCEPT !.obs = Within(@, {o \in ToSet(@) : o.ip \in scope})]

-----------------------------------------------------------------------------
(* Names and DNS: one address at a time; a CIDR cannot be asked.           *)

\* nb and md: did NetBIOS and mDNS yield a name.  NetBIOS leads, mDNS fills in.
nameObservation(ip, nb, md) ==
  [Observation(ip, <<IF nb THEN "netbios" ELSE "mdns">>, {"hostname"}, {})
     EXCEPT !.ev = (IF nb THEN <<<<"netbios">>>> ELSE <<>>) \o (IF md THEN <<<<"mdns">>>> ELSE <<>>)]

nameLookup(t, scope, nb, md) ==
  IF t.kind # "host" THEN [obs |-> <<>>, err |-> TRUE]
  ELSE IF TargetIP(t) \notin scope THEN [obs |-> <<>>, err |-> FALSE]
  ELSE IF nb \/ md THEN [obs |-> <<nameObservation(TargetIP(t), nb, md)>>, err |-> FALSE]
  ELSE [obs |-> <<>>, err |-> TRUE]

\* A PTR record names the host whether or not the forward lookup confirms it.
dnsObservation(ip, confirmed) ==
  [Observation(ip, <<"dns">>, {"hostname"}, {}) EXCEPT !.ev = <<<<"dns", confirmed>>>>]

dnsLookup(t, scope, ptr, confirmed) ==
  IF t.kind # "host" THEN [obs |-> <<>>, err |-> TRUE]
  ELSE IF TargetIP(t) \notin scope THEN [obs |-> <<>>, err |-> FALSE]
  ELSE IF ptr THEN [obs |-> <<dnsObservation(TargetIP(t), confirmed)>>, err |-> FALSE]
  ELSE [obs |-> <<>>, err |-> TRUE]

-----------------------------------------------------------------------------
(* DHCP.  w.leases = [file, isc, rows]: is the lease file readable, its    *)
(* format, its rows [ip, active, fields] in the order they were appended.  *)

putLease(acc, r) ==
  IF \E i \in DOMAIN acc : acc[i].ip = r.ip
  THEN [i \in DOMAIN acc |-> IF acc[i].ip = r.ip THEN r ELSE acc[i]]
  ELSE Append(acc, r)

\* The last row of an address wins; in the ISC format, the last active one.
parseDnsmasqLeases(rows) == FoldLeft(putLease, <<>>, rows)
parseISCLeases(rows)     == parseDnsmasqLeases(Within(rows, {r \in ToSet(rows) : r.active}))
parseLeases(l)           == IF l.isc THEN parseISCLeases(l.rows) ELSE parseDnsmasqLeases(l.rows)

discoverDHCP(w, ts) ==
  IF w.leases.file # "ok" THEN [obs |-> <<>>, note |-> {w.leases.file}]
  ELSE LET all  == parseLeases(w.leases)
           rows == Within(all, {r \in ToSet(all) : r.ip \in scopeFromTargets(ts)})
       IN  [obs |-> [i \in DOMAIN rows |-> Observation(rows[i].ip, <<"dhcp">>, rows[i].fields, {})],
            note |-> {}]
==============================================================================
