---------------------------- MODULE CombinedScan ----------------------------
(***************************************************************************)
(* One scan job inside the agent.  A combined job runs nmap over the       *)
(* egress sets, then enriches the hosts it found: a pool of workers takes  *)
(* each host through SNMP, names and DNS while the DHCP leases are read,   *)
(* and the findings are merged per address.  A job of another type is      *)
(* routed to nmap or to one backend over the targets as listed.            *)
(*                                                                         *)
(* The job's context may end at any moment.  Passes look at it between     *)
(* targets, nmap is killed by it, SNMP walks and the lease file ignore it. *)
(***************************************************************************)
EXTENDS AgentBackends

CONSTANTS
  IPs,            \* addresses
  enrichWorkers,  \* hosts enriched at once
  Worlds          \* networks and jobs (see AgentBackends; also type, targets, allowed, v2c)

ASSUME ScanAssumption == enrichWorkers \in Nat \ {0} /\ IPs \subseteq Nat \ {0} /\ IsFiniteSet(IPs)

VARIABLES
  w,         \* the network and the job
  cancelled, \* the job's context has ended
  stage,     \* where Discover is
  nm,        \* nmap: [set, alive, obs, notes], obs as reported and not merged yet
  hosts,     \* hosts to enrich, in order
  next,      \* the host the loop is at
  wk,        \* wk[i]: the worker of host i; 0 stands for a job routed to one backend
  dhcp,      \* the DHCP goroutine: [pc, obs]
  whole,     \* noticeCollector.wholePass
  count      \* noticeCollector.perTarget

vars == <<w, cancelled, stage, nm, hosts, next, wk, dhcp, whole, count>>

-----------------------------------------------------------------------------
Passes   == <<"snmp_inventory", "arp_table", "lldp_cdp", "name_lookup", "dns_lookup">>
SNMPs    == {"snmp_inventory", "arp_table", "lldp_cdp"}
NmapOnly == {"host_discovery", "service_detection"}
Labels   == {Passes[i] : i \in DOMAIN Passes}
Scope    == w.allowed

\* What the tables of a device hold, and the networks and jobs there are: a job reaches the
\* discoverers only with targets inside its allowlist (ValidateJobTargets).
Target    == {HostTarget(ip) : ip \in IPs} \cup [kind : {"cidr"}, ips : (SUBSET IPs) \ {{}}]
Fields    == {"mac", "vendor", "hostname", "os", "vlan", "serial", "object_id"}
Neighbour == [key : Nat, ip : Nat, cols : SUBSET Fields]
Lease     == [ip : Nat, active : BOOLEAN, fields : SUBSET Fields]
IsTable(f, V) == DOMAIN f \subseteq Nat /\ IsFiniteSet(DOMAIN f) /\ f \in [DOMAIN f -> V]
IsDevice(d) ==
  /\ d.sys \subseteq Fields \ {"mac", "vlan", "serial"} /\ d.addrs \in Seq(Nat \X Nat)
  /\ IsTable(d.port, Nat) /\ IsTable(d.pvid, Nat) /\ IsTable(d.ent, [chassis : BOOLEAN, usable : BOOLEAN])
  /\ d.arp \in Seq([ip : Nat, mac : {"complete", "short", "zero"}]) /\ d.cdp \in Seq(Neighbour) /\ d.lldp \in Seq(Neighbour)
IsWorld(x) ==
  /\ x.type \in Labels \cup NmapOnly \cup {"dhcp_leases", "combined"}
  /\ x.targets \in Seq(Target) /\ x.targets # <<>>
  /\ x.allowed \subseteq IPs /\ scopeFromTargets(x.targets) \subseteq x.allowed
  /\ x.open \in [IPs -> SUBSET Nat] /\ x.leases.rows \in Seq(Lease)
  /\ \A ip \in DOMAIN x.snmp : IsDevice(x.snmp[ip])

ASSUME WorldsAssumption == \A x \in Worlds : IsWorld(x)

Idle     == [pc |-> "idle", pass |-> 1, at |-> 1, got |-> <<>>, errs |-> 0, out |-> <<>>]
Slots    == 0..Cardinality(IPs)

Sets       == planEgress(w.egress, w.targets)
Pass(i)    == IF i = 0 THEN w.type ELSE Passes[wk[i].pass]
Targets(i) == IF i = 0 THEN w.targets ELSE <<HostTarget(hosts[i])>>
\* A worker that has finished keeps its place in the semaphore.
RunningHeld == {i \in Slots \ {0} : wk[i].pc # "idle"}
Running    == {i \in Slots \ {0} : wk[i].pc \in {"check", "query"}}

\* The router: combined and nmap types start with nmap, the rest with their backend.
Init ==
  /\ w \in Worlds
  /\ cancelled = FALSE
  /\ stage = IF w.type \in Labels THEN "solo" ELSE IF w.type = "dhcp_leases" THEN "leases" ELSE "alive"
  /\ nm = [set |-> 1, alive |-> {}, obs |-> <<>>, notes |-> planNotices(w.egress, w.targets)]
  /\ hosts = <<>> /\ next = 1
  /\ wk = [i \in Slots |-> IF i = 0 /\ w.type \in Labels THEN [Idle EXCEPT !.pc = "check"] ELSE Idle]
  /\ dhcp = [pc |-> "idle", obs |-> <<>>]
  /\ whole = {} /\ count = [l \in Labels |-> 0]

\* The deadline passes, or the app hangs up.
Cancel ==
  /\ ~cancelled /\ stage \notin {"done", "failed"}
  /\ cancelled' = TRUE
  /\ UNCHANGED <<w, stage, nm, hosts, next, wk, dhcp, whole, count>>

-----------------------------------------------------------------------------
(* nmap: for each egress set who is alive, then services and OS            *)

\* A run over ips reports all of them; or it breaks off, and counts if it reported somebody.
runNmap(ips) ==
  [hosts : IF cancelled THEN {} ELSE {ips}, notes : {<<>>}]
    \cup [hosts : (SUBSET ips) \ {{}}, notes : {<<"nmap_partial">>}]

\* The set is finished with the observations and notices given.
SetDone(obs, notes) ==
  LET zero == IF obs = <<>> THEN zeroHostNotice(w.egress, Sets[nm.set]) ELSE <<>>
      all  == nm.obs \o obs
      done == nm.set = Len(Sets)
      hs   == unionHosts(observedIPs(mergeObservations(all)), hostTargets(w.targets))
  IN  /\ nm' = [nm EXCEPT !.obs = all, !.notes = @ \o zero \o notes,
                          !.set = IF done THEN @ ELSE @ + 1, !.alive = {}]
      /\ IF done /\ w.type = "combined"
         THEN /\ hosts' = hs
              /\ dhcp' = [dhcp EXCEPT !.pc = "run"]
              /\ stage' = IF hs = <<>> THEN "join" ELSE "loop"
              /\ whole' = IF hs = <<>> THEN {<<"enrichment", "no hosts">>} ELSE {}
         ELSE /\ stage' = IF done THEN "done" ELSE "alive"
              /\ UNCHANGED <<hosts, dhcp, whole>>
      /\ UNCHANGED <<w, cancelled, next, wk, count>>

HostDiscovery ==
  /\ stage = "alive"
  /\ \E r \in runNmap(Alive(w, Sets[nm.set])) :
       IF w.type = "host_discovery" \/ r.hosts = {}
       THEN SetDone(parseNmapXML(w, r.hosts, 1), r.notes)
       ELSE /\ nm' = [nm EXCEPT !.alive = r.hosts, !.notes = @ \o r.notes]
            /\ stage' = "services"
            /\ UNCHANGED <<w, cancelled, hosts, next, wk, dhcp, whole, count>>

ServiceScan ==
  /\ stage = "services"
  /\ \E r \in runNmap(nm.alive) :
       SetDone(parseNmapXML(w, nm.alive, 1) \o parseNmapXML(w, r.hosts, 2), r.notes)

\* No usable output: nothing of any set is kept.
NmapFails ==
  /\ stage \in {"alive", "services"}
  /\ stage' = "failed"
  /\ UNCHANGED <<w, cancelled, nm, hosts, next, wk, dhcp, whole, count>>

-----------------------------------------------------------------------------
(* The worker pool                                                         *)

\* ctx.Err() is read before the semaphore is waited for.
NextHost ==
  /\ stage = "loop"
  /\ stage' = IF cancelled \/ next > Len(hosts) THEN "join" ELSE "acquire"
  /\ UNCHANGED <<w, cancelled, nm, hosts, next, wk, dhcp, whole, count>>

StartWorker ==
  /\ stage = "acquire" /\ Cardinality(Running) < enrichWorkers
  /\ wk' = [wk EXCEPT ![next].pc = "check"]
  /\ next' = next + 1
  /\ stage' = "loop"
  /\ UNCHANGED <<w, cancelled, nm, hosts, dhcp, whole, count>>

\* A cancelled scan returns without waiting for its workers.
CollectEarly ==
  /\ stage = "join" /\ (Running = {} \/ cancelled) /\ dhcp.pc = "done"
  /\ stage' = "done"
  /\ UNCHANGED <<w, cancelled, nm, hosts, next, wk, dhcp, whole, count>>

Collect ==
  /\ stage = "join" /\ Running = {} /\ dhcp.pc = "done"
  /\ stage' = "done"
  /\ UNCHANGED <<w, cancelled, nm, hosts, next, wk, dhcp, whole, count>>

\* One line per condition and one per pass with hosts that did not respond.
notices == [whole |-> whole, count |-> count]

\* What Discover returns once stage is "done".  A combined scan collects by host, then DHCP.
Report ==
  [obs |-> CASE w.type \in NmapOnly      -> mergeObservations(nm.obs)
             [] w.type \in Labels        -> wk[0].out
             [] w.type = "dhcp_leases"   -> dhcp.obs
             [] OTHER -> mergeObservations(mergeObservations(nm.obs)
                           \o FlattenSeq([i \in DOMAIN hosts |-> wk[i].out]) \o dhcp.obs),
   notes |-> nm.notes, notices |-> notices]

-----------------------------------------------------------------------------
(* One pass over its targets                                               *)

\* Every SNMP pass is tried on every host.
NextPassAll(p, obs) == p + 1
\* The pass after p that found obs: ARP and neighbours are asked of SNMP speakers only.
NextPass(p, obs) == IF p = 1 /\ obs = <<>> THEN 4 ELSE p + 1

\* runPass returns obs after errs targets failed, and the worker goes on.
EndPass(i, obs, errs) ==
  LET p    == NextPass(wk[i].pass, obs)
      last == i = 0 \/ p > Len(Passes)
  IN  /\ wk' = [wk EXCEPT ![i] = [Idle EXCEPT !.out = wk[i].out \o obs,
                                    !.pass = IF last THEN 1 ELSE p,
                                    !.pc = IF last THEN "done" ELSE "check"]]
      /\ count' = [count EXCEPT ![Pass(i)] = @ + errs]
      /\ stage' = IF i = 0 THEN "done" ELSE stage

\* The version is not supported, or the context has ended: the pass fails as a whole.
PassFails(i, why) ==
  IF i = 0
  THEN /\ stage' = "failed" /\ wk' = [wk EXCEPT ![0].pc = "done"]
       /\ UNCHANGED <<whole, count>>
  ELSE EndPass(i, <<>>, 0) /\ whole' = whole \cup {<<Pass(i), why>>}

CheckContext(i) ==
  /\ wk[i].pc = "check"
  /\ IF Pass(i) \in SNMPs /\ ~w.v2c THEN PassFails(i, "version")
     ELSE IF cancelled THEN PassFails(i, "context")
     ELSE /\ wk' = [wk EXCEPT ![i].pc = "query"]
          /\ UNCHANGED <<stage, whole, count>>
  /\ UNCHANGED <<w, cancelled, nm, hosts, next, dhcp>>

\* The answers to a query; one that runs while the context ends may come back empty.
Answer(kind, t, lost) ==
  CASE kind = "snmp_inventory" -> {discoverInventory(w, t, Scope)}
    [] kind = "arp_table"      -> {discoverARP(w, t, Scope)}
    [] kind = "lldp_cdp"       -> {discoverNeighbors(w, t, Scope)}
    [] kind = "name_lookup"    ->
         {nameLookup(t, Scope, nb, md) : nb \in {t.ips \subseteq w.netbios} \cup lost,
                                         md \in {t.ips \subseteq w.mdns} \cup lost}
    [] kind = "dns_lookup"     ->
         {dnsLookup(t, Scope, ptr, ok) : ptr \in {t.ips \subseteq w.ptr} \cup lost,
                                         ok \in {t.ips \subseteq w.forward} \cup lost}

\* How a pass adds what a target yields: inventory and ARP keep the first per address.
Gather(kind, got, obs) ==
  IF kind \in {"snmp_inventory", "arp_table"} THEN FoldLeft(addFirst, got, obs) ELSE got \o obs

Query(i) ==
  /\ wk[i].pc = "query"
  /\ \E a \in Answer(Pass(i), Targets(i)[wk[i].at], IF cancelled THEN {FALSE} ELSE {}) :
       LET got  == Gather(Pass(i), wk[i].got, a.obs)
           errs == wk[i].errs + IF a.err THEN 1 ELSE 0
       IN  IF wk[i].at = Len(Targets(i))
           THEN EndPass(i, IF Pass(i) = "lldp_cdp" THEN mergeObservations(got) ELSE got, errs)
           ELSE /\ wk' = [wk EXCEPT ![i].pc = "check", ![i].at = @ + 1, ![i].got = got,
                                    ![i].errs = errs]
                /\ UNCHANGED <<stage, count>>
  /\ UNCHANGED <<w, cancelled, nm, hosts, next, dhcp, whole>>

\* The lease file is read once, over the targets as listed.
ReadLeases ==
  LET d == discoverDHCP(w, w.targets)
  IN  /\ dhcp.pc = "run" \/ stage = "leases"
      /\ dhcp' = [pc |-> "done", obs |-> d.obs]
      /\ whole' = whole \cup {<<"dhcp_leases", n>> : n \in d.note}
      /\ stage' = IF stage = "leases" THEN "done" ELSE stage
      /\ UNCHANGED <<w, cancelled, nm, hosts, next, wk, count>>

-----------------------------------------------------------------------------
Main == NmapFails \/ HostDiscovery \/ ServiceScan \/ NextHost \/ StartWorker \/ Collect

Next ==
  \/ Cancel \/ Main \/ ReadLeases
  \/ \E i \in Slots : CheckContext(i) \/ Query(i)

\* Every goroutine is scheduled, every query and every nmap run has a timeout.  Nothing is
\* assumed of the context.
Fairness ==
  /\ WF_vars(Main) /\ WF_vars(ReadLeases)
  /\ \A i \in Slots : WF_vars(CheckContext(i) \/ Query(i))

Spec == Init /\ [][Next]_vars /\ Fairness
-----------------------------------------------------------------------------
(* Properties                                                              *)

\* What the sources say in the order of precedence the code promises ("leading source wins"):
\* nmap, then each host in order (inventory, ARP, neighbours, names, DNS), then DHCP.
PassClaims(kind, h) == LET a == CHOOSE x \in Answer(kind, HostTarget(h), {}) : TRUE
                       IN  IF kind \in SNMPs /\ ~w.v2c THEN <<>> ELSE Gather(kind, <<>>, a.obs)
SpeaksSNMP(h) == w.v2c /\ h \in DOMAIN w.snmp
HostClaims(h) ==
  (IF SpeaksSNMP(h) THEN PassClaims("snmp_inventory", h) \o PassClaims("arp_table", h)
                         \o PassClaims("lldp_cdp", h) ELSE <<>>)
  \o PassClaims("name_lookup", h) \o PassClaims("dns_lookup", h)
Claims == nm.obs \o FlattenSeq([i \in DOMAIN hosts |-> HostClaims(hosts[i])])
                 \o discoverDHCP(w, w.targets).obs

\* What each of the claims c says of ip, the first of a sequence of functions that is defined at
\* a point, and what the claims come to: every field from the first that has it, all evidence.
Said(c, ip, part) == [i \in DOMAIN c |-> IF c[i].ip = ip THEN c[i][part] ELSE <<>>]
Leading(fs)       == [x \in UNION {DOMAIN fs[i] : i \in DOMAIN fs} |->
                        fs[Min({i \in DOMAIN fs : x \in DOMAIN fs[i]})][x]]
Reference(c, ip)  == [ip |-> ip, val |-> Leading(Said(c, ip, "val")),
                      ports |-> Leading(Said(c, ip, "ports")), ev |-> FlattenSeq(Said(c, ip, "ev"))]
Addresses(c) == {c[i].ip : i \in DOMAIN c}

Combined == w.type = "combined"

\* However the workers, the DHCP read and the loop interleave, a combined scan whose context
\* holds returns the same answer: one record per address, every field from the leading source
\* that has it, all evidence in that order, and every host that did not answer counted once
\* per pass it was asked (CombinedDiscoverer.enrich, enrichHost, mergeObservations).
AnswerIndependentOfSchedule ==
  stage = "done" /\ Combined /\ ~cancelled =>
    /\ LET c == Claims
           r == Report.obs
       IN  /\ ToSet(r) = {Reference(c, ip) : ip \in Addresses(c)}
           /\ IsInjective(observedIPs(r))
    /\ notices.count = [l \in Labels |-> Cardinality({i \in DOMAIN hosts :
         CASE l = "snmp_inventory" -> w.v2c /\ ~SpeaksSNMP(hosts[i])
           [] l = "arp_table" -> SpeaksSNMP(hosts[i]) /\ "arp" \in w.snmp[hosts[i]].unread
           [] l = "lldp_cdp"  -> SpeaksSNMP(hosts[i]) /\ {"cdp", "lldp"} \subseteq w.snmp[hosts[i]].unread
           [] l = "name_lookup" -> hosts[i] \notin w.netbios \cup w.mdns
           [] l = "dns_lookup"  -> hosts[i] \notin w.ptr})]

\* Whenever the context ends, what nmap found is returned in full and leads, and no field holds
\* anything but what a source said of that very address.
CoreFindingsKept ==
  stage = "done" /\ Combined =>
    LET c  == ToSet(Claims)
        rs == Report.obs
    IN  /\ Addresses(nm.obs) \subseteq Addresses(rs)
        /\ \A r \in ToSet(rs) :
             LET core == Reference(nm.obs, r.ip).val
             IN  /\ \A f \in DOMAIN core : r.val[f] = core[f]
                 /\ \A f \in DOMAIN r.val : \E o \in c :
                      /\ o.ip = r.ip /\ f \in DOMAIN o.val
                      /\ \/ o.val[f] = r.val[f]
                         \/ f = "hostname" /\ r.ip \in w.mdns /\ r.val[f] = <<"mdns">>

\* No observation, reported or in flight, is about an address outside the job's allowlist:
\* routers and switches list neighbours far beyond it, and the lease file whole networks.
OnlyAllowedReported ==
  Addresses(nm.obs) \cup Addresses(dhcp.obs)
    \cup UNION {Addresses(wk[i].out) \cup Addresses(wk[i].got) : i \in Slots} \subseteq w.allowed

\* At most enrichWorkers hosts are asked at once, and once the job has answered nobody is:
\* the pool is joined even when the context ended in the middle of the loop.
ProbesBounded ==
  /\ Cardinality(Running) <= enrichWorkers
  /\ stage \in {"done", "failed"} => Running = {} /\ dhcp.pc # "run"

\* Every job answers: no pool slot, pass or join waits for ever.
JobAnswers == <>(stage \in {"done", "failed"})
==============================================================================
