--------------------------- MODULE DiscoveryQueue ---------------------------
(***************************************************************************)
(* The review queue between scans and the inventory.  Scan goroutines      *)
(* record observations and, for a trusted agent, import them; operators    *)
(* import one host, import all, or dismiss; meanwhile the inventory itself *)
(* (subnets, addresses, devices, MACs) is edited by hand.                  *)
(*                                                                         *)
(* Reads a handler bases a later write on are steps of their own; a        *)
(* transaction takes effect in the step that commits it, where the foreign *)
(* keys are checked.  A subnet is the set of addresses of its CIDR.  Names,*)
(* OS, service, vendor and VLAN columns are left out.                      *)
(***************************************************************************)
EXTENDS Naturals

CONSTANTS
  IPs,          \* addresses hosts are seen at, ordered
  MACs,         \* MAC addresses
  MaxSubnets,   \* bound on the subnets rows ever created
  MaxAddresses, \* bound on the ip_addresses rows ever created
  MaxDevices,   \* bound on the devices rows ever created
  Scans,        \* goroutines recording the observations of a job
  Operators,    \* concurrent import requests
  MaxEdits,     \* bound on the edits of the inventory by hand
  None          \* SQL NULL

Subnets   == 1 .. MaxSubnets
Addresses == 1 .. MaxAddresses
Devices   == 1 .. MaxDevices

ASSUME QueueAssumption ==
  /\ IPs \subseteq Nat
  /\ MaxEdits \in Nat
  /\ MaxSubnets \in Nat /\ MaxAddresses \in Nat /\ MaxDevices \in Nat
  /\ Scans \cap Operators = {}
  /\ None \notin IPs \cup MACs \cup Subnets \cup Addresses \cup Devices

VARIABLES
  disc,     \* scan_discoveries, keyed by ip; rows are never deleted
  subnet,   \* subnets
  addr,     \* ip_addresses
  dev,      \* devices
  owner,    \* mac_addresses: owner[m] is the device m is recorded on
  proc,     \* proc[p]: the request or goroutine p
  batch,    \* batch[o]: what is left of the list importTargets iterates over
  edits,    \* edits of the inventory by hand so far
  approved, \* history: hosts an operator imported or a trusted agent reported
  edited    \* history: addresses changed by hand

inventory == <<subnet, addr, dev, owner>>
history   == <<approved, edited>>
vars      == <<disc, inventory, proc, batch, edits, history>>

-----------------------------------------------------------------------------
RowState  == {"unused", "live", "deleted"}
Procs     == Scans \cup Operators
Reconcile == {"new", "match", "conflict"}

Discovery == [status : {"none", "pending", "imported", "dismissed"}, conflict : BOOLEAN,
              mac : MACs \cup {None}, addr : Addresses \cup {None}, dev : Devices \cup {None}]
Subnet    == [row : RowState, cidr : SUBSET IPs]
IPAddress == [row : RowState, ip : IPs \cup {None}, subnet : Subnets \cup {None},
              dev : Devices \cup {None}, deprecated : BOOLEAN]

\* What a handler holds: the observation (ip, mac, trusted, found), or the copy of
\* the discovery GetDiscovery returned (ip, mac, dev) and what the transaction
\* resolved (subnet, and dev as the device to reuse).
Process   == [pc : {"idle", "upsert", "load", "resolve", "write", "syncLoad", "sync"},
              ip : IPs \cup {None}, mac : MACs \cup {None}, found : Reconcile,
              trusted : BOOLEAN,
              dev : Devices \cup {None}, subnet : Subnets \cup {None}]

NoDiscovery  == [status |-> "none", conflict |-> FALSE, mac |-> None, addr |-> None, dev |-> None]
NoSubnet(r)  == [row |-> r, cidr |-> {}]
NewAddress(r, ip, n, d, deprecated) ==
  [row |-> r, ip |-> ip, subnet |-> n, dev |-> d, deprecated |-> deprecated]
NoAddress(r) == NewAddress(r, None, None, None, FALSE)
Idle         == [pc |-> "idle", ip |-> None, mac |-> None, found |-> "new", trusted |-> FALSE,
                 dev |-> None, subnet |-> None]

LiveSubnet(n)  == n \in Subnets /\ subnet[n].row = "live"
LiveAddress(i) == i \in Addresses /\ addr[i].row = "live"
LiveDevice(d)  == d \in Devices /\ dev[d] = "live"

\* New rows take the next id.
NextSubnet(n)  == subnet[n].row = "unused" /\ \A k \in Subnets : subnet[k].row = "unused" => n <= k
NextAddress(i) == addr[i].row = "unused" /\ \A k \in Addresses : addr[k].row = "unused" => i <= k
NextDevice(d)  == dev[d] = "unused" /\ \A k \in Devices : dev[k] = "unused" => d <= k

\* The addresses recorded for ip (ip_addresses.address is UNIQUE), the subnets
\* containing it, and whether one does.
At(ip)         == {i \in Addresses : LiveAddress(i) /\ addr[i].ip = ip}
Containing(ip) == {n \in Subnets : LiveSubnet(n) /\ ip \in subnet[n].cidr}
MACsOf(d)      == {m \in MACs : owner[m] = d}

Init ==
  /\ disc = [ip \in IPs |-> NoDiscovery]
  /\ subnet = [n \in Subnets |-> NoSubnet("unused")]
  /\ addr = [i \in Addresses |-> NoAddress("unused")]
  /\ dev = [d \in Devices |-> "unused"]
  /\ owner = [m \in MACs |-> None]
  /\ proc = [p \in Procs |-> Idle]
  /\ batch = [o \in Operators |-> {}]
  /\ edits = 0
  /\ approved = {}
  /\ edited = {}

-----------------------------------------------------------------------------
(* Recording an observation                                                *)

\* The observed MAC is recorded on a device with another managed address.
BoundElsewhere(ip, mac) ==
  /\ mac # None /\ owner[mac] # None
  /\ \E i \in Addresses : LiveAddress(i) /\ addr[i].dev = owner[mac] /\ addr[i].ip # ip

\* The device of address i has MACs, none of which is the observed one.
OtherMAC(i, mac) ==
  /\ mac # None /\ addr[i].dev # None
  /\ MACsOf(addr[i].dev) # {} /\ mac \notin MACsOf(addr[i].dev)

ReconcileDiscovery(ip, mac) ==
  IF At(ip) = {}
  THEN IF BoundElsewhere(ip, mac) THEN "conflict" ELSE "new"
  ELSE IF \E i \in At(ip) : OtherMAC(i, mac) \/ addr[i].deprecated THEN "conflict" ELSE "match"

\* recordDiscoveries takes up an observation; reconcileDiscovery compares it with
\* the inventory as it is now.
Observe(w, ip, mac, trusted) ==
  /\ proc[w].pc = "idle"
  /\ proc' = [proc EXCEPT ![w] = [Idle EXCEPT !.pc = "upsert", !.ip = ip, !.mac = mac,
                !.found = ReconcileDiscovery(ip, mac), !.trusted = trusted]]
  /\ approved' = IF trusted THEN approved \cup {ip} ELSE approved
  /\ UNCHANGED <<disc, inventory, batch, edits, edited>>

\* Mutant: the link of an imported host is not looked at.
ReviewStatusReopensLinked(ip, found) ==
  IF disc[ip].status = "none" \/ (disc[ip].status = "imported" /\ found = "new")
  THEN "pending" ELSE disc[ip].status
\* ON CONFLICT (ip): the review status survives, except that an imported host whose
\* address is gone returns to the queue.
ReviewStatus(ip, found) ==
  IF \/ disc[ip].status = "none"
     \/ disc[ip].status = "imported" /\ disc[ip].addr = None /\ found = "new"
  THEN "pending" ELSE disc[ip].status

\* Mutant: agents that are not trusted are auto-imported too.
AfterUpsertTrustsAll(w, status) ==
  IF status = "pending" /\ proc[w].found # "conflict" THEN "load"
  ELSE IF status = "imported" /\ proc[w].found # "conflict" THEN "syncLoad"
  ELSE "idle"
\* maybeAutoImport, then syncImported.
AfterUpsert(w, status) ==
  IF proc[w].trusted /\ status = "pending" /\ proc[w].found # "conflict" THEN "load"
  ELSE IF status = "imported" /\ proc[w].found # "conflict" THEN "syncLoad"
  ELSE "idle"

UpsertDiscovery(w) ==
  LET ip     == proc[w].ip
      status == ReviewStatus(ip, proc[w].found)
      pc     == AfterUpsert(w, status)
  IN /\ proc[w].pc = "upsert"
     /\ disc' = [disc EXCEPT ![ip] = [@ EXCEPT !.status = status,
                   !.conflict = (proc[w].found = "conflict"),
                   !.mac = IF proc[w].mac # None THEN proc[w].mac ELSE disc[ip].mac]]
     /\ proc' = [proc EXCEPT ![w] =
                   IF pc = "idle" THEN Idle ELSE [Idle EXCEPT !.pc = pc, !.ip = ip]]
     /\ UNCHANGED <<inventory, batch, edits, history>>

-----------------------------------------------------------------------------
(* Importing                                                               *)

\* discoveryImport, also after the subnet the host was missing has been created.
\* The handler takes any discovery, a dismissed or (from a stale page) imported one too.
ImportOne(o, ip) ==
  /\ proc[o].pc = "idle" /\ batch[o] = {}
  /\ disc[ip].status # "none"
  /\ proc' = [proc EXCEPT ![o] = [Idle EXCEPT !.pc = "load", !.ip = ip]]
  /\ approved' = approved \cup {ip}
  /\ UNCHANGED <<disc, inventory, batch, edits, edited>>

\* discoveriesImportAll: nothing is imported while a listed host has no subnet.
Importable == {ip \in IPs : disc[ip].status = "pending" /\ ~disc[ip].conflict}
ImportAll(o) ==
  /\ proc[o].pc = "idle" /\ batch[o] = {}
  /\ \A ip \in Importable : Containing(ip) # {}
  /\ batch' = [batch EXCEPT ![o] = Importable]
  /\ approved' = approved \cup Importable
  /\ UNCHANGED <<disc, inventory, proc, edits, edited>>

ImportNext(o, ip) ==
  /\ proc[o].pc = "idle"
  /\ ip \in batch[o] /\ \A k \in batch[o] : ip <= k
  /\ batch' = [batch EXCEPT ![o] = @ \ {ip}]
  /\ proc' = [proc EXCEPT ![o] = [Idle EXCEPT !.pc = "load", !.ip = ip]]
  /\ UNCHANGED <<disc, inventory, edits, history>>

\* ImportDiscovery reads the discovery before its transaction begins.
LoadDiscovery(p) ==
  /\ proc[p].pc = "load"
  /\ proc' = [proc EXCEPT ![p] = [@ EXCEPT !.pc = "resolve",
                !.mac = disc[proc[p].ip].mac, !.dev = disc[proc[p].ip].dev]]
  /\ UNCHANGED <<disc, inventory, batch, edits, history>>

\* resolveImportDevice: the device of the earlier import, else the owner of the MAC.
ReusedDevice(p) ==
  IF LiveDevice(proc[p].dev) THEN proc[p].dev
  ELSE IF proc[p].mac # None THEN owner[proc[p].mac] ELSE None

Resolve(p) ==
  /\ proc[p].pc = "resolve"
  /\ \/ /\ Containing(proc[p].ip) = {}
        /\ proc' = [proc EXCEPT ![p] = Idle]
     \/ \E n \in Containing(proc[p].ip) :
          proc' = [proc EXCEPT ![p] = [@ EXCEPT !.pc = "write", !.dev = ReusedDevice(p), !.subnet = n]]
  /\ UNCHANGED <<disc, inventory, batch, edits, history>>

\* Mutant: a MAC moves to the device seen with it last.
AttachMACMoves(m, d) == IF m = None THEN owner ELSE [owner EXCEPT ![m] = d]
\* attachDiscoveryMAC: a MAC that is on record stays where it is.
AttachMAC(m, d) == IF m = None THEN owner ELSE [owner EXCEPT ![m] = IF @ = None THEN d ELSE @]

\* Mutant: no foreign key on the subnet.
ImportKeysHoldNoSubnet(p) == proc[p].dev # None => LiveDevice(proc[p].dev)
\* The rows the transaction refers to are still there.
ImportKeysHold(p) ==
  /\ LiveSubnet(proc[p].subnet)
  /\ proc[p].dev # None => LiveDevice(proc[p].dev)

\* Mutant: the discovery keeps its earlier device link.
MarkImportedKeepsDevice(ip, i, d) ==
  disc' = [disc EXCEPT ![ip] = [@ EXCEPT !.status = "imported", !.addr = i]]
MarkImported(ip, i, d) ==
  disc' = [disc EXCEPT ![ip] = [@ EXCEPT !.status = "imported", !.addr = i, !.dev = d]]

\* The transaction: device d is the one to reuse or a new one, address i the one on
\* record for the ip, which keeps its state, or a new one.
ImportDiscovery(p, i, d) ==
  LET ip == proc[p].ip IN
  /\ proc[p].pc = "write"
  /\ ImportKeysHold(p)
  /\ IF proc[p].dev # None THEN d = proc[p].dev ELSE NextDevice(d)
  /\ IF At(ip) # {} THEN i \in At(ip) ELSE NextAddress(i)
  /\ dev' = [dev EXCEPT ![d] = "live"]
  /\ owner' = AttachMAC(proc[p].mac, d)
  /\ addr' = [addr EXCEPT ![i] = NewAddress("live", ip, proc[p].subnet, d, @.deprecated)]
  /\ MarkImported(ip, i, d)
  /\ proc' = [proc EXCEPT ![p] = Idle]
  /\ UNCHANGED <<subnet, batch, edits, history>>

\* A foreign key fails: the transaction is rolled back, and import all gives up.
ImportFails(p) ==
  /\ proc[p].pc = "write"
  /\ ~ImportKeysHold(p)
  /\ proc' = [proc EXCEPT ![p] = Idle]
  /\ batch' = IF p \in Operators THEN [batch EXCEPT ![p] = {}] ELSE batch
  /\ UNCHANGED <<disc, inventory, edits, history>>

\* SyncImportedDiscovery: read the discovery, then refresh its device if both are
\* still what they were.
SyncLoad(w) ==
  LET d == disc[proc[w].ip] IN
  /\ proc[w].pc = "syncLoad"
  /\ proc' = [proc EXCEPT ![w] =
                IF d.status # "imported" \/ d.dev = None THEN Idle
                ELSE [@ EXCEPT !.pc = "sync", !.mac = d.mac, !.dev = d.dev]]
  /\ UNCHANGED <<disc, inventory, batch, edits, history>>

SyncImported(w) ==
  /\ proc[w].pc = "sync"
  /\ owner' = IF LiveDevice(proc[w].dev) THEN AttachMAC(proc[w].mac, proc[w].dev) ELSE owner
  /\ proc' = [proc EXCEPT ![w] = Idle]
  /\ UNCHANGED <<disc, subnet, addr, dev, batch, edits, history>>

DismissDiscovery(ip) ==
  /\ disc[ip].status \notin {"none", "imported"}
  /\ disc' = [disc EXCEPT ![ip].status = "dismissed"]
  /\ UNCHANGED <<inventory, proc, batch, edits, history>>

-----------------------------------------------------------------------------
(* The inventory, edited by hand                                           *)

Edited == edits < MaxEdits /\ edits' = edits + 1

\* ensureNoSubnetOverlap and the statement that follows it as one step.
Disjoint(n, cidr) == \A k \in Subnets \ {n} : LiveSubnet(k) => subnet[k].cidr \cap cidr = {}
WriteSubnet(n, cidr) ==
  /\ cidr # {} /\ Disjoint(n, cidr)
  /\ subnet' = [subnet EXCEPT ![n] = [row |-> "live", cidr |-> cidr]]
  /\ Edited
  /\ UNCHANGED <<disc, addr, dev, owner, proc, batch, history>>
CreateSubnet(n, cidr) == NextSubnet(n) /\ WriteSubnet(n, cidr)

\* The addresses of the subnet are not looked at, whatever the new CIDR is.
UpdateSubnet(n, cidr) == LiveSubnet(n) /\ WriteSubnet(n, cidr)

\* ip_addresses.subnet_id is ON DELETE SET NULL.
DetachAddresses(n) ==
  [i \in Addresses |-> IF addr[i].subnet = n THEN [addr[i] EXCEPT !.subnet = None] ELSE addr[i]]
DeleteSubnet(n) ==
  /\ LiveSubnet(n)
  /\ subnet' = [subnet EXCEPT ![n] = NoSubnet("deleted")]
  /\ addr' = DetachAddresses(n)
  /\ Edited
  /\ UNCHANGED <<disc, dev, owner, proc, batch, history>>

CreateAddress(i, n, ip, d, deprecated) ==
  /\ NextAddress(i)
  /\ LiveSubnet(n) /\ ip \in subnet[n].cidr /\ At(ip) = {}
  /\ d # None => LiveDevice(d)
  /\ addr' = [addr EXCEPT ![i] = NewAddress("live", ip, n, d, deprecated)]
  /\ edited' = edited \cup {i}
  /\ Edited
  /\ UNCHANGED <<disc, subnet, dev, owner, proc, batch, approved>>

\* The form needs the subnet of the address: one that lost it cannot be edited.
UpdateAddress(i, ip, d, deprecated) ==
  /\ LiveAddress(i) /\ LiveSubnet(addr[i].subnet)
  /\ ip \in subnet[addr[i].subnet].cidr /\ At(ip) \subseteq {i}
  /\ d # None => LiveDevice(d)
  /\ addr' = [addr EXCEPT ![i] = NewAddress("live", ip, @.subnet, d, deprecated)]
  /\ edited' = edited \cup {i}
  /\ Edited
  /\ UNCHANGED <<disc, subnet, dev, owner, proc, batch, approved>>

BulkSetAddressState(A, deprecated) ==
  /\ A # {} /\ \A i \in A : LiveAddress(i)
  /\ addr' = [i \in Addresses |->
                 IF i \in A THEN [addr[i] EXCEPT !.deprecated = deprecated] ELSE addr[i]]
  /\ Edited
  /\ UNCHANGED <<disc, subnet, dev, owner, proc, batch, history>>

BulkClearAddressDevice(A) ==
  /\ A # {} /\ \A i \in A : LiveAddress(i)
  /\ addr' = [i \in Addresses |-> IF i \in A THEN [addr[i] EXCEPT !.dev = None] ELSE addr[i]]
  /\ edited' = edited \cup A
  /\ Edited
  /\ UNCHANGED <<disc, subnet, dev, owner, proc, batch, approved>>

\* mac_addresses.device_id is ON DELETE CASCADE.
ClearOwners(D) == [m \in MACs |-> IF owner[m] \in D THEN None ELSE owner[m]]

\* The rows A and D go; references from discoveries and addresses become NULL.
RemoveRows(A, D) ==
  /\ addr' = [i \in Addresses |-> IF i \in A THEN NoAddress("deleted")
                                  ELSE IF addr[i].dev \in D THEN [addr[i] EXCEPT !.dev = None]
                                  ELSE addr[i]]
  /\ dev' = [d \in Devices |-> IF d \in D THEN "deleted" ELSE dev[d]]
  /\ owner' = ClearOwners(D)
  /\ disc' = [ip \in IPs |-> [disc[ip] EXCEPT !.addr = IF @ \in A THEN None ELSE @,
                                              !.dev = IF @ \in D THEN None ELSE @]]
  /\ Edited
  /\ UNCHANGED <<subnet, proc, batch, history>>

\* DeleteAddress, BulkDeleteAddresses: a device whose last address goes, goes too.
DeleteAddresses(A) ==
  /\ A # {} /\ \A i \in A : LiveAddress(i)
  /\ RemoveRows(A, {d \in {addr[i].dev : i \in A} \ {None} :
                      \A k \in Addresses : addr[k].dev = d => k \in A})

\* DeleteDevice, BulkDeleteDevices: the addresses of the devices go first.
DeleteDevices(D) ==
  /\ D # {} /\ \A d \in D : LiveDevice(d)
  /\ RemoveRows({i \in Addresses : addr[i].dev \in D}, D)

CreateDevice(d) ==
  /\ NextDevice(d)
  /\ dev' = [dev EXCEPT ![d] = "live"]
  /\ Edited
  /\ UNCHANGED <<disc, subnet, addr, owner, proc, batch, approved, edited>>

CreateMACAddress(m, d) ==
  /\ owner[m] = None /\ LiveDevice(d)
  /\ owner' = [owner EXCEPT ![m] = d]
  /\ Edited
  /\ UNCHANGED <<disc, subnet, addr, dev, proc, batch, history>>

DeleteMACAddress(m) ==
  /\ owner[m] # None
  /\ owner' = [owner EXCEPT ![m] = None]
  /\ Edited
  /\ UNCHANGED <<disc, subnet, addr, dev, proc, batch, history>>

-----------------------------------------------------------------------------
ScanStep(w) ==
  \/ \E ip \in IPs, mac \in MACs \cup {None}, trusted \in BOOLEAN : Observe(w, ip, mac, trusted)
  \/ UpsertDiscovery(w)
  \/ SyncLoad(w)
  \/ SyncImported(w)

ImportStep(p) ==
  \/ LoadDiscovery(p)
  \/ Resolve(p)
  \/ \E i \in Addresses, d \in Devices : ImportDiscovery(p, i, d)
  \/ ImportFails(p)

OperatorStep(o) ==
  \/ ImportAll(o)
  \/ \E ip \in IPs : ImportOne(o, ip) \/ ImportNext(o, ip)

EditSubnets ==
  \E n \in Subnets :
    \/ DeleteSubnet(n)
    \/ \E cidr \in SUBSET IPs : CreateSubnet(n, cidr) \/ UpdateSubnet(n, cidr)

EditAddresses ==
  \/ \E i \in Addresses, ip \in IPs, d \in Devices \cup {None}, deprecated \in BOOLEAN :
       \/ UpdateAddress(i, ip, d, deprecated)
       \/ \E n \in Subnets : CreateAddress(i, n, ip, d, deprecated)
  \/ \E A \in SUBSET Addresses :
       \/ DeleteAddresses(A)
       \/ BulkClearAddressDevice(A)
       \/ \E deprecated \in BOOLEAN : BulkSetAddressState(A, deprecated)

EditDevices ==
  \/ \E D \in SUBSET Devices : DeleteDevices(D)
  \/ \E d \in Devices : CreateDevice(d) \/ \E m \in MACs : CreateMACAddress(m, d)
  \/ \E m \in MACs : DeleteMACAddress(m)

Next ==
  \/ \E w \in Scans : ScanStep(w)
  \/ \E p \in Procs : ImportStep(p)
  \/ \E o \in Operators : OperatorStep(o)
  \/ \E ip \in IPs : DismissDiscovery(ip)
  \/ EditSubnets \/ EditAddresses \/ EditDevices

Spec == Init /\ [][Next]_vars

-----------------------------------------------------------------------------
(* Properties                                                              *)

\* No deletion that falls between the statements of an import, a sync or another
\* edit leaves a reference to a row that is gone (foreign keys of migrations.go).
ReferencesLive ==
  /\ \A ip \in IPs :
       /\ disc[ip].addr # None => LiveAddress(disc[ip].addr)
       /\ disc[ip].dev # None => LiveDevice(disc[ip].dev)
  /\ \A i \in Addresses : LiveAddress(i) =>
       /\ addr[i].dev # None => LiveDevice(addr[i].dev)
       /\ addr[i].subnet # None => LiveSubnet(addr[i].subnet)
  /\ \A m \in MACs : owner[m] # None => LiveDevice(owner[m])

\* A host in the queue, or dismissed, has no imported address behind it: no order of
\* re-scans, dismissals and imports takes the review status back while the address
\* it stands for is in the inventory.
QueueStateCoherent ==
  \A ip \in IPs : disc[ip].addr # None => disc[ip].status = "imported"

\* What the queue says of an imported host is what the inventory says, as long as
\* nobody has edited the address: it is recorded at that ip, on that device.
QueueAgreesWithInventory ==
  \A ip \in IPs : LET i == disc[ip].addr IN
    i # None /\ i \notin edited => addr[i].ip = ip /\ addr[i].dev = disc[ip].dev

\* "By default nothing here mutates IPAM records directly" (recordDiscoveries): a
\* host is imported only after an operator chose it or a trusted agent reported it.
ImportsApproved ==
  \A ip \in IPs : disc[ip].status = "imported" => ip \in approved

\* A MAC on record changes hands only by being removed first: neither an import nor
\* a sync, however late, takes it from the device it is recorded on.
MACsNeverMove ==
  [][\A m \in MACs : owner[m] # None => owner'[m] \in {owner[m], None}]_vars
=============================================================================
