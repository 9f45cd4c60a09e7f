------------------------------ MODULE Inventory ------------------------------
(***************************************************************************)
(* Subnets, address records and devices, and the requests that edit them:  *)
(* the forms of the web pages and the same calls of the JSON API, the bulk *)
(* actions of the tables, and CSV or NetBox imports.                       *)
(*                                                                         *)
(* A CIDR is the set of addresses it covers: containment is membership,    *)
(* overlap a common address, and a longer prefix a smaller set.  A handler *)
(* is one step per statement; a transaction keeps what it has written or   *)
(* deleted in its record (the rows it locks) and the others see the rows   *)
(* as they were until it commits, as under READ COMMITTED.  A request that *)
(* only answers with an error changes nothing and is not a step.           *)
(*                                                                         *)
(* The columns no other statement reads (names, VLAN, site, description,   *)
(* address state, host name, notes, tags, custom fields) are left out.     *)
(***************************************************************************)
EXTENDS Naturals, FiniteSets

CONSTANTS
  CIDRs,       \* normalised CIDRs, as sets of addresses
  SubnetIds,   \* identifiers of subnets
  AddressIds,  \* identifiers of ip_addresses
  Devices,     \* identifiers of devices
  Names,       \* names of devices, in lower case
  NameOf,      \* NameOf[d]: the name device d has
  Requests,    \* concurrent requests
  MaxRequests, \* bound on the requests served
  MaxFile,     \* bound on the data rows of an imported file
  None         \* SQL NULL, or an empty cell

Addresses == UNION CIDRs

ASSUME InventoryAssumption ==
  /\ {} \notin CIDRs /\ \A c, e \in CIDRs : c \subseteq e \/ e \subseteq c \/ c \cap e = {}
  /\ NameOf \in [Devices -> Names]
  /\ MaxRequests \in Nat /\ MaxFile \in Nat
  /\ IsFiniteSet(SubnetIds) /\ IsFiniteSet(AddressIds)
  /\ None \notin SubnetIds \cup AddressIds \cup Devices /\ None \notin CIDRs /\ None \notin Addresses

VARIABLES
  subnet,    \* subnet[s]: the cidr of row s, None when there is no row
  address,   \* address[a]: row a of ip_addresses, NoRow when there is none
  device,    \* the devices with a row
  req,       \* req[r]: the handler serving request r
  served,    \* requests taken up so far
  overtaken, \* history: requests whose overlap check is older than another subnet write
  raced,     \* history: such a request has written
  edited,    \* history: subnets whose cidr was edited
  shifted,   \* history: address rows written under another subnet than the one checked
  unlinked,  \* history: devices left without address by hand
  crossed,   \* history: devices two address deletes looked at together
  overlooked \* history: addresses linked to a device a removal has found orphaned and not locked

inventory == <<subnet, address, device>>
history   == <<overtaken, raced, edited, shifted, unlinked, crossed, overlooked>>
vars      == <<inventory, req, served, history>>

-----------------------------------------------------------------------------
Overlaps(c, e) == c \cap e # {}
Contains(c, ip) == ip \in c

NoRow == [ip |-> None, subnet |-> None, device |-> None]
AddressRow == [ip : Addresses, subnet : SubnetIds \cup {None}, device : Devices \cup {None}]

Subnets == {s \in SubnetIds : subnet[s] # None}
Records == {a \in AddressIds : address[a] # NoRow}
Linked(d) == {a \in Records : address[a].device = d}

Idle == [at |-> "idle", nets |-> {}, rows |-> {}, devs |-> {}, file |-> {}, cidrs |-> {}]

\* A random identifier is new: it is on no row and no request holds it.
NewSubnets(n)   == {S \in SUBSET (SubnetIds \ (Subnets \cup {net[1] : net \in UNION {req[r].nets : r \in Requests}})) : Cardinality(S) = n}
NewAddresses(n) == {A \in SUBSET (AddressIds \ (Records \cup UNION {req[r].rows : r \in Requests})) : Cardinality(A) = n}
NewDevices      == Devices \ (device \cup UNION {req[r].devs : r \in Requests})

\* Rows a transaction has deleted and not committed: nobody else can write them.
DeletedRows(r) == IF req[r].at \in {"orphans", "delete orphans", "devices", "commit addresses", "commit devices"}
                  THEN req[r].rows ELSE {}
DeletedDevices(r) == IF req[r].at \in {"commit addresses", "commit devices"} THEN req[r].devs ELSE {}
LockedRows(r)    == UNION {DeletedRows(q) : q \in Requests \ {r}}
LockedDevices(r) == UNION {DeletedDevices(q) : q \in Requests \ {r}}

\* What the other imports have written and not committed.  Nobody else writes
\* those addresses, nor deletes the subnets and devices they refer to.
Unsaved(r)      == UNION {req[q].file : q \in {p \in Requests \ {r} : req[p].at = "commit import"}}
UnsavedIPs(r)   == {row.ip : row \in Unsaved(r)}
HeldRows(r)     == {a \in Records : address[a].ip \in UnsavedIPs(r)}
KeptSubnets(r)  == {row.subnet : row \in Unsaved(r)}
KeptDevices(r)  == {row.device : row \in Unsaved(r)}

-----------------------------------------------------------------------------
(* Histories.  A write of a subnet overtakes every request that has checked*)
(* for overlaps and not written yet.                                       *)
SubnetWritten(r) ==
  /\ overtaken' = {q \in Requests \ {r} : req[q].at \in {"insert subnet", "update subnet", "import subnets"}}
                    \cup (overtaken \ {r})
  /\ raced' = (raced \/ r \in overtaken)

\* A device is left without address by hand when a statement other than an
\* address delete takes the last one that is not being deleted.
LinkedAfter(r, d) == {a \in AddressIds \ LockedRows(r) : address'[a].device = d}
HandEdit(r) ==
  unlinked' = {d \in device : LinkedAfter(r, d) = {} /\ (d \in unlinked \/ Linked(d) # {})}

\* An address is overlooked when it is linked after a removal found its device
\* orphaned and before the removal locks the device.
Doomed == UNION {req[q].devs : q \in {p \in Requests : req[p].at = "delete orphans"}}
Overlook ==
  overlooked' = {a \in AddressIds : /\ address'[a].device # None
                                    /\ IF address'[a].device = address[a].device
                                       THEN a \in overlooked ELSE address'[a].device \in Doomed}

Serve == served < MaxRequests /\ served' = served + 1
Begin(r, state) == /\ req[r] = Idle /\ Serve
                   /\ req' = [req EXCEPT ![r] = state]
                   /\ UNCHANGED <<inventory, history>>
Done(r) == req' = [req EXCEPT ![r] = Idle] /\ UNCHANGED served
\* The statement fails, or writes no row: the handler answers with an error.
Refused(r) == Done(r) /\ UNCHANGED inventory /\ UNCHANGED <<raced, edited, shifted, unlinked, crossed, overlooked>>
              /\ overtaken' = overtaken \ {r}

-----------------------------------------------------------------------------
(* Subnets.                                                                *)
\* Mutant: only the same cidr counts as an overlap.
OnlySameCIDR(existing, cidr) == \A s \in Subnets \ {existing} : subnet[s] # cidr
ensureNoSubnetOverlap(existing, cidr) == \A s \in Subnets \ {existing} : ~ Overlaps(subnet[s], cidr)

subnetCreate(r) ==
  \E c \in CIDRs : /\ ensureNoSubnetOverlap(None, c)
                   /\ Begin(r, [Idle EXCEPT !.at = "insert subnet", !.cidrs = {c}])

\* UNIQUE (cidr) refuses a row with the same cidr.
Taken(existing, c) == \E s \in Subnets \ {existing} : subnet[s] = c

CreateSubnet(r) ==
  \E c \in req[r].cidrs :
    /\ req[r].at = "insert subnet"
    /\ ~ Taken(None, c)
    /\ \E S \in NewSubnets(1) : subnet' = [s \in SubnetIds |-> IF s \in S THEN c ELSE subnet[s]]
    /\ SubnetWritten(r) /\ Done(r)
    /\ UNCHANGED <<address, device, edited, shifted, unlinked, crossed, overlooked>>

subnetUpdate(r) ==
  \E s \in Subnets, c \in CIDRs :
    /\ ensureNoSubnetOverlap(s, c)
    /\ Begin(r, [Idle EXCEPT !.at = "update subnet", !.nets = {<<s, c>>}])

UpdateSubnet(r) ==
  \E net \in req[r].nets :
    LET s == net[1]  c == net[2] IN
    /\ req[r].at = "update subnet"
    /\ s \in Subnets /\ ~ Taken(s, c)
    /\ s \in KeptSubnets(r) => c = subnet[s]
    /\ subnet' = [subnet EXCEPT ![s] = c]
    /\ edited' = IF subnet[s] = c THEN edited ELSE edited \cup {s}
    /\ SubnetWritten(r) /\ Done(r)
    /\ UNCHANGED <<address, device, shifted, unlinked, crossed, overlooked>>

SubnetRefused(r) ==
  /\ \/ req[r].at = "insert subnet" /\ \E c \in req[r].cidrs : Taken(None, c)
     \/ req[r].at = "update subnet" /\ \E net \in req[r].nets : net[1] \notin Subnets \/ Taken(net[1], net[2])
  /\ Refused(r)

\* The delete of one subnet or of a selection; ON DELETE SET NULL detaches their addresses.
DeleteSubnets(r) ==
  \E S \in (SUBSET Subnets) \ {{}} :
    /\ req[r] = Idle /\ Serve
    /\ S \cap KeptSubnets(r) = {}
    /\ \A a \in LockedRows(r) \cup HeldRows(r) : address[a].subnet \notin S
    /\ subnet' = [s \in SubnetIds |-> IF s \in S THEN None ELSE subnet[s]]
    /\ address' = [a \in AddressIds |-> IF address[a].subnet \in S THEN [address[a] EXCEPT !.subnet = None] ELSE address[a]]
    /\ edited' = edited \ S
    /\ UNCHANGED <<device, req, overtaken, raced, shifted, unlinked, crossed, overlooked>>

-----------------------------------------------------------------------------
(* Addresses.  The handler works with the subnet it loaded first.          *)
loadSubnetPage(r) ==
  \E s \in Subnets : Begin(r, [Idle EXCEPT !.at = "insert address", !.nets = {<<s, subnet[s]>>}])

Holder(ip) == {a \in Records : address[a].ip = ip}
DeviceKeyHolds(r, d) == d = None \/ d \in device \ LockedDevices(r)

\* The foreign keys hold, and UNIQUE (address).
CreateAddress(r) ==
  \E net \in req[r].nets, d \in Devices \cup {None} : \E ip \in net[2] :
    /\ req[r].at = "insert address"
    /\ Contains(net[2], ip)
    /\ net[1] \in Subnets /\ DeviceKeyHolds(r, d)
    /\ Holder(ip) = {} /\ ip \notin UnsavedIPs(r)
    /\ \E A \in NewAddresses(1) :
         address' = [a \in AddressIds |-> IF a \in A THEN [ip |-> ip, subnet |-> net[1], device |-> d] ELSE address[a]]
    /\ Done(r)
    /\ HandEdit(r) /\ Overlook
    /\ UNCHANGED <<subnet, device, overtaken, raced, edited, shifted, crossed>>

\* A detached address has no subnet to load, and its page fails.
loadAddressPage(r) ==
  \E a \in Records :
    /\ address[a].subnet # None
    /\ Begin(r, [Idle EXCEPT !.at = "update address", !.rows = {a},
                             !.nets = {<<address[a].subnet, subnet[address[a].subnet]>>}])

\* subnet_id is not among the columns it writes.
UpdateAddress(r) ==
  \E net \in req[r].nets, a \in req[r].rows, d \in Devices \cup {None} : \E ip \in net[2] :
    /\ req[r].at = "update address"
    /\ a \in Records \ (LockedRows(r) \cup HeldRows(r))
    /\ Contains(net[2], ip)
    /\ DeviceKeyHolds(r, d)
    /\ Holder(ip) \subseteq {a} /\ ip \notin UnsavedIPs(r)
    /\ address' = [address EXCEPT ![a].ip = ip, ![a].device = d]
    /\ shifted' = IF address[a].subnet = net[1] THEN shifted \ {a} ELSE shifted \cup {a}
    /\ Done(r)
    /\ HandEdit(r) /\ Overlook
    /\ UNCHANGED <<subnet, device, overtaken, raced, edited, crossed>>

\* The subnet or the row is gone, the device is, or the address is taken.
AddressRefused(r) ==
  /\ req[r].at \in {"insert address", "update address"}
  /\ Refused(r)

BulkClearAddressDevice(r) ==
  \E A \in (SUBSET Records) \ {{}} :
    /\ req[r] = Idle /\ Serve
    /\ A \cap (LockedRows(r) \cup HeldRows(r)) = {}
    /\ address' = [a \in AddressIds |-> IF a \in A THEN [address[a] EXCEPT !.device = None] ELSE address[a]]
    /\ HandEdit(r) /\ Overlook
    /\ UNCHANGED <<subnet, device, req, overtaken, raced, edited, shifted, crossed>>

-----------------------------------------------------------------------------
(* Removing addresses, one or a selection, also removes the devices left   *)
(* without any.                                                            *)
DeleteAddresses(r) ==
  \E A \in (SUBSET Records) \ {{}} :
    /\ A \cap (LockedRows(r) \cup HeldRows(r)) = {}
    /\ Begin(r, [Idle EXCEPT !.at = "orphans", !.rows = A, !.devs = {address[a].device : a \in A} \ {None}])

\* Mutant: the addresses just deleted still count.
OrphanSeesOwnRows(r, d) == Linked(d) = {}
\* Mutant: NOT EXISTS is dropped.
OrphanAlways(r, d) == TRUE
Orphan(r, d) == Linked(d) \subseteq req[r].rows

\* The DELETE picks its devices by the statement's snapshot.
DeleteOrphanDevices(r) ==
  /\ req[r].at = "orphans"
  /\ req' = [req EXCEPT ![r].at = "delete orphans",
                        ![r].devs = {d \in req[r].devs \cap device : Orphan(r, d)}]
  /\ crossed' = crossed \cup {d \in req[r].devs : Linked(d) \cap LockedRows(r) # {}}
  /\ UNCHANGED <<inventory, served, overtaken, raced, edited, shifted, unlinked, overlooked>>

\* A row delete waits for whoever deletes the device, refers to it in an
\* uncommitted row, or has written or deleted an address that refers to it.
DevicesUnlocked(r) ==
  /\ req[r].devs \cap (LockedDevices(r) \cup KeptDevices(r)) = {}
  /\ \A a \in LockedRows(r) \cup HeldRows(r) : address[a].device \notin req[r].devs

\* Then it locks and deletes those that still exist.  A row that was only
\* referred to meanwhile is not checked again: an address linked to it since
\* the snapshot is detached, ON DELETE SET NULL.
LockOrphanDevices(r) ==
  /\ req[r].at = "delete orphans"
  /\ DevicesUnlocked(r)
  /\ req' = [req EXCEPT ![r].at = "commit addresses", ![r].devs = req[r].devs \cap device]
  /\ UNCHANGED <<inventory, served, history>>

DeleteDevices(r) ==
  \E D \in (SUBSET device) \ {{}} :
    LET A == UNION {Linked(d) : d \in D} IN
    /\ A \cap (LockedRows(r) \cup HeldRows(r)) = {}
    /\ Begin(r, [Idle EXCEPT !.at = "devices", !.rows = A, !.devs = D])

\* Addresses linked since the first statement are detached, ON DELETE SET NULL.
DeleteDeviceRows(r) ==
  /\ req[r].at = "devices"
  /\ DevicesUnlocked(r)
  /\ req' = [req EXCEPT ![r].at = "commit devices"]
  /\ UNCHANGED <<inventory, served, history>>

Committed(r) ==
  /\ address' = [a \in AddressIds |->
       IF a \in req[r].rows THEN NoRow
       ELSE IF address[a].device \in req[r].devs THEN [address[a] EXCEPT !.device = None] ELSE address[a]]
  /\ device' = device \ req[r].devs
  /\ shifted' = shifted \ req[r].rows
  /\ unlinked' = unlinked \ req[r].devs
  /\ crossed' = crossed \ req[r].devs
  /\ Done(r) /\ Overlook
  /\ UNCHANGED <<subnet, overtaken, raced, edited>>

CommitAddresses(r) == req[r].at = "commit addresses" /\ Committed(r)
CommitDevices(r)   == req[r].at = "commit devices" /\ Committed(r)

CreateDevice(r) ==
  \E d \in NewDevices :
    /\ req[r] = Idle /\ Serve
    /\ device' = device \cup {d}
    /\ unlinked' = unlinked \cup {d}
    /\ UNCHANGED <<subnet, address, req, overtaken, raced, edited, shifted, crossed, overlooked>>

-----------------------------------------------------------------------------
(* Imports.  A file is validated against what buildImportContext read, one *)
(* list per statement, and applied in one transaction; a row with an error *)
(* refuses the file.                                                       *)
Files(S) == {f \in SUBSET S : f # {} /\ Cardinality(f) <= MaxFile}

validateSubnets(file) ==
  /\ \A c, e \in file : c = e \/ ~ Overlaps(c, e)
  /\ \A c \in file : Taken(None, c) \/ ensureNoSubnetOverlap(None, c)

ApplySubnets(r) ==
  \E file \in Files(CIDRs) :
    /\ validateSubnets(file)
    /\ Begin(r, [Idle EXCEPT !.at = "import subnets", !.cidrs = file])

\* INSERT ... ON CONFLICT (cidr) DO UPDATE, which leaves the cidr alone.
ImportSubnets(r) ==
  LET new == {c \in req[r].cidrs : ~ Taken(None, c)} IN
  /\ req[r].at = "import subnets"
  /\ \E S \in NewSubnets(Cardinality(new)) :
       \E rowOf \in [S -> new] :
         /\ \A c \in new : \E s \in S : rowOf[s] = c
         /\ subnet' = [s \in SubnetIds |-> IF s \in S THEN rowOf[s] ELSE subnet[s]]
  /\ SubnetWritten(r) /\ Done(r)
  /\ UNCHANGED <<address, device, edited, shifted, unlinked, crossed, overlooked>>

buildImportContext(r) ==
  Begin(r, [Idle EXCEPT !.at = "import context", !.nets = {<<s, subnet[s]>> : s \in Subnets}])

\* Mutant: the smallest subnet, whether or not it contains the address.
smallestSubnet(nets, ip) == {net[1] : net \in {m \in nets : \A other \in nets : ~ (other[2] \subseteq m[2] /\ other # m)}}

\* The containing subnet with the longest prefix.
containingSubnet(nets, ip) ==
  {net[1] : net \in {m \in nets : /\ Contains(m[2], ip)
                                  /\ \A other \in nets : Contains(other[2], ip) => m[2] \subseteq other[2]}}

\* A cell naming a device must name exactly one; an empty one names none.
DevicesNamed(name) == IF name = None THEN {None} ELSE {d \in device : NameOf[d] = name}

\* The rows a valid file turns into: a distinct address each, in a known subnet.
ImportRows(r) ==
  {row \in [ip : Addresses, subnet : SubnetIds, device : Devices \cup {None}] :
     /\ row.subnet \in containingSubnet(req[r].nets, row.ip)
     /\ \E name \in Names \cup {None} : DevicesNamed(name) = {row.device}}
validateAddresses(r, file) == \A x, y \in file : x.ip = y.ip => x = y

ApplyAddresses(r) ==
  \E file \in Files(ImportRows(r)) :
    /\ req[r].at = "import context"
    /\ validateAddresses(r, file)
    /\ req' = [req EXCEPT ![r].at = "import addresses", ![r].file = file,
                          ![r].devs = {row.device : row \in file} \ {None}]
    /\ UNCHANGED <<inventory, served, history>>

\* INSERT ... ON CONFLICT (address) DO UPDATE, the subnet included, for each row
\* of the file: every statement finds the rows it refers to, and locks them.
HeldBy(file) == UNION {Holder(row.ip) : row \in file}
ImportAddresses(r) ==
  LET file == req[r].file IN
  /\ req[r].at = "import addresses"
  /\ \A row \in file : row.subnet \in Subnets /\ DeviceKeyHolds(r, row.device)
  /\ HeldBy(file) \cap LockedRows(r) = {}
  /\ {row.ip : row \in file} \cap UnsavedIPs(r) = {}
  /\ req' = [req EXCEPT ![r].at = "commit import"]
  /\ UNCHANGED <<inventory, served, history>>

\* The rows become visible; the locks have kept what the statements found.
CommitImport(r) ==
  LET file == req[r].file
      new  == {row \in file : Holder(row.ip) = {}}
      held == HeldBy(file)
  IN
  /\ req[r].at = "commit import"
  /\ \A row \in file : row.subnet \in Subnets /\ DeviceKeyHolds(r, row.device)
  /\ held \cap LockedRows(r) = {}
  /\ \E A \in NewAddresses(Cardinality(new)) :
       \E rowOf \in [A \cup held -> file] :
         /\ \A row \in file : \E a \in A \cup held : rowOf[a] = row
         /\ \A a \in held : rowOf[a].ip = address[a].ip
         /\ address' = [a \in AddressIds |-> IF a \in A \cup held THEN rowOf[a] ELSE address[a]]
  /\ shifted' = shifted \ held
  /\ Done(r)
  /\ HandEdit(r) /\ Overlook
  /\ UNCHANGED <<subnet, device, overtaken, raced, edited, crossed>>

\* One row breaks a foreign key and the transaction is rolled back; or the
\* validation found an error.
ImportRefused(r) ==
  /\ \/ req[r].at = "import context"
     \/ /\ req[r].at = "import addresses"
        /\ \E row \in req[r].file : row.subnet \notin Subnets \/ row.device \notin device \cup {None}
  /\ Refused(r)

\* A name that has a device updates it; a new one inserts a row.
ImportDevices(r) ==
  \E d \in NewDevices :
    /\ req[r] = Idle /\ Serve
    /\ DevicesNamed(NameOf[d]) = {}
    /\ device' = device \cup {d}
    /\ unlinked' = unlinked \cup {d}
    /\ UNCHANGED <<subnet, address, req, overtaken, raced, edited, shifted, crossed, overlooked>>

-----------------------------------------------------------------------------
(* Any inventory that one user at a time can have built.                   *)
Init ==
  /\ subnet \in [SubnetIds -> CIDRs \cup {None}]
  /\ \A s, t \in Subnets : s # t => ~ Overlaps(subnet[s], subnet[t])
  /\ device \in SUBSET Devices
  /\ address \in [AddressIds -> {NoRow} \cup {row \in AddressRow :
                    /\ row.subnet # None => row.subnet \in Subnets /\ Contains(subnet[row.subnet], row.ip)
                    /\ row.device \in device \cup {None}}]
  /\ \A a, b \in Records : a # b => address[a].ip # address[b].ip
  /\ req = [r \in Requests |-> Idle]
  /\ served = 0
  /\ overtaken = {} /\ raced = FALSE /\ edited = {} /\ shifted = {} /\ crossed = {} /\ overlooked = {}
  /\ unlinked = {d \in device : Linked(d) = {}}

Next ==
  \E r \in Requests :
    \/ subnetCreate(r) \/ CreateSubnet(r) \/ subnetUpdate(r) \/ UpdateSubnet(r)
    \/ SubnetRefused(r) \/ DeleteSubnets(r)
    \/ loadSubnetPage(r) \/ CreateAddress(r) \/ loadAddressPage(r) \/ UpdateAddress(r)
    \/ AddressRefused(r) \/ BulkClearAddressDevice(r)
    \/ DeleteAddresses(r) \/ DeleteOrphanDevices(r) \/ LockOrphanDevices(r) \/ CommitAddresses(r)
    \/ DeleteDevices(r) \/ DeleteDeviceRows(r) \/ CommitDevices(r) \/ CreateDevice(r)
    \/ ApplySubnets(r) \/ ImportSubnets(r) \/ buildImportContext(r) \/ ApplyAddresses(r)
    \/ ImportAddresses(r) \/ CommitImport(r) \/ ImportRefused(r) \/ ImportDevices(r)

Spec == Init /\ [][Next]_vars

-----------------------------------------------------------------------------
(* Properties.                                                             *)

\* "Overlapping subnets are globally blocked" (subnetError): no two subnets overlap.
OverlapsBlocked == \A s, t \in Subnets : s # t => ~ Overlaps(subnet[s], subnet[t])

\* No two subnets overlap, as long as no create, edit or import wrote after
\* another one slipped between its overlap check and its write.
SubnetsDisjoint == ~ raced => OverlapsBlocked

\* An address refers to a subnet and a device that exist, no other address has its
\* ip, and it lies inside its subnet, unless the subnet's cidr was edited or an edit
\* of the address checked a subnet the row had left.
AddressesFiled ==
  /\ \A a \in Records : /\ address[a].subnet \in Subnets \cup {None}
                        /\ address[a].device \in device \cup {None}
                        /\ \/ address[a].subnet \in edited \cup {None}
                           \/ a \in shifted
                           \/ Contains(subnet[address[a].subnet], address[a].ip)
  /\ \A a, b \in Records : a # b => address[a].ip # address[b].ip

\* A device whose last address is removed is removed with it, unless two
\* removals, neither committed, each still saw the other's address.
OrphansRemoved == \A d \in device : Linked(d) = {} => d \in unlinked \cup crossed

\* Removing addresses changes no other address, not even one linked, while the
\* removal runs, to a device it takes along; except an address linked between the
\* statement that found the device orphaned and the lock on its row.
OthersUntouched ==
  [][\A r \in Requests : req[r].at = "commit addresses" /\ req'[r] = Idle =>
       \A a \in AddressIds \ (req[r].rows \cup overlooked) : address'[a] = address[a]]_vars
=============================================================================
