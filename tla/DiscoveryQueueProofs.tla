------------------------ MODULE DiscoveryQueueProofs ------------------------
(***************************************************************************)
(* Proofs, for any hosts, MACs, scans and operators, of the safety         *)
(* properties of DiscoveryQueue.                                           *)
(***************************************************************************)
EXTENDS DiscoveryQueue, TLAPS

QueueTyped ==
  /\ disc \in [IPs -> Discovery]
  /\ subnet \in [Subnets -> Subnet]
  /\ addr \in [Addresses -> IPAddress]
  /\ dev \in [Devices -> RowState]
  /\ owner \in [MACs -> Devices \cup {None}]

HandlersTyped ==
  /\ proc \in [Procs -> Process]
  /\ batch \in [Operators -> SUBSET IPs]

\* A handler that imports has been told to: by an operator, who named the host or the
\* list it is on, or by the report of a trusted agent.
HandlerOK(h) ==
  /\ h.pc # "idle" => h.ip \in IPs
  /\ h.pc \in {"load", "resolve", "write"} => h.ip \in approved
  /\ h.pc = "upsert" /\ h.trusted => h.ip \in approved

\* A row of ip_addresses that is not there refers to nothing.
RowsBlank == \A i \in Addresses : addr[i].row # "live" => addr[i].dev = None /\ addr[i].subnet = None

\* The handlers ask for imports that are approved.
HandlersInv ==
  /\ HandlersTyped
  /\ \A p \in Procs : HandlerOK(proc[p])
  /\ \A o \in Operators : batch[o] \subseteq approved

\* The rows of the queue and of the inventory agree.
RowsInv ==
  /\ QueueTyped /\ RowsBlank
  /\ ReferencesLive
  /\ QueueStateCoherent
  /\ QueueAgreesWithInventory
  /\ ImportsApproved

QueueInv == HandlersInv /\ RowsInv

LEMMA IdleHandler == Idle \in Process /\ HandlerOK(Idle) /\ Idle.pc = "idle"
BY DEF Idle, Process, HandlerOK, Reconcile

\* The fields of the rows.
LEMMA RowFields ==
  ASSUME QueueTyped
  PROVE  /\ \A ip \in IPs : /\ disc[ip].status \in {"none", "pending", "imported", "dismissed"}
                            /\ disc[ip].mac \in MACs \cup {None}
                            /\ disc[ip].addr \in Addresses \cup {None} /\ disc[ip].dev \in Devices \cup {None}
         /\ \A i \in Addresses : /\ addr[i].row \in RowState /\ addr[i].ip \in IPs \cup {None}
                                 /\ addr[i].subnet \in Subnets \cup {None} /\ addr[i].dev \in Devices \cup {None}
                                 /\ addr[i].deprecated \in BOOLEAN
         /\ \A m \in MACs : owner[m] \in Devices \cup {None}
BY DEF QueueTyped, Discovery, IPAddress

LEMMA InitInv == Init => QueueInv
<1> SUFFICES ASSUME Init PROVE QueueInv
  OBVIOUS
<1>1. QueueTyped
  BY DEF Init, QueueTyped, Discovery, NoDiscovery, Subnet, NoSubnet, IPAddress, NoAddress, NewAddress, RowState
<1>2. RowsBlank
  BY DEF Init, RowsBlank, NoAddress, NewAddress
<1>3. ReferencesLive
  BY DEF Init, ReferencesLive, NoDiscovery, NoAddress, NewAddress, LiveAddress
<1>4. QueueStateCoherent /\ QueueAgreesWithInventory /\ ImportsApproved
  BY DEF Init, QueueStateCoherent, QueueAgreesWithInventory, ImportsApproved, NoDiscovery
<1>5. HandlersInv
  BY IdleHandler DEF Init, HandlersInv, HandlersTyped
<1> QED BY <1>1, <1>2, <1>3, <1>4, <1>5 DEF QueueInv, RowsInv

-----------------------------------------------------------------------------
(* Handlers                                                                *)

\* A step of one handler.
LEMMA GotoHandlers ==
  ASSUME HandlersInv, NEW p \in Procs, NEW h \in Process, proc' = [proc EXCEPT ![p] = h],
         approved \subseteq approved',
         h.pc # "idle" => h.ip \in IPs,
         h.pc \in {"load", "resolve", "write"} => h.ip \in approved',
         h.pc = "upsert" /\ h.trusted => h.ip \in approved',
         batch' \in [Operators -> SUBSET IPs],
         \A o \in Operators : batch'[o] \subseteq approved'
  PROVE  HandlersInv'
<1>1. HandlersTyped'
  BY DEF HandlersInv, HandlersTyped
<1>2. ASSUME NEW q \in Procs PROVE HandlerOK(proc[q])'
  <2>1. CASE q = p
    <3>1. proc'[q] = h
      BY <2>1 DEF HandlersInv, HandlersTyped
    <3> QED BY <3>1 DEF HandlerOK
  <2>2. CASE q # p
    <3>1. HandlerOK(proc[q]) /\ proc'[q] = proc[q]
      BY <2>2 DEF HandlersInv, HandlersTyped
    <3> QED BY <3>1 DEF HandlerOK
  <2> QED BY <2>1, <2>2
<1> QED BY <1>1, <1>2 DEF HandlersInv

LEMMA QuietHandlers ==
  ASSUME HandlersInv, UNCHANGED <<proc, batch, approved>>
  PROVE  HandlersInv'
BY DEF HandlersInv, HandlersTyped, HandlerOK

LEMMA HandlerFields ==
  ASSUME NEW h \in Process
  PROVE  /\ h.pc \in {"idle", "upsert", "load", "resolve", "write", "syncLoad", "sync"}
         /\ h.ip \in IPs \cup {None} /\ h.mac \in MACs \cup {None} /\ h.found \in Reconcile /\ h.trusted \in BOOLEAN
         /\ h.dev \in Devices \cup {None} /\ h.subnet \in Subnets \cup {None}
BY DEF Process

\* Handlers that end.
LEMMA EndHandlers ==
  ASSUME HandlersInv, NEW p \in Procs, proc' = [proc EXCEPT ![p] = Idle], UNCHANGED approved,
         UNCHANGED batch \/ (p \in Operators /\ batch' = [batch EXCEPT ![p] = {}])
  PROVE  HandlersInv'
<1>1. batch' \in [Operators -> SUBSET IPs] /\ \A o \in Operators : batch'[o] \subseteq approved'
  BY DEF HandlersInv, HandlersTyped
<1> QED BY <1>1, IdleHandler, GotoHandlers

LEMMA NextHandlers == HandlersInv /\ QueueTyped /\ [Next]_vars => HandlersInv'
<1> SUFFICES ASSUME HandlersInv, QueueTyped, [Next]_vars PROVE HandlersInv'
  OBVIOUS
<1>0. /\ proc \in [Procs -> Process] /\ batch \in [Operators -> SUBSET IPs]
      /\ \A o \in Operators : batch[o] \subseteq approved
      /\ \A p \in Procs : HandlerOK(proc[p]) /\ proc[p] \in Process
      /\ \A o \in Operators : o \in Procs
      /\ \A w \in Scans : w \in Procs
  BY DEF HandlersInv, HandlersTyped, Procs
<1>1. ASSUME NEW w \in Scans, NEW ip \in IPs, NEW mac \in MACs \cup {None}, NEW trusted \in BOOLEAN,
             Observe(w, ip, mac, trusted)
      PROVE  HandlersInv'
  <2>1. PICK found \in Reconcile : found = ReconcileDiscovery(ip, mac)
    BY DEF ReconcileDiscovery, Reconcile
  <2> DEFINE h == [Idle EXCEPT !.pc = "upsert", !.ip = ip, !.mac = mac, !.found = found, !.trusted = trusted]
  <2>2. h \in Process /\ h.pc = "upsert" /\ h.ip = ip /\ h.trusted = trusted
    BY DEF Idle, Process
  <2>3. proc' = [proc EXCEPT ![w] = h]
    BY <1>1, <2>1 DEF Observe
  <2>4. approved \subseteq approved' /\ (trusted => ip \in approved') /\ UNCHANGED batch
    BY <1>1 DEF Observe
  <2> HIDE DEF h
  <2> QED BY <1>0, <2>2, <2>3, <2>4, GotoHandlers
<1>2. ASSUME NEW w \in Scans, UpsertDiscovery(w) PROVE HandlersInv'
  <2>1. PICK ip, pc : /\ ip = proc[w].ip /\ pc \in {"load", "syncLoad", "idle"}
                      /\ pc = "load" => proc[w].trusted
                      /\ proc[w].pc = "upsert"
                      /\ proc' = [proc EXCEPT ![w] = IF pc = "idle" THEN Idle ELSE [Idle EXCEPT !.pc = pc, !.ip = ip]]
                      /\ UNCHANGED <<batch, approved>>
    BY <1>2 DEF UpsertDiscovery, AfterUpsert, history
  <2>2. HandlerOK(proc[w])
    BY <1>0
  <2>3. ip \in IPs /\ (pc = "load" => ip \in approved)
    BY <2>1, <2>2 DEF HandlerOK
  <2>4. CASE pc = "idle"
    BY <1>0, <2>1, <2>4, EndHandlers
  <2>5. CASE pc # "idle"
    <3> DEFINE h == [Idle EXCEPT !.pc = pc, !.ip = ip]
    <3>1. h \in Process /\ h.pc = pc /\ h.ip = ip
      BY <2>1, <2>3 DEF Idle, Process, Reconcile
    <3>2. proc' = [proc EXCEPT ![w] = h]
      BY <2>1, <2>5
    <3>3. pc \in {"load", "syncLoad", "idle"} /\ UNCHANGED <<batch, approved>>
      BY <2>1
    <3> HIDE DEF h
    <3> QED BY <1>0, <2>3, <3>1, <3>2, <3>3, GotoHandlers
  <2> QED BY <2>4, <2>5
<1>3. ASSUME NEW w \in Scans, SyncLoad(w) PROVE HandlersInv'
  <2>0. HandlerOK(proc[w]) /\ proc[w] \in Process /\ proc[w].pc = "syncLoad"
    BY <1>0, <1>3 DEF SyncLoad
  <2>1. proc[w].ip \in IPs
    BY <2>0 DEF HandlerOK
  <2>2. PICK mac \in MACs \cup {None}, d \in Devices \cup {None} : mac = disc[proc[w].ip].mac /\ d = disc[proc[w].ip].dev
    BY <2>1, RowFields
  <2> DEFINE h == [proc[w] EXCEPT !.pc = "sync", !.mac = mac, !.dev = d]
  <2>3. proc' = [proc EXCEPT ![w] = Idle] \/ proc' = [proc EXCEPT ![w] = h]
    BY <1>0, <1>3, <2>2 DEF SyncLoad
  <2>4. h \in Process /\ h.pc = "sync" /\ h.ip = proc[w].ip
    BY <2>0, <2>2 DEF Process
  <2>5. UNCHANGED <<batch, approved>>
    BY <1>3 DEF SyncLoad, history
  <2> HIDE DEF h
  <2> QED BY <1>0, <2>1, <2>3, <2>4, <2>5, EndHandlers, GotoHandlers
<1>4. ASSUME NEW w \in Scans, SyncImported(w) PROVE HandlersInv'
  BY <1>0, <1>4, EndHandlers DEF SyncImported, history
<1>5. ASSUME NEW p \in Procs, LoadDiscovery(p) PROVE HandlersInv'
  <2>0. HandlerOK(proc[p]) /\ proc[p] \in Process /\ proc[p].pc = "load"
    BY <1>0, <1>5 DEF LoadDiscovery
  <2>1. proc[p].ip \in IPs /\ proc[p].ip \in approved
    BY <2>0 DEF HandlerOK
  <2>2. PICK mac \in MACs \cup {None}, d \in Devices \cup {None} : mac = disc[proc[p].ip].mac /\ d = disc[proc[p].ip].dev
    BY <2>1, RowFields
  <2> DEFINE h == [proc[p] EXCEPT !.pc = "resolve", !.mac = mac, !.dev = d]
  <2>3. proc' = [proc EXCEPT ![p] = h]
    BY <1>0, <1>5, <2>2 DEF LoadDiscovery
  <2>4. h \in Process /\ h.pc = "resolve" /\ h.ip = proc[p].ip
    BY <2>0, <2>2 DEF Process
  <2>5. UNCHANGED <<batch, approved>>
    BY <1>5 DEF LoadDiscovery, history
  <2> HIDE DEF h
  <2> QED BY <1>0, <2>1, <2>3, <2>4, <2>5, GotoHandlers
<1>6. ASSUME NEW p \in Procs, Resolve(p) PROVE HandlersInv'
  <2>0. HandlerOK(proc[p]) /\ proc[p] \in Process /\ proc[p].pc = "resolve" /\ UNCHANGED <<batch, approved>>
    BY <1>0, <1>6 DEF Resolve, history
  <2>1. proc[p].ip \in IPs /\ proc[p].ip \in approved
    BY <2>0 DEF HandlerOK
  <2>2. CASE proc' = [proc EXCEPT ![p] = Idle]
    BY <2>0, <2>2, EndHandlers
  <2>3. ASSUME NEW n \in Subnets, proc' = [proc EXCEPT ![p] = [@ EXCEPT !.pc = "write", !.dev = ReusedDevice(p), !.subnet = n]]
        PROVE  HandlersInv'
    <3>1. PICK d \in Devices \cup {None} : d = ReusedDevice(p)
      BY <2>0, RowFields, HandlerFields DEF ReusedDevice, LiveDevice
    <3> DEFINE h == [proc[p] EXCEPT !.pc = "write", !.dev = d, !.subnet = n]
    <3>2. proc' = [proc EXCEPT ![p] = h]
      BY <1>0, <2>3, <3>1
    <3>3. h \in Process /\ h.pc = "write" /\ h.ip = proc[p].ip
      BY <2>0 DEF Process
    <3> HIDE DEF h
    <3> QED BY <1>0, <2>0, <2>1, <3>2, <3>3, GotoHandlers
  <2> QED BY <1>6, <2>2, <2>3 DEF Resolve, Containing
<1>7. ASSUME NEW p \in Procs, NEW i \in Addresses, NEW d \in Devices, ImportDiscovery(p, i, d) PROVE HandlersInv'
  BY <1>7, EndHandlers DEF ImportDiscovery, history
<1>8. ASSUME NEW p \in Procs, ImportFails(p) PROVE HandlersInv'
  BY <1>8, EndHandlers DEF ImportFails, history
<1>9. ASSUME NEW o \in Operators, ImportAll(o) PROVE HandlersInv'
  <2>1. PICK S \in SUBSET IPs : /\ batch' = [batch EXCEPT ![o] = S] /\ approved' = approved \cup S
                               /\ UNCHANGED proc
    BY <1>9 DEF ImportAll, Importable
  <2>2. batch' \in [Operators -> SUBSET IPs] /\ \A q \in Operators : batch'[q] \subseteq approved'
    BY <1>0, <2>1
  <2> QED BY <1>0, <2>1, <2>2 DEF HandlersInv, HandlersTyped, HandlerOK
<1>10. ASSUME NEW o \in Operators, NEW ip \in IPs, ImportOne(o, ip) \/ ImportNext(o, ip) PROVE HandlersInv'
  <2> DEFINE h == [Idle EXCEPT !.pc = "load", !.ip = ip]
  <2>1. h \in Process /\ h.pc = "load" /\ h.ip = ip
    BY DEF Idle, Process, Reconcile
  <2>2. proc' = [proc EXCEPT ![o] = h]
    BY <1>10 DEF ImportOne, ImportNext
  <2> HIDE DEF h
  <2>3. CASE ImportOne(o, ip)
    BY <1>0, <2>1, <2>2, <2>3, GotoHandlers DEF ImportOne
  <2>4. CASE ImportNext(o, ip)
    <3>1. /\ ip \in batch[o] /\ batch' = [batch EXCEPT ![o] = @ \ {ip}] /\ UNCHANGED approved
      BY <2>4 DEF ImportNext, history
    <3>2. batch' \in [Operators -> SUBSET IPs] /\ \A q \in Operators : batch'[q] \subseteq approved'
      BY <1>0, <3>1
    <3> QED BY <1>0, <2>1, <2>2, <3>1, <3>2, GotoHandlers
  <2> QED BY <1>10, <2>3, <2>4
<1>11. ASSUME NEW ip \in IPs, DismissDiscovery(ip) PROVE HandlersInv'
  BY <1>11, QuietHandlers DEF DismissDiscovery, history
<1>12. CASE EditSubnets
  BY <1>12, QuietHandlers DEF EditSubnets, DeleteSubnet, CreateSubnet, UpdateSubnet, WriteSubnet, history
<1>13. CASE EditAddresses
  BY <1>13, QuietHandlers DEF EditAddresses, UpdateAddress, CreateAddress, DeleteAddresses, RemoveRows,
                              BulkClearAddressDevice, BulkSetAddressState, history
<1>14. CASE EditDevices
  BY <1>14, QuietHandlers DEF EditDevices, DeleteDevices, RemoveRows, CreateDevice, CreateMACAddress, DeleteMACAddress,
                              history
<1>15. CASE UNCHANGED vars
  BY <1>15, QuietHandlers DEF vars, history
<1> QED BY <1>1, <1>2, <1>3, <1>4, <1>5, <1>6, <1>7, <1>8, <1>9, <1>10, <1>11, <1>12, <1>13, <1>14, <1>15
        DEF Next, ScanStep, ImportStep, OperatorStep

-----------------------------------------------------------------------------
(* Rows                                                                    *)

\* Steps that write no row.
LEMMA QuietRows ==
  ASSUME RowsInv, UNCHANGED <<disc, subnet, addr, dev, owner, edited>>, approved \subseteq approved'
  PROVE  RowsInv'
BY DEF RowsInv, QueueTyped, RowsBlank, ReferencesLive, LiveAddress, LiveDevice, LiveSubnet, QueueStateCoherent,
       QueueAgreesWithInventory, ImportsApproved

\* The review status and the MAC of one discovery change; its links do not.
LEMMA StatusRows ==
  ASSUME RowsInv, NEW ip \in IPs, NEW status \in {"pending", "imported", "dismissed"}, NEW row \in Discovery,
         disc' = [disc EXCEPT ![ip] = row],
         row.addr = disc[ip].addr, row.dev = disc[ip].dev, row.status = status,
         status = "imported" => disc[ip].status = "imported",
         disc[ip].addr # None => status = "imported",
         UNCHANGED <<subnet, addr, dev, owner, approved, edited>>
  PROVE  RowsInv'
<1>0. disc \in [IPs -> Discovery]
  BY DEF RowsInv, QueueTyped
<1>1. \A k \in IPs : /\ disc'[k].addr = disc[k].addr /\ disc'[k].dev = disc[k].dev
                     /\ disc'[k].status = IF k = ip THEN status ELSE disc[k].status
  BY <1>0
<1>2. QueueTyped' /\ RowsBlank'
  BY <1>0 DEF RowsInv, QueueTyped, RowsBlank
<1>3. ReferencesLive'
  BY <1>1 DEF RowsInv, ReferencesLive, LiveAddress, LiveDevice, LiveSubnet
<1>4. QueueStateCoherent' /\ QueueAgreesWithInventory' /\ ImportsApproved'
  BY <1>1 DEF RowsInv, QueueStateCoherent, QueueAgreesWithInventory, ImportsApproved
<1> QED BY <1>2, <1>3, <1>4 DEF RowsInv

LEMMA UpsertRows ==
  ASSUME RowsInv, HandlersInv, NEW w \in Scans, UpsertDiscovery(w)
  PROVE  RowsInv'
<1>0. /\ proc[w] \in Process /\ HandlerOK(proc[w]) /\ proc[w].pc = "upsert" /\ QueueTyped
      /\ disc \in [IPs -> Discovery]
  BY DEF HandlersInv, HandlersTyped, Procs, UpsertDiscovery, RowsInv, QueueTyped
<1>1. PICK ip \in IPs : ip = proc[w].ip
  BY <1>0 DEF HandlerOK
<1>2. PICK status \in {"pending", "imported", "dismissed"} : status = ReviewStatus(ip, proc[w].found)
  <2>1. disc[ip].status \in {"none", "pending", "imported", "dismissed"}
    BY <1>0, RowFields
  <2> QED BY <2>1 DEF ReviewStatus
<1>3. PICK mac \in MACs \cup {None} : mac = IF proc[w].mac # None THEN proc[w].mac ELSE disc[ip].mac
  <2>1. disc[ip].mac \in MACs \cup {None} /\ proc[w].mac \in MACs \cup {None}
    BY <1>0, RowFields, HandlerFields
  <2> QED BY <2>1
<1> DEFINE row == [disc[ip] EXCEPT !.status = status, !.conflict = (proc[w].found = "conflict"), !.mac = mac]
<1>5. disc' = [disc EXCEPT ![ip] = row]
  <2>1. disc' = [disc EXCEPT ![ip] = [disc[ip] EXCEPT !.status = ReviewStatus(ip, proc[w].found),
                   !.conflict = (proc[w].found = "conflict"),
                   !.mac = IF proc[w].mac # None THEN proc[w].mac ELSE disc[ip].mac]]
    BY <1>0, <1>1, Zenon DEF UpsertDiscovery
  <2> QED BY <1>2, <1>3, <2>1, Zenon
<1>6. row \in Discovery /\ row.addr = disc[ip].addr /\ row.dev = disc[ip].dev /\ row.status = status
  BY <1>0 DEF Discovery
<1>7. /\ status = "imported" => disc[ip].status = "imported"
      /\ disc[ip].addr # None => status = "imported"
  BY <1>2 DEF ReviewStatus, RowsInv, QueueStateCoherent
<1>8. UNCHANGED <<subnet, addr, dev, owner, approved, edited>>
  BY DEF UpsertDiscovery, inventory, history
<1> HIDE DEF row
<1> QED BY <1>5, <1>6, <1>7, <1>8, StatusRows

LEMMA DismissRows ==
  ASSUME RowsInv, NEW ip \in IPs, DismissDiscovery(ip)
  PROVE  RowsInv'
<1>0. disc \in [IPs -> Discovery] /\ disc[ip] \in Discovery
  BY DEF RowsInv, QueueTyped
<1> DEFINE row == [disc[ip] EXCEPT !.status = "dismissed"]
<1>1. disc' = [disc EXCEPT ![ip] = row] /\ UNCHANGED <<subnet, addr, dev, owner, approved, edited>>
  BY <1>0 DEF DismissDiscovery, inventory, history
<1>2. row \in Discovery /\ row.addr = disc[ip].addr /\ row.dev = disc[ip].dev /\ row.status = "dismissed"
  BY <1>0 DEF Discovery
<1>3. disc[ip].addr = None
  BY DEF RowsInv, QueueStateCoherent, DismissDiscovery
<1> HIDE DEF row
<1> QED BY <1>1, <1>2, <1>3, StatusRows

\* A step that writes MACs only: new owners are live devices.
LEMMA OwnerRows ==
  ASSUME RowsInv, owner' \in [MACs -> Devices \cup {None}],
         \A m \in MACs : owner'[m] \in {owner[m], None} \/ LiveDevice(owner'[m]),
         UNCHANGED <<disc, subnet, addr, dev, approved, edited>>
  PROVE  RowsInv'
<1>1. QueueTyped' /\ RowsBlank' /\ QueueStateCoherent' /\ QueueAgreesWithInventory' /\ ImportsApproved'
  BY DEF RowsInv, QueueTyped, RowsBlank, QueueStateCoherent, QueueAgreesWithInventory, ImportsApproved
<1>2. ReferencesLive'
  BY DEF RowsInv, ReferencesLive, LiveAddress, LiveDevice, LiveSubnet
<1> QED BY <1>1, <1>2 DEF RowsInv

\* attachDiscoveryMAC takes no MAC from the device it is on.
LEMMA AttachKeeps ==
  ASSUME QueueTyped, NEW m \in MACs \cup {None}, NEW d \in Devices
  PROVE  /\ AttachMAC(m, d) \in [MACs -> Devices \cup {None}]
         /\ \A k \in MACs : /\ AttachMAC(m, d)[k] \in {owner[k], d}
                            /\ owner[k] # None => AttachMAC(m, d)[k] = owner[k]
BY DEF QueueTyped, AttachMAC

\* The transaction of an import: the rows it writes refer to rows that are there.
LEMMA ImportRows ==
  ASSUME RowsInv, HandlersInv, NEW p \in Procs, NEW i \in Addresses, NEW d \in Devices, ImportDiscovery(p, i, d)
  PROVE  RowsInv'
<1>0. /\ QueueTyped /\ RowsBlank /\ ReferencesLive /\ QueueStateCoherent /\ QueueAgreesWithInventory /\ ImportsApproved
      /\ disc \in [IPs -> Discovery] /\ addr \in [Addresses -> IPAddress] /\ dev \in [Devices -> RowState]
      /\ proc[p] \in Process /\ HandlerOK(proc[p]) /\ proc[p].pc = "write"
  BY DEF RowsInv, HandlersInv, HandlersTyped, QueueTyped, ImportDiscovery
<1>1. PICK ip \in IPs : ip = proc[p].ip /\ ip \in approved
  BY <1>0 DEF HandlerOK
<1>2. PICK n \in Subnets : n = proc[p].subnet /\ LiveSubnet(n)
  BY DEF ImportDiscovery, ImportKeysHold, LiveSubnet
<1>3. PICK m \in MACs \cup {None} : m = proc[p].mac
  BY <1>0, HandlerFields
<1>4. /\ dev' = [dev EXCEPT ![d] = "live"] /\ owner' = AttachMAC(m, d)
      /\ IF At(ip) # {} THEN i \in At(ip) ELSE NextAddress(i)
      /\ UNCHANGED <<subnet, approved, edited>>
  BY <1>1, <1>3 DEF ImportDiscovery, history
<1>5. addr' = [addr EXCEPT ![i] = NewAddress("live", ip, n, d, addr[i].deprecated)]
  BY <1>1, <1>2 DEF ImportDiscovery
<1>6. disc' = [disc EXCEPT ![ip] = [disc[ip] EXCEPT !.status = "imported", !.addr = i, !.dev = d]]
  BY <1>1 DEF ImportDiscovery, MarkImported
<1>7. /\ addr' \in [Addresses -> IPAddress]
      /\ addr'[i].row = "live" /\ addr'[i].ip = ip /\ addr'[i].subnet = n /\ addr'[i].dev = d
      /\ \A k \in Addresses \ {i} : addr'[k] = addr[k]
  <2>1. addr[i].deprecated \in BOOLEAN
    BY <1>0, RowFields
  <2> DEFINE row == NewAddress("live", ip, n, d, addr[i].deprecated)
  <2>2. row \in IPAddress /\ row.row = "live" /\ row.ip = ip /\ row.subnet = n /\ row.dev = d
    BY <2>1 DEF NewAddress, IPAddress, RowState
  <2> HIDE DEF row
  <2>3. addr' = [addr EXCEPT ![i] = row]
    BY <1>5 DEF row
  <2> QED BY <1>0, <2>2, <2>3
<1>8. /\ disc' \in [IPs -> Discovery]
      /\ disc'[ip].status = "imported" /\ disc'[ip].addr = i /\ disc'[ip].dev = d
      /\ \A k \in IPs \ {ip} : disc'[k] = disc[k]
  BY <1>0, <1>6 DEF Discovery
<1>9. /\ owner' \in [MACs -> Devices \cup {None}]
      /\ \A k \in MACs : owner'[k] \in {owner[k], d}
  BY <1>0, <1>4, AttachKeeps
<1>10. dev' \in [Devices -> RowState] /\ dev'[d] = "live" /\ \A k \in Devices : dev[k] = "live" => dev'[k] = "live"
  BY <1>0, <1>4 DEF RowState
<1>11. QueueTyped' /\ RowsBlank'
  BY <1>0, <1>4, <1>7, <1>8, <1>9, <1>10 DEF QueueTyped, RowsBlank
<1>12. ReferencesLive'
  <2>1. /\ \A k : LiveAddress(k) => LiveAddress(k)'
        /\ \A k : LiveDevice(k) => LiveDevice(k)'
        /\ \A k : LiveSubnet(k) => LiveSubnet(k)'
        /\ LiveAddress(i)' /\ LiveDevice(d)'
    BY <1>4, <1>7, <1>10 DEF LiveAddress, LiveDevice, LiveSubnet
  <2>2. ASSUME NEW k \in IPs
        PROVE  /\ disc'[k].addr # None => LiveAddress(disc[k].addr)'
               /\ disc'[k].dev # None => LiveDevice(disc[k].dev)'
    <3>1. CASE k = ip
      BY <1>8, <2>1, <3>1
    <3>2. CASE k # ip
      <4>1. disc'[k] = disc[k]
        BY <1>8, <3>2
      <4>2. /\ disc[k].addr # None => LiveAddress(disc[k].addr)
            /\ disc[k].dev # None => LiveDevice(disc[k].dev)
        BY <1>0 DEF ReferencesLive
      <4>3. PICK a, e : a = disc[k].addr /\ e = disc[k].dev
        OBVIOUS
      <4> QED BY <2>1, <4>1, <4>2, <4>3 DEF LiveAddress, LiveDevice
    <3> QED BY <3>1, <3>2
  <2>3. ASSUME NEW k \in Addresses, LiveAddress(k)'
        PROVE  /\ addr'[k].dev # None => LiveDevice(addr[k].dev)'
               /\ addr'[k].subnet # None => LiveSubnet(addr[k].subnet)'
    <3>1. CASE k = i
      BY <1>2, <1>4, <1>7, <1>10, <3>1 DEF LiveDevice, LiveSubnet
    <3>2. CASE k # i
      <4>1. addr'[k] = addr[k] /\ LiveAddress(k)
        BY <1>7, <2>3, <3>2 DEF LiveAddress
      <4>2. /\ addr[k].dev # None => LiveDevice(addr[k].dev)
            /\ addr[k].subnet # None => LiveSubnet(addr[k].subnet)
        BY <1>0, <4>1 DEF ReferencesLive
      <4> QED BY <1>4, <1>10, <4>1, <4>2 DEF LiveDevice, LiveSubnet
    <3> QED BY <3>1, <3>2
  <2>4. ASSUME NEW k \in MACs, owner'[k] # None PROVE LiveDevice(owner[k])'
    <3>1. owner[k] # None => LiveDevice(owner[k])
      BY <1>0 DEF ReferencesLive
    <3> QED BY <1>9, <1>10, <2>4, <3>1 DEF LiveDevice
  <2> QED BY <2>2, <2>3, <2>4 DEF ReferencesLive
<1>13. QueueStateCoherent' /\ ImportsApproved'
  BY <1>0, <1>1, <1>4, <1>8 DEF QueueStateCoherent, ImportsApproved
<1>14. QueueAgreesWithInventory'
  <2> SUFFICES ASSUME NEW k \in IPs, disc'[k].addr # None, disc'[k].addr \notin edited
               PROVE  addr'[disc'[k].addr].ip = k /\ addr'[disc'[k].addr].dev = disc'[k].dev
    BY <1>4 DEF QueueAgreesWithInventory
  <2>1. CASE k = ip
    BY <1>7, <1>8, <2>1
  <2>2. CASE k # ip
    <3>1. disc'[k] = disc[k] /\ addr[disc[k].addr].ip = k /\ addr[disc[k].addr].dev = disc[k].dev
      BY <1>0, <1>8, <2>2 DEF QueueAgreesWithInventory
    <3>2. disc[k].addr \in Addresses /\ addr[disc[k].addr].row = "live"
      BY <1>0, <3>1 DEF ReferencesLive, LiveAddress
    <3>3. disc[k].addr # i
      BY <1>4, <2>2, <3>1, <3>2 DEF At, NextAddress
    <3> QED BY <1>7, <3>1, <3>2, <3>3
  <2> QED BY <2>1, <2>2
<1> QED BY <1>11, <1>12, <1>13, <1>14 DEF RowsInv

\* Removals: every reference to a row that goes becomes NULL with it.
LEMMA RemovedRows ==
  ASSUME RowsInv, NEW A \in SUBSET Addresses, NEW D \in SUBSET Devices, RemoveRows(A, D)
  PROVE  RowsInv'
<1>0. /\ QueueTyped /\ RowsBlank /\ ReferencesLive /\ QueueStateCoherent /\ QueueAgreesWithInventory /\ ImportsApproved
      /\ disc \in [IPs -> Discovery] /\ addr \in [Addresses -> IPAddress] /\ dev \in [Devices -> RowState]
      /\ owner \in [MACs -> Devices \cup {None}]
      /\ None \notin A /\ None \notin D
  BY QueueAssumption DEF RowsInv, QueueTyped
<1>1. UNCHANGED <<subnet, approved, edited>>
  BY DEF RemoveRows, history
<1>2. ASSUME NEW i \in Addresses
      PROVE  /\ addr'[i] \in IPAddress
             /\ i \in A => addr'[i].row = "deleted" /\ addr'[i].dev = None /\ addr'[i].subnet = None
             /\ i \notin A => /\ addr'[i].row = addr[i].row /\ addr'[i].ip = addr[i].ip
                              /\ addr'[i].subnet = addr[i].subnet
                              /\ addr'[i].dev = IF addr[i].dev \in D THEN None ELSE addr[i].dev
  <2>1. /\ addr[i] \in IPAddress
        /\ addr'[i] = IF i \in A THEN NoAddress("deleted")
                      ELSE IF addr[i].dev \in D THEN [addr[i] EXCEPT !.dev = None] ELSE addr[i]
    BY <1>0 DEF RemoveRows
  <2>2. CASE i \in A
    BY <2>1, <2>2 DEF NoAddress, NewAddress, IPAddress, RowState
  <2>3. CASE i \notin A /\ addr[i].dev \in D
    BY <2>1, <2>3 DEF IPAddress
  <2>4. CASE i \notin A /\ addr[i].dev \notin D
    BY <2>1, <2>4
  <2> QED BY <2>2, <2>3, <2>4
<1>3. ASSUME NEW ip \in IPs
      PROVE  /\ disc'[ip] \in Discovery /\ disc'[ip].status = disc[ip].status
             /\ disc'[ip].addr = IF disc[ip].addr \in A THEN None ELSE disc[ip].addr
             /\ disc'[ip].dev = IF disc[ip].dev \in D THEN None ELSE disc[ip].dev
  <2>1. /\ disc[ip] \in Discovery
        /\ disc'[ip] = [disc[ip] EXCEPT !.addr = IF disc[ip].addr \in A THEN None ELSE disc[ip].addr,
                                        !.dev = IF disc[ip].dev \in D THEN None ELSE disc[ip].dev]
    BY <1>0 DEF RemoveRows
  <2>2. PICK a \in Addresses \cup {None}, d \in Devices \cup {None} :
          /\ a = IF disc[ip].addr \in A THEN None ELSE disc[ip].addr
          /\ d = IF disc[ip].dev \in D THEN None ELSE disc[ip].dev
    BY <1>0, RowFields
  <2>3. disc'[ip] = [disc[ip] EXCEPT !.addr = a, !.dev = d]
    BY <2>1, <2>2
  <2> QED BY <2>1, <2>2, <2>3 DEF Discovery
<1>4. /\ dev' = [d \in Devices |-> IF d \in D THEN "deleted" ELSE dev[d]]
      /\ owner' = [m \in MACs |-> IF owner[m] \in D THEN None ELSE owner[m]]
  BY DEF RemoveRows, ClearOwners
<1>5. QueueTyped'
  <2>1. addr' = [i \in Addresses |-> addr'[i]] /\ disc' = [ip \in IPs |-> disc'[ip]]
    BY DEF RemoveRows
  <2>2. addr' \in [Addresses -> IPAddress] /\ disc' \in [IPs -> Discovery]
    BY <1>2, <1>3, <2>1
  <2>3. dev' \in [Devices -> RowState] /\ owner' \in [MACs -> Devices \cup {None}]
    BY <1>0, <1>4 DEF RowState
  <2> QED BY <1>0, <1>1, <2>2, <2>3 DEF QueueTyped
<1>6. RowsBlank'
  BY <1>0, <1>2 DEF RowsBlank
<1>7. ReferencesLive'
  <2>1. /\ \A i \in Addresses \ A : LiveAddress(i) => LiveAddress(i)'
        /\ \A i \in Addresses : LiveAddress(i)' => LiveAddress(i) /\ i \notin A
        /\ \A d \in Devices \ D : LiveDevice(d) => LiveDevice(d)'
        /\ \A n : LiveSubnet(n)' <=> LiveSubnet(n)
    BY <1>1, <1>2, <1>4 DEF LiveAddress, LiveDevice, LiveSubnet
  <2>2. ASSUME NEW ip \in IPs
        PROVE  /\ disc'[ip].addr # None => LiveAddress(disc[ip].addr)'
               /\ disc'[ip].dev # None => LiveDevice(disc[ip].dev)'
    <3>1. /\ disc[ip].addr # None => LiveAddress(disc[ip].addr)
          /\ disc[ip].dev # None => LiveDevice(disc[ip].dev)
      BY <1>0 DEF ReferencesLive
    <3> QED BY <1>2, <1>3, <1>4, <3>1 DEF LiveAddress, LiveDevice
  <2>3. ASSUME NEW i \in Addresses, LiveAddress(i)'
        PROVE  /\ addr'[i].dev # None => LiveDevice(addr[i].dev)'
               /\ addr'[i].subnet # None => LiveSubnet(addr[i].subnet)'
    <3>1. LiveAddress(i) /\ i \notin A
      BY <2>1, <2>3
    <3>2. /\ addr[i].dev # None => LiveDevice(addr[i].dev)
          /\ addr[i].subnet # None => LiveSubnet(addr[i].subnet)
      BY <1>0, <3>1 DEF ReferencesLive
    <3> QED BY <1>1, <1>2, <1>4, <3>1, <3>2 DEF LiveDevice, LiveSubnet
  <2>4. ASSUME NEW m \in MACs, owner'[m] # None PROVE LiveDevice(owner[m])'
    <3>1. owner[m] # None => LiveDevice(owner[m])
      BY <1>0 DEF ReferencesLive
    <3> QED BY <1>4, <2>4, <3>1 DEF LiveDevice
  <2> QED BY <2>2, <2>3, <2>4 DEF ReferencesLive
<1>8. QueueStateCoherent' /\ ImportsApproved'
  BY <1>0, <1>1, <1>3 DEF QueueStateCoherent, ImportsApproved
<1>9. QueueAgreesWithInventory'
  <2> SUFFICES ASSUME NEW ip \in IPs, disc'[ip].addr # None, disc'[ip].addr \notin edited
               PROVE  addr'[disc'[ip].addr].ip = ip /\ addr'[disc'[ip].addr].dev = disc'[ip].dev
    BY <1>1 DEF QueueAgreesWithInventory
  <2>1. disc'[ip].addr = disc[ip].addr /\ disc[ip].addr \notin A /\ disc[ip].addr \in Addresses
    BY <1>0, <1>3, RowFields
  <2>2. addr[disc[ip].addr].ip = ip /\ addr[disc[ip].addr].dev = disc[ip].dev
    BY <1>0, <2>1 DEF QueueAgreesWithInventory
  <2> QED BY <1>2, <1>3, <2>1, <2>2
<1> QED BY <1>5, <1>6, <1>7, <1>8, <1>9 DEF RowsInv

\* Edits by hand of subnets and addresses.  An address that gets another ip or device
\* counts as edited.
LEMMA EditRows ==
  ASSUME RowsInv, UNCHANGED <<disc, dev, owner, approved>>, edited \subseteq edited',
         addr' \in [Addresses -> IPAddress], subnet' \in [Subnets -> Subnet], RowsBlank',
         \A i \in Addresses : addr[i].row = "live" =>
           /\ addr'[i].row = "live"
           /\ i \in edited' \/ (addr'[i].ip = addr[i].ip /\ addr'[i].dev = addr[i].dev),
         \A i \in Addresses : addr'[i].row = "live" =>
           /\ addr'[i].dev # None => LiveDevice(addr'[i].dev)
           /\ addr'[i].subnet # None => addr'[i].subnet \in Subnets /\ subnet'[addr'[i].subnet].row = "live"
  PROVE  RowsInv'
<1>0. /\ QueueTyped /\ ReferencesLive /\ QueueStateCoherent /\ QueueAgreesWithInventory /\ ImportsApproved
  BY DEF RowsInv
<1>1. QueueTyped' /\ QueueStateCoherent' /\ ImportsApproved'
  BY <1>0 DEF QueueTyped, QueueStateCoherent, ImportsApproved
<1>2. ReferencesLive'
  <2>1. \A ip \in IPs : /\ disc'[ip].addr # None => LiveAddress(disc[ip].addr)'
                        /\ disc'[ip].dev # None => LiveDevice(disc[ip].dev)'
    BY <1>0 DEF ReferencesLive, LiveAddress, LiveDevice
  <2>2. \A i \in Addresses : LiveAddress(i)' => /\ addr'[i].dev # None => LiveDevice(addr[i].dev)'
                                                /\ addr'[i].subnet # None => LiveSubnet(addr[i].subnet)'
    BY DEF LiveAddress, LiveDevice, LiveSubnet
  <2>3. \A m \in MACs : owner'[m] # None => LiveDevice(owner[m])'
    BY <1>0 DEF ReferencesLive, LiveDevice
  <2> QED BY <2>1, <2>2, <2>3 DEF ReferencesLive, LiveAddress, LiveDevice, LiveSubnet
<1>3. QueueAgreesWithInventory'
  <2> SUFFICES ASSUME NEW ip \in IPs, disc[ip].addr # None, disc[ip].addr \notin edited'
               PROVE  addr'[disc[ip].addr].ip = ip /\ addr'[disc[ip].addr].dev = disc[ip].dev
    BY DEF QueueAgreesWithInventory
  <2>1. disc[ip].addr \in Addresses /\ addr[disc[ip].addr].row = "live"
    BY <1>0 DEF ReferencesLive, LiveAddress
  <2>2. addr[disc[ip].addr].ip = ip /\ addr[disc[ip].addr].dev = disc[ip].dev
    BY <1>0 DEF QueueAgreesWithInventory
  <2> QED BY <2>1, <2>2
<1> QED BY <1>1, <1>2, <1>3 DEF RowsInv

LEMMA SubnetEdits ==
  ASSUME RowsInv, EditSubnets
  PROVE  RowsInv'
<1>0. /\ QueueTyped /\ RowsBlank /\ ReferencesLive
      /\ addr \in [Addresses -> IPAddress] /\ subnet \in [Subnets -> Subnet]
      /\ None \notin Subnets /\ None \notin Addresses
  BY QueueAssumption DEF RowsInv, QueueTyped
<1>l. \A i \in Addresses : addr[i].row = "live" =>
        /\ addr[i].dev # None => LiveDevice(addr[i].dev)
        /\ addr[i].subnet # None => addr[i].subnet \in Subnets /\ subnet[addr[i].subnet].row = "live"
  BY <1>0 DEF ReferencesLive, LiveAddress, LiveSubnet
<1>1. ASSUME NEW n \in Subnets, NEW cidr \in SUBSET IPs, WriteSubnet(n, cidr) PROVE RowsInv'
  <2>1. /\ subnet' = [subnet EXCEPT ![n] = [row |-> "live", cidr |-> cidr]]
        /\ UNCHANGED <<disc, addr, dev, owner, approved, edited>>
    BY <1>1 DEF WriteSubnet, history
  <2>2. /\ subnet' \in [Subnets -> Subnet] /\ subnet'[n].row = "live"
        /\ \A k \in Subnets : subnet[k].row = "live" => subnet'[k].row = "live"
    BY <1>0, <2>1 DEF Subnet, RowState
  <2>3. RowsBlank'
    BY <1>0, <2>1 DEF RowsBlank
  <2> QED BY <1>0, <1>l, <2>1, <2>2, <2>3, EditRows
<1>2. ASSUME NEW n \in Subnets, DeleteSubnet(n) PROVE RowsInv'
  <2>1. /\ subnet' = [subnet EXCEPT ![n] = NoSubnet("deleted")]
        /\ addr' = DetachAddresses(n)
        /\ UNCHANGED <<disc, dev, owner, approved, edited>>
    BY <1>2 DEF DeleteSubnet, history
  <2>2. subnet' \in [Subnets -> Subnet] /\ \A k \in Subnets \ {n} : subnet'[k] = subnet[k]
    BY <1>0, <2>1 DEF Subnet, RowState, NoSubnet
  <2>3. ASSUME NEW i \in Addresses
        PROVE  /\ addr'[i] \in IPAddress /\ addr'[i].row = addr[i].row /\ addr'[i].ip = addr[i].ip
               /\ addr'[i].dev = addr[i].dev
               /\ addr'[i].subnet = IF addr[i].subnet = n THEN None ELSE addr[i].subnet
    <3>1. addr[i] \in IPAddress
      BY <1>0
    <3>2. addr'[i] = IF addr[i].subnet = n THEN [addr[i] EXCEPT !.subnet = None] ELSE addr[i]
      BY <2>1 DEF DetachAddresses
    <3> QED BY <3>1, <3>2 DEF IPAddress
  <2>4. addr' \in [Addresses -> IPAddress]
    <3>1. addr' = [i \in Addresses |-> addr'[i]]
      BY <2>1 DEF DetachAddresses
    <3> QED BY <2>3, <3>1
  <2>5. RowsBlank'
    BY <1>0, <2>3 DEF RowsBlank
  <2>6. \A i \in Addresses : addr'[i].row = "live" =>
          /\ addr'[i].dev # None => LiveDevice(addr'[i].dev)
          /\ addr'[i].subnet # None => addr'[i].subnet \in Subnets /\ subnet'[addr'[i].subnet].row = "live"
    BY <1>l, <2>2, <2>3
  <2> QED BY <2>1, <2>2, <2>3, <2>4, <2>5, <2>6, EditRows
<1> QED BY <1>1, <1>2 DEF EditSubnets, CreateSubnet, UpdateSubnet

LEMMA AddressEdits ==
  ASSUME RowsInv, EditAddresses
  PROVE  RowsInv'
<1>0. /\ QueueTyped /\ RowsBlank /\ ReferencesLive
      /\ addr \in [Addresses -> IPAddress] /\ subnet \in [Subnets -> Subnet]
      /\ None \notin Subnets /\ None \notin Addresses
  BY QueueAssumption DEF RowsInv, QueueTyped
<1>l. \A i \in Addresses : addr[i].row = "live" =>
        /\ addr[i].dev # None => LiveDevice(addr[i].dev)
        /\ addr[i].subnet # None => addr[i].subnet \in Subnets /\ subnet[addr[i].subnet].row = "live"
  BY <1>0 DEF ReferencesLive, LiveAddress, LiveSubnet
<1>1. ASSUME NEW i \in Addresses, NEW ip \in IPs, NEW d \in Devices \cup {None}, NEW deprecated \in BOOLEAN,
             NEW n \in Subnets, LiveSubnet(n), d # None => LiveDevice(d),
             addr' = [addr EXCEPT ![i] = NewAddress("live", ip, n, d, deprecated)],
             edited' = edited \cup {i},
             UNCHANGED <<disc, subnet, dev, owner, approved>>
      PROVE  RowsInv'
  <2> DEFINE row == NewAddress("live", ip, n, d, deprecated)
  <2>1. row \in IPAddress /\ row.row = "live" /\ row.subnet = n /\ row.dev = d
    BY DEF NewAddress, IPAddress, RowState
  <2> HIDE DEF row
  <2>2. addr'[i] = row /\ addr' \in [Addresses -> IPAddress] /\ \A k \in Addresses \ {i} : addr'[k] = addr[k]
    BY <1>0, <1>1, <2>1 DEF row
  <2>3. RowsBlank'
    BY <1>0, <2>1, <2>2 DEF RowsBlank
  <2>4. \A k \in Addresses : addr'[k].row = "live" =>
          /\ addr'[k].dev # None => LiveDevice(addr'[k].dev)
          /\ addr'[k].subnet # None => addr'[k].subnet \in Subnets /\ subnet'[addr'[k].subnet].row = "live"
    <3>1. subnet[n].row = "live" /\ UNCHANGED subnet
      BY <1>1 DEF LiveSubnet
    <3>2. d # None => LiveDevice(d)
      BY <1>1
    <3> QED BY <1>l, <2>1, <2>2, <3>1, <3>2
  <2>5. \A k \in Addresses : addr[k].row = "live" =>
           /\ addr'[k].row = "live"
           /\ k \in edited' \/ (addr'[k].ip = addr[k].ip /\ addr'[k].dev = addr[k].dev)
    BY <1>1, <2>1, <2>2
  <2> QED BY <1>0, <1>1, <2>2, <2>3, <2>4, <2>5, EditRows
<1>2. ASSUME NEW A \in SUBSET Addresses, NEW f,
             addr' = [i \in Addresses |-> IF i \in A THEN f[i] ELSE addr[i]],
             \A i \in A : /\ f[i] \in IPAddress /\ f[i].row = addr[i].row /\ f[i].ip = addr[i].ip
                          /\ f[i].subnet = addr[i].subnet /\ f[i].dev \in {addr[i].dev, None}
                          /\ f[i].dev = addr[i].dev \/ i \in edited',
             edited \subseteq edited', UNCHANGED <<disc, subnet, dev, owner, approved>>
      PROVE  RowsInv'
  <2>1. \A i \in Addresses : /\ addr'[i] \in IPAddress /\ addr'[i].row = addr[i].row /\ addr'[i].ip = addr[i].ip
                             /\ addr'[i].subnet = addr[i].subnet /\ addr'[i].dev \in {addr[i].dev, None}
                             /\ addr'[i].dev = addr[i].dev \/ i \in edited'
    BY <1>0, <1>2
  <2>2. addr' \in [Addresses -> IPAddress]
    <3>1. addr' = [i \in Addresses |-> addr'[i]]
      BY <1>2
    <3> QED BY <2>1, <3>1
  <2>3. RowsBlank'
    BY <1>0, <2>1 DEF RowsBlank
  <2>4. \A k \in Addresses : addr'[k].row = "live" =>
          /\ addr'[k].dev # None => LiveDevice(addr'[k].dev)
          /\ addr'[k].subnet # None => addr'[k].subnet \in Subnets /\ subnet'[addr'[k].subnet].row = "live"
    BY <1>l, <1>2, <2>1
  <2> QED BY <1>0, <1>2, <2>1, <2>2, <2>3, <2>4, EditRows
<1>3. ASSUME NEW i \in Addresses, NEW ip \in IPs, NEW d \in Devices \cup {None}, NEW deprecated \in BOOLEAN,
             UpdateAddress(i, ip, d, deprecated)
      PROVE  RowsInv'
  <2>1. PICK n \in Subnets : n = addr[i].subnet /\ LiveSubnet(n)
    BY <1>3 DEF UpdateAddress, LiveSubnet
  <2>2. addr' = [addr EXCEPT ![i] = NewAddress("live", ip, n, d, deprecated)]
    BY <1>3, <2>1 DEF UpdateAddress
  <2> QED BY <1>1, <1>3, <2>1, <2>2 DEF UpdateAddress
<1>4. ASSUME NEW i \in Addresses, NEW ip \in IPs, NEW d \in Devices \cup {None}, NEW deprecated \in BOOLEAN,
             NEW n \in Subnets, CreateAddress(i, n, ip, d, deprecated)
      PROVE  RowsInv'
  BY <1>1, <1>4 DEF CreateAddress
<1>5. ASSUME NEW A \in SUBSET Addresses, NEW deprecated \in BOOLEAN, BulkSetAddressState(A, deprecated) PROVE RowsInv'
  <2> DEFINE f == [i \in A |-> [addr[i] EXCEPT !.deprecated = deprecated]]
  <2>1. addr' = [i \in Addresses |-> IF i \in A THEN f[i] ELSE addr[i]]
    BY <1>5 DEF BulkSetAddressState
  <2>2. \A i \in A : /\ f[i] \in IPAddress /\ f[i].row = addr[i].row /\ f[i].ip = addr[i].ip
                     /\ f[i].subnet = addr[i].subnet /\ f[i].dev = addr[i].dev
    BY <1>0 DEF IPAddress
  <2>3. edited \subseteq edited' /\ UNCHANGED <<disc, subnet, dev, owner, approved>>
    BY <1>5 DEF BulkSetAddressState, history
  <2> HIDE DEF f
  <2>4. \A i \in A : /\ f[i] \in IPAddress /\ f[i].row = addr[i].row /\ f[i].ip = addr[i].ip
                     /\ f[i].subnet = addr[i].subnet /\ f[i].dev \in {addr[i].dev, None}
                     /\ f[i].dev = addr[i].dev \/ i \in edited'
    BY <2>2
  <2> QED BY <1>2, <2>1, <2>3, <2>4
<1>6. ASSUME NEW A \in SUBSET Addresses, BulkClearAddressDevice(A) PROVE RowsInv'
  <2> DEFINE f == [i \in A |-> [addr[i] EXCEPT !.dev = None]]
  <2>1. addr' = [i \in Addresses |-> IF i \in A THEN f[i] ELSE addr[i]]
    BY <1>6 DEF BulkClearAddressDevice
  <2>2. \A i \in A : /\ f[i] \in IPAddress /\ f[i].row = addr[i].row /\ f[i].ip = addr[i].ip
                     /\ f[i].subnet = addr[i].subnet /\ f[i].dev = None
    BY <1>0 DEF IPAddress
  <2>3. edited' = edited \cup A /\ UNCHANGED <<disc, subnet, dev, owner, approved>>
    BY <1>6 DEF BulkClearAddressDevice
  <2> HIDE DEF f
  <2>4. \A i \in A : /\ f[i] \in IPAddress /\ f[i].row = addr[i].row /\ f[i].ip = addr[i].ip
                     /\ f[i].subnet = addr[i].subnet /\ f[i].dev \in {addr[i].dev, None}
                     /\ f[i].dev = addr[i].dev \/ i \in edited'
    BY <2>2, <2>3
  <2> QED BY <1>2, <2>1, <2>3, <2>4
<1>7. ASSUME NEW A \in SUBSET Addresses, DeleteAddresses(A) PROVE RowsInv'
  <2> DEFINE D == {d \in {addr[i].dev : i \in A} \ {None} : \A k \in Addresses : addr[k].dev = d => k \in A}
  <2>1. D \in SUBSET Devices
    BY <1>0, RowFields
  <2>2. RemoveRows(A, D)
    BY <1>7 DEF DeleteAddresses
  <2> HIDE DEF D
  <2> QED BY <2>1, <2>2, RemovedRows
<1> QED BY <1>3, <1>4, <1>5, <1>6, <1>7 DEF EditAddresses

LEMMA DeviceEdits ==
  ASSUME RowsInv, EditDevices
  PROVE  RowsInv'
<1>0. QueueTyped /\ owner \in [MACs -> Devices \cup {None}] /\ dev \in [Devices -> RowState]
  BY DEF RowsInv, QueueTyped
<1>1. ASSUME NEW D \in SUBSET Devices, DeleteDevices(D) PROVE RowsInv'
  <2> DEFINE A == {i \in Addresses : addr[i].dev \in D}
  <2>1. A \in SUBSET Addresses /\ RemoveRows(A, D)
    BY <1>1 DEF DeleteDevices
  <2> HIDE DEF A
  <2> QED BY <2>1, RemovedRows
<1>2. ASSUME NEW d \in Devices, CreateDevice(d) PROVE RowsInv'
  <2>1. dev' = [dev EXCEPT ![d] = "live"] /\ UNCHANGED <<disc, subnet, addr, owner, approved, edited>>
    BY <1>2 DEF CreateDevice
  <2>2. dev' \in [Devices -> RowState] /\ \A k : LiveDevice(k) => LiveDevice(k)'
    BY <1>0, <2>1 DEF RowState, LiveDevice
  <2>3. QueueTyped' /\ RowsBlank' /\ QueueStateCoherent' /\ QueueAgreesWithInventory' /\ ImportsApproved'
    BY <2>1, <2>2 DEF RowsInv, QueueTyped, RowsBlank, QueueStateCoherent, QueueAgreesWithInventory, ImportsApproved
  <2>4. \A k \in Devices : dev[k] = "live" => dev'[k] = "live"
    BY <1>0, <2>1
  <2>5. ReferencesLive'
    BY <2>1, <2>4 DEF RowsInv, ReferencesLive, LiveAddress, LiveDevice, LiveSubnet
  <2> QED BY <2>3, <2>5 DEF RowsInv
<1>3. ASSUME NEW m \in MACs, NEW d \in Devices, CreateMACAddress(m, d) PROVE RowsInv'
  <2>1. LiveDevice(d) /\ owner' = [owner EXCEPT ![m] = d] /\ UNCHANGED <<disc, subnet, addr, dev, approved, edited>>
    BY <1>3 DEF CreateMACAddress, history
  <2> QED BY <1>0, <2>1, OwnerRows
<1>4. ASSUME NEW m \in MACs, DeleteMACAddress(m) PROVE RowsInv'
  <2>1. owner' = [owner EXCEPT ![m] = None] /\ UNCHANGED <<disc, subnet, addr, dev, approved, edited>>
    BY <1>4 DEF DeleteMACAddress, history
  <2> QED BY <1>0, <2>1, OwnerRows
<1> QED BY <1>1, <1>2, <1>3, <1>4 DEF EditDevices

LEMMA NextRows == HandlersInv /\ RowsInv /\ [Next]_vars => RowsInv'
<1> SUFFICES ASSUME HandlersInv, RowsInv, [Next]_vars PROVE RowsInv'
  OBVIOUS
<1>1. ASSUME NEW w \in Scans, NEW ip, NEW mac, NEW trusted, Observe(w, ip, mac, trusted) PROVE RowsInv'
  BY <1>1, QuietRows DEF Observe, inventory
<1>2. ASSUME NEW w \in Scans, SyncLoad(w) PROVE RowsInv'
  BY <1>2, QuietRows DEF SyncLoad, inventory, history
<1>3. ASSUME NEW w \in Scans, SyncImported(w) PROVE RowsInv'
  <2>1. QueueTyped /\ owner \in [MACs -> Devices \cup {None}] /\ proc[w] \in Process
    BY DEF RowsInv, QueueTyped, HandlersInv, HandlersTyped, Procs
  <2>2. UNCHANGED <<disc, subnet, addr, dev, approved, edited>>
    BY <1>3 DEF SyncImported, history
  <2>3. CASE LiveDevice(proc[w].dev)
    <3>1. PICK m \in MACs \cup {None}, d \in Devices : m = proc[w].mac /\ d = proc[w].dev
      BY <2>1, <2>3, HandlerFields DEF LiveDevice
    <3>2. owner' = AttachMAC(m, d)
      BY <1>3, <2>3, <3>1 DEF SyncImported
    <3>3. owner' \in [MACs -> Devices \cup {None}] /\ \A k \in MACs : owner'[k] \in {owner[k], d}
      BY <2>1, <3>2, AttachKeeps
    <3>4. LiveDevice(d)
      BY <2>3, <3>1
    <3>5. \A k \in MACs : owner'[k] \in {owner[k], None} \/ LiveDevice(owner'[k])
      BY <3>3, <3>4
    <3> QED BY <2>2, <3>3, <3>5, OwnerRows
  <2>4. CASE owner' = owner
    BY <2>1, <2>2, <2>4, OwnerRows
  <2> QED BY <1>3, <2>3, <2>4 DEF SyncImported
<1>4. ASSUME NEW p \in Procs, LoadDiscovery(p) \/ Resolve(p) \/ ImportFails(p) PROVE RowsInv'
  BY <1>4, QuietRows DEF LoadDiscovery, Resolve, ImportFails, inventory, history
<1>5. ASSUME NEW o \in Operators, NEW ip, ImportAll(o) \/ ImportOne(o, ip) \/ ImportNext(o, ip) PROVE RowsInv'
  BY <1>5, QuietRows DEF ImportAll, ImportOne, ImportNext, inventory, history
<1>6. CASE UNCHANGED vars
  BY <1>6, QuietRows DEF vars, inventory, history
<1> QED BY <1>1, <1>2, <1>3, <1>4, <1>5, <1>6, UpsertRows, DismissRows, ImportRows, SubnetEdits, AddressEdits, DeviceEdits
        DEF Next, ScanStep, ImportStep, OperatorStep

LEMMA QueueInvariant == Spec => []QueueInv
<1>1. QueueInv /\ [Next]_vars => QueueInv'
  BY NextHandlers, NextRows DEF QueueInv, RowsInv
<1> QED BY <1>1, InitInv, PTL DEF Spec

(***************************************************************************)
(* A host is imported only after an operator chose it or a trusted agent   *)
(* reported it (recordDiscoveries, maybeAutoImport, importTargets),        *)
(* however the copies the handlers work with are interleaved.              *)
(***************************************************************************)
THEOREM ImportsStayApproved == Spec => []ImportsApproved
BY QueueInvariant, PTL DEF QueueInv, RowsInv

(***************************************************************************)
(* No deletion that falls between the statements of an import, a sync or   *)
(* another edit leaves a reference to a row that is gone: the foreign keys *)
(* of migrations.go, with their ON DELETE clauses, are enough.             *)
(***************************************************************************)
THEOREM ReferencesStayLive == Spec => []ReferencesLive
BY QueueInvariant, PTL DEF QueueInv, RowsInv

(***************************************************************************)
(* A discovery that is pending or dismissed has no address of the          *)
(* inventory behind it, whatever scans, imports and deletions ran between  *)
(* (UpsertDiscovery, ImportDiscovery, DismissDiscovery).                   *)
(***************************************************************************)
THEOREM QueueStaysCoherent == Spec => []QueueStateCoherent
BY QueueInvariant, PTL DEF QueueInv, RowsInv

(***************************************************************************)
(* What the queue says of an imported host is what the inventory says,     *)
(* until somebody edits the address (ImportDiscovery, SyncImported).       *)
(***************************************************************************)
THEOREM QueueStaysInStep == Spec => []QueueAgreesWithInventory
BY QueueInvariant, PTL DEF QueueInv, RowsInv
(***************************************************************************)
(* A MAC on record changes hands only by being removed first: neither an   *)
(* import nor a sync (attachDiscoveryMAC), however late, takes it from the *)
(* device it is recorded on.                                               *)
(***************************************************************************)
THEOREM MACsStayPut == Spec => MACsNeverMove
<1> DEFINE Stay == \A m \in MACs : owner[m] # None => owner'[m] \in {owner[m], None}
<1>1. ASSUME QueueInv, [Next]_vars PROVE [Stay]_vars
  <2>0. QueueTyped /\ owner \in [MACs -> Devices \cup {None}] /\ \A p \in Procs : proc[p] \in Process
    BY <1>1 DEF QueueInv, RowsInv, QueueTyped, HandlersInv, HandlersTyped
  <2>1. ASSUME NEW m \in MACs \cup {None}, NEW d \in Devices, owner' = AttachMAC(m, d) PROVE Stay
    <3>1. \A k \in MACs : owner[k] # None => AttachMAC(m, d)[k] = owner[k]
      BY <2>0, AttachKeeps
    <3> QED BY <2>1, <3>1
  <2>2. ASSUME NEW p \in Procs, NEW i \in Addresses, NEW d \in Devices, ImportDiscovery(p, i, d) PROVE Stay
    <3>1. proc[p].mac \in MACs \cup {None}
      BY <2>0, HandlerFields
    <3>2. owner' = AttachMAC(proc[p].mac, d)
      BY <2>2 DEF ImportDiscovery
    <3> QED BY <2>1, <3>1, <3>2
  <2>3. ASSUME NEW w \in Scans, SyncImported(w) PROVE Stay
    <3>1. proc[w].mac \in MACs \cup {None}
      BY <2>0, HandlerFields DEF Procs
    <3>2. CASE LiveDevice(proc[w].dev)
      <4>1. owner' = AttachMAC(proc[w].mac, proc[w].dev) /\ proc[w].dev \in Devices
        BY <2>3, <3>2 DEF SyncImported, LiveDevice
      <4> QED BY <2>1, <3>1, <4>1
    <3> QED BY <2>3, <3>2 DEF SyncImported
  <2>4. ASSUME NEW D, owner' = ClearOwners(D) PROVE Stay
    BY <2>4 DEF ClearOwners
  <2>5. ASSUME NEW m \in MACs, NEW d \in Devices, CreateMACAddress(m, d) PROVE Stay
    BY <2>0, <2>5 DEF CreateMACAddress
  <2>6. ASSUME NEW m \in MACs, DeleteMACAddress(m) PROVE Stay
    BY <2>0, <2>6 DEF DeleteMACAddress
  <2>7. CASE EditDevices
    <3>1. ASSUME NEW D, DeleteDevices(D) PROVE Stay
      BY <2>4, <3>1 DEF DeleteDevices, RemoveRows
    <3>2. ASSUME NEW d, CreateDevice(d) PROVE Stay
      BY <3>2 DEF CreateDevice
    <3> QED BY <2>5, <2>6, <2>7, <3>1, <3>2 DEF EditDevices
  <2>8. CASE EditAddresses
    <3>1. ASSUME NEW A, DeleteAddresses(A) PROVE Stay
      BY <2>4, <3>1 DEF DeleteAddresses, RemoveRows
    <3>2. ASSUME UNCHANGED owner PROVE Stay
      BY <3>2
    <3> QED BY <2>8, <3>1, <3>2 DEF EditAddresses, UpdateAddress, CreateAddress, BulkClearAddressDevice, BulkSetAddressState
  <2>9. ASSUME UNCHANGED owner PROVE Stay
    BY <2>9
  <2>10. CASE EditSubnets
    BY <2>9, <2>10 DEF EditSubnets, DeleteSubnet, CreateSubnet, UpdateSubnet, WriteSubnet
  <2>11. ASSUME NEW w \in Scans, ScanStep(w) PROVE Stay
    BY <2>3, <2>9, <2>11 DEF ScanStep, Observe, UpsertDiscovery, SyncLoad, inventory
  <2>12. ASSUME NEW p \in Procs, ImportStep(p) PROVE Stay
    BY <2>2, <2>9, <2>12 DEF ImportStep, LoadDiscovery, Resolve, ImportFails, inventory
  <2>13. ASSUME NEW o \in Operators, OperatorStep(o) PROVE Stay
    BY <2>9, <2>13 DEF OperatorStep, ImportAll, ImportOne, ImportNext, inventory
  <2>14. ASSUME NEW ip \in IPs, DismissDiscovery(ip) PROVE Stay
    BY <2>9, <2>14 DEF DismissDiscovery, inventory
  <2> HIDE DEF Stay
  <2> QED BY <1>1, <2>7, <2>8, <2>10, <2>11, <2>12, <2>13, <2>14 DEF Next
<1> QED BY <1>1, QueueInvariant, PTL DEF Spec, MACsNeverMove
=============================================================================
