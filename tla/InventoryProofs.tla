-------------------------- MODULE InventoryProofs --------------------------
(***************************************************************************)
(* Proofs, for any inventory, any files and any number of requests, of the *)
(* safety properties of Inventory.                                         *)
(***************************************************************************)
EXTENDS Inventory, FiniteSetTheorems, TLAPS

-----------------------------------------------------------------------------
(* Types, what handlers carry, and addresses in their subnets              *)

Points == {"idle", "insert subnet", "update subnet", "import subnets", "insert address", "update address",
           "orphans", "delete orphans", "commit addresses", "devices", "commit devices",
           "import context", "import addresses", "commit import"}
FileRow == [ip : Addresses, subnet : SubnetIds, device : Devices \cup {None}]
Handler == [at : Points, nets : SUBSET (SubnetIds \X CIDRs), rows : SUBSET AddressIds,
            devs : SUBSET Devices, file : SUBSET FileRow, cidrs : SUBSET CIDRs]

RowsTyped ==
  /\ subnet \in [SubnetIds -> CIDRs \cup {None}]
  /\ address \in [AddressIds -> AddressRow \cup {NoRow}]
  /\ device \in SUBSET Devices
  /\ req \in [Requests -> Handler]

\* The subnet a handler loaded still has that cidr, or was edited, or is gone: its
\* identifier is not given to another row meanwhile.  Every row of a file that is
\* about to be written lies in a subnet of the file's context.
HandlerOK(h) ==
  /\ h.at \in {"insert address", "update address", "import context", "import addresses", "commit import"} =>
       \A net \in h.nets : net[1] \in Subnets => subnet[net[1]] = net[2] \/ net[1] \in edited
  /\ h.at \in {"import addresses", "commit import"} =>
       /\ \A row \in h.file : \E net \in h.nets : net[1] = row.subnet /\ row.ip \in net[2]
       /\ \A x, y \in h.file : x.ip = y.ip => x = y

FiledInv ==
  /\ RowsTyped
  /\ AddressesFiled
  /\ \A r \in Requests : HandlerOK(req[r])

\* A row of ip_addresses has an ip, so it is not the absent row.
LEMMA RowPresent == \A x \in AddressRow : x # NoRow
BY InventoryAssumption DEF AddressRow, NoRow

LEMMA RowFields ==
  ASSUME RowsTyped, NEW a \in AddressIds
  PROVE  /\ a \in Records <=> address[a] \in AddressRow
         /\ a \in Records => /\ address[a].ip \in Addresses /\ address[a].ip # None
                             /\ address[a].subnet \in SubnetIds \cup {None}
                             /\ address[a].device \in Devices \cup {None}
         /\ a \notin Records => /\ address[a] = NoRow
                                /\ address[a].device = None /\ address[a].subnet = None
<1>1. address[a] \in AddressRow \cup {NoRow}
  BY DEF RowsTyped
<1> QED BY <1>1, RowPresent, InventoryAssumption DEF Records, AddressRow, NoRow

LEMMA IdleHandler == Idle \in Handler /\ HandlerOK(Idle) /\ Idle.at = "idle"
BY DEF Idle, Handler, Points, HandlerOK

LEMMA HandlerFields ==
  ASSUME NEW h \in Handler
  PROVE  /\ h.at \in Points /\ h.rows \subseteq AddressIds /\ h.devs \subseteq Devices
         /\ h.file \subseteq FileRow /\ h.cidrs \subseteq CIDRs
         /\ \A net \in h.nets : net[1] \in SubnetIds /\ net[2] \in CIDRs
BY DEF Handler

\* One subnet as a handler read it.
LEMMA NetSet ==
  ASSUME NEW s \in SubnetIds, NEW c \in CIDRs
  PROVE  {<<s, c>>} \in SUBSET (SubnetIds \X CIDRs) /\ \A net \in {<<s, c>>} : net[1] = s /\ net[2] = c
OBVIOUS

\* A step that moves one request and writes no row.
LEMMA GotoFiled ==
  ASSUME FiledInv, NEW r \in Requests, NEW h \in Handler, HandlerOK(h), req' = [req EXCEPT ![r] = h],
         UNCHANGED <<subnet, address, device, edited, shifted>>
  PROVE  FiledInv'
<1>1. RowsTyped' /\ AddressesFiled'
  BY DEF FiledInv, RowsTyped, AddressesFiled, Records, Subnets
<1>2. ASSUME NEW k \in Requests PROVE HandlerOK(req[k])'
  <2>1. CASE k = r
    BY <2>1 DEF HandlerOK, Subnets, FiledInv, RowsTyped
  <2>2. CASE k # r
    <3>1. HandlerOK(req[k]) /\ req'[k] = req[k]
      BY <2>2 DEF FiledInv, RowsTyped
    <3> QED BY <3>1 DEF HandlerOK, Subnets
  <2> QED BY <2>1, <2>2
<1> QED BY <1>1, <1>2 DEF FiledInv

\* A step that writes rows, after which its request is idle.
LEMMA WriteFiled ==
  ASSUME FiledInv, NEW r \in Requests, req' = [req EXCEPT ![r] = Idle] \/ UNCHANGED req,
         subnet' \in [SubnetIds -> CIDRs \cup {None}],
         address' \in [AddressIds -> AddressRow \cup {NoRow}],
         device' \in SUBSET Devices,
         AddressesFiled',
         \A k \in Requests : \A net \in req[k].nets : net[1] \in Subnets' =>
           /\ net[1] \in Subnets
           /\ subnet'[net[1]] = subnet[net[1]] \/ net[1] \in edited'
           /\ net[1] \in edited => net[1] \in edited'
  PROVE  FiledInv'
<1>1. RowsTyped' /\ \A k \in Requests : req'[k] = req[k] \/ req'[k] = Idle
  BY IdleHandler DEF FiledInv, RowsTyped
<1>2. ASSUME NEW k \in Requests PROVE HandlerOK(req[k])'
  <2>1. CASE req'[k] = Idle
    BY <2>1 DEF HandlerOK, Idle
  <2>2. CASE req'[k] = req[k]
    <3>1. HandlerOK(req[k])
      BY DEF FiledInv
    <3> QED BY <2>2, <3>1 DEF HandlerOK
  <2> QED BY <1>1, <2>1, <2>2
<1> QED BY <1>1, <1>2 DEF FiledInv

\* Requests that begin: what they carry is typed and current.
LEMMA BeginFiled ==
  ASSUME FiledInv, NEW r \in Requests,
         \/ subnetCreate(r) \/ subnetUpdate(r) \/ loadSubnetPage(r) \/ loadAddressPage(r)
         \/ DeleteAddresses(r) \/ DeleteDevices(r) \/ ApplySubnets(r) \/ buildImportContext(r)
  PROVE  FiledInv'
<1>0. RowsTyped /\ AddressesFiled
  BY DEF FiledInv
<1>g. ASSUME NEW h \in Handler, HandlerOK(h), Begin(r, h) PROVE FiledInv'
  BY <1>g, GotoFiled DEF Begin, inventory, history
<1>s. \A s \in Subnets : s \in SubnetIds /\ subnet[s] \in CIDRs
  BY <1>0 DEF Subnets, RowsTyped
<1>1. ASSUME NEW c \in CIDRs, Begin(r, [Idle EXCEPT !.at = "insert subnet", !.cidrs = {c}]) PROVE FiledInv'
  <2> DEFINE h == [Idle EXCEPT !.at = "insert subnet", !.cidrs = {c}]
  <2>1. h \in Handler /\ HandlerOK(h)
    BY DEF Idle, Handler, Points, HandlerOK
  <2> QED BY <1>1, <1>g, <2>1
<1>n. ASSUME NEW nets \in SUBSET (SubnetIds \X CIDRs), NEW rows \in SUBSET AddressIds, NEW h,
             NEW at \in {"update subnet", "insert address", "update address", "import context"},
             \/ h = [Idle EXCEPT !.at = at, !.nets = nets]
             \/ h = [Idle EXCEPT !.at = at, !.rows = rows, !.nets = nets],
             at = "update subnet" \/ \A net \in nets : subnet[net[1]] = net[2],
             Begin(r, h)
      PROVE  FiledInv'
  <2>1. h \in Handler /\ h.at = at /\ h.nets = nets
    BY <1>n DEF Idle, Handler, Points
  <2>2. HandlerOK(h)
    <3>1. at = "update subnet" \/ \A net \in h.nets : subnet[net[1]] = net[2]
      BY <1>n, <2>1, Zenon
    <3> QED BY <2>1, <3>1 DEF HandlerOK
  <2> QED BY <1>g, <1>n, <2>1, <2>2
<1>2. ASSUME NEW s \in Subnets, NEW c \in CIDRs, Begin(r, [Idle EXCEPT !.at = "update subnet", !.nets = {<<s, c>>}])
      PROVE  FiledInv'
  <2> DEFINE nets == {<<s, c>>}
  <2>1. nets \in SUBSET (SubnetIds \X CIDRs)
    BY <1>s, NetSet
  <2>2. Begin(r, [Idle EXCEPT !.at = "update subnet", !.nets = nets])
    BY <1>2
  <2> HIDE DEF nets
  <2> QED BY <1>n, <2>1, <2>2
<1>3. ASSUME NEW s \in Subnets, Begin(r, [Idle EXCEPT !.at = "insert address", !.nets = {<<s, subnet[s]>>}])
      PROVE  FiledInv'
  <2> DEFINE nets == {<<s, subnet[s]>>}
  <2>1. nets \in SUBSET (SubnetIds \X CIDRs) /\ \A net \in nets : net[1] = s /\ net[2] = subnet[s]
    <3>1. s \in SubnetIds /\ subnet[s] \in CIDRs
      BY <1>s
    <3> QED BY <3>1, NetSet
  <2>2. Begin(r, [Idle EXCEPT !.at = "insert address", !.nets = nets])
    BY <1>3
  <2> HIDE DEF nets
  <2> QED BY <1>n, <2>1, <2>2
<1>4. ASSUME NEW a \in Records, address[a].subnet # None,
             Begin(r, [Idle EXCEPT !.at = "update address", !.rows = {a},
                             !.nets = {<<address[a].subnet, subnet[address[a].subnet]>>}])
      PROVE  FiledInv'
  <2> DEFINE s == address[a].subnet
             nets == {<<s, subnet[s]>>}
             rows == {a}
  <2>1. s \in Subnets /\ a \in AddressIds
    BY <1>0, <1>4 DEF AddressesFiled, Records
  <2>2. Begin(r, [Idle EXCEPT !.at = "update address", !.rows = rows, !.nets = nets])
    BY <1>4
  <2>3. rows \in SUBSET AddressIds
    BY <2>1
  <2> HIDE DEF s
  <2>4. nets \in SUBSET (SubnetIds \X CIDRs) /\ \A net \in nets : net[1] = s /\ net[2] = subnet[s]
    <3>1. s \in SubnetIds /\ subnet[s] \in CIDRs
      BY <1>s, <2>1
    <3> QED BY <3>1, NetSet
  <2> HIDE DEF nets, rows
  <2> QED BY <1>n, <2>2, <2>3, <2>4
<1>5. ASSUME NEW A \in SUBSET Records, NEW D \in SUBSET Devices, NEW at \in {"orphans", "devices"},
             Begin(r, [Idle EXCEPT !.at = at, !.rows = A, !.devs = D])
      PROVE  FiledInv'
  <2> DEFINE h == [Idle EXCEPT !.at = at, !.rows = A, !.devs = D]
  <2>1. h \in Handler /\ HandlerOK(h)
    BY DEF Idle, Handler, Points, HandlerOK, Records
  <2> QED BY <1>5, <1>g, <2>1
<1>6. CASE DeleteAddresses(r)
  <2>1. PICK A \in (SUBSET Records) \ {{}} :
               Begin(r, [Idle EXCEPT !.at = "orphans", !.rows = A, !.devs = {address[a].device : a \in A} \ {None}])
    BY <1>6 DEF DeleteAddresses
  <2>2. {address[a].device : a \in A} \ {None} \in SUBSET Devices
    BY <1>0, RowFields DEF Records
  <2> QED BY <1>5, <2>1, <2>2
<1>7. CASE DeleteDevices(r)
  <2>1. PICK D \in (SUBSET device) \ {{}} :
               Begin(r, [Idle EXCEPT !.at = "devices", !.rows = UNION {Linked(d) : d \in D}, !.devs = D])
    BY <1>7 DEF DeleteDevices
  <2>2. UNION {Linked(d) : d \in D} \in SUBSET Records /\ D \in SUBSET Devices
    BY <1>0 DEF Linked, RowsTyped
  <2> QED BY <1>5, <2>1, <2>2
<1>8. CASE ApplySubnets(r)
  <2>1. PICK file \in SUBSET CIDRs : Begin(r, [Idle EXCEPT !.at = "import subnets", !.cidrs = file])
    BY <1>8 DEF ApplySubnets, Files
  <2> DEFINE h == [Idle EXCEPT !.at = "import subnets", !.cidrs = file]
  <2>2. h \in Handler /\ HandlerOK(h)
    BY DEF Idle, Handler, Points, HandlerOK
  <2> QED BY <1>g, <2>1, <2>2
<1>9. CASE buildImportContext(r)
  <2> DEFINE nets == {<<s, subnet[s]>> : s \in Subnets}
  <2>1. nets \in SUBSET (SubnetIds \X CIDRs) /\ \A net \in nets : subnet[net[1]] = net[2]
    BY <1>s
  <2>2. Begin(r, [Idle EXCEPT !.at = "import context", !.nets = nets])
    BY <1>9 DEF buildImportContext
  <2> HIDE DEF nets
  <2> QED BY <1>n, <2>1, <2>2
<1> QED BY <1>1, <1>2, <1>3, <1>4, <1>6, <1>7, <1>8, <1>9
        DEF subnetCreate, subnetUpdate, loadSubnetPage, loadAddressPage

\* Requests that go on, or give up, without writing a row.
LEMMA MoveFiled ==
  ASSUME FiledInv, NEW r \in Requests,
         \/ SubnetRefused(r) \/ AddressRefused(r) \/ ImportRefused(r)
         \/ DeleteOrphanDevices(r) \/ LockOrphanDevices(r) \/ DeleteDeviceRows(r)
         \/ ApplyAddresses(r) \/ ImportAddresses(r)
  PROVE  FiledInv'
<1>0. /\ RowsTyped /\ req \in [Requests -> Handler] /\ req[r] \in Handler
      /\ HandlerOK(req[r])
  BY DEF FiledInv, RowsTyped
<1>1. CASE Refused(r)
  BY <1>1, IdleHandler, GotoFiled DEF Refused, Done, inventory
<1>2. CASE DeleteOrphanDevices(r) \/ LockOrphanDevices(r)
  <2>0. /\ req[r].devs \subseteq Devices
        /\ UNCHANGED <<subnet, address, device, edited, shifted>>
    BY <1>0, <1>2, HandlerFields DEF DeleteOrphanDevices, LockOrphanDevices, inventory, history
  <2>1. PICK gone \in SUBSET Devices, at \in {"delete orphans", "commit addresses"} :
          req' = [req EXCEPT ![r].at = at, ![r].devs = gone]
    BY <1>2, <2>0 DEF DeleteOrphanDevices, LockOrphanDevices
  <2> DEFINE h == [req[r] EXCEPT !.at = at, !.devs = gone]
  <2>2. h \in Handler /\ h.at = at /\ req' = [req EXCEPT ![r] = h]
    BY <1>0, <2>1 DEF Handler, Points
  <2> HIDE DEF h
  <2>3. HandlerOK(h)
    BY <2>1, <2>2 DEF HandlerOK
  <2> QED BY <2>0, <2>2, <2>3, GotoFiled
<1>3. CASE DeleteDeviceRows(r)
  <2> DEFINE h == [req[r] EXCEPT !.at = "commit devices"]
  <2>2. h \in Handler /\ h.at = "commit devices" /\ req' = [req EXCEPT ![r] = h]
    BY <1>0, <1>3 DEF DeleteDeviceRows, Handler, Points
  <2> HIDE DEF h
  <2>3. HandlerOK(h)
    BY <2>2 DEF HandlerOK
  <2> QED BY <1>3, <2>2, <2>3, GotoFiled DEF DeleteDeviceRows, inventory, history
<1>4. CASE ApplyAddresses(r)
  <2>1. PICK file \in Files(ImportRows(r)) :
          /\ req[r].at = "import context"
          /\ validateAddresses(r, file)
          /\ req' = [req EXCEPT ![r].at = "import addresses", ![r].file = file,
                                ![r].devs = {row.device : row \in file} \ {None}]
          /\ UNCHANGED <<inventory, served, history>>
    BY <1>4 DEF ApplyAddresses
  <2>2. /\ file \in SUBSET FileRow
        /\ \A row \in file : \E net \in req[r].nets : net[1] = row.subnet /\ row.ip \in net[2]
    BY <2>1 DEF Files, ImportRows, FileRow, containingSubnet, Contains
  <2>3. {row.device : row \in file} \ {None} \in SUBSET Devices
    BY <2>2 DEF FileRow
  <2>4. PICK devs \in SUBSET Devices :
          req' = [req EXCEPT ![r].at = "import addresses", ![r].file = file, ![r].devs = devs]
    BY <2>1, <2>3
  <2> DEFINE h == [req[r] EXCEPT !.at = "import addresses", !.file = file, !.devs = devs]
  <2>5. /\ h \in Handler /\ h.at = "import addresses" /\ h.file = file /\ h.nets = req[r].nets
        /\ req' = [req EXCEPT ![r] = h]
    BY <1>0, <2>2, <2>4 DEF Handler, Points
  <2> HIDE DEF h
  <2>6. HandlerOK(h)
    <3>1. \A net \in h.nets : net[1] \in Subnets => subnet[net[1]] = net[2] \/ net[1] \in edited
      BY <1>0, <2>1, <2>5 DEF HandlerOK
    <3>2. \A x, y \in h.file : x.ip = y.ip => x = y
      BY <2>1, <2>5 DEF validateAddresses
    <3> QED BY <2>2, <2>5, <3>1, <3>2, Zenon DEF HandlerOK
  <2>7. UNCHANGED <<subnet, address, device, edited, shifted>>
    BY <2>1 DEF inventory, history
  <2> QED BY <2>5, <2>6, <2>7, GotoFiled
<1>5. CASE ImportAddresses(r)
  <2> DEFINE h == [req[r] EXCEPT !.at = "commit import"]
  <2>1. /\ h \in Handler /\ h.at = "commit import" /\ h.file = req[r].file /\ h.nets = req[r].nets
        /\ req' = [req EXCEPT ![r] = h] /\ req[r].at = "import addresses"
    BY <1>0, <1>5 DEF ImportAddresses, Handler, Points
  <2> HIDE DEF h
  <2>2. HandlerOK(h)
    BY <1>0, <2>1 DEF HandlerOK
  <2> QED BY <1>5, <2>1, <2>2, GotoFiled DEF ImportAddresses, inventory, history
<1> QED BY <1>1, <1>2, <1>3, <1>4, <1>5 DEF SubnetRefused, AddressRefused, ImportRefused

\* A device that is created has no address and changes none.
LEMMA DeviceFiled ==
  ASSUME FiledInv, NEW r \in Requests, CreateDevice(r) \/ ImportDevices(r)
  PROVE  FiledInv'
<1>1. PICK d \in Devices : device' = device \cup {d} /\ UNCHANGED <<subnet, address, req, edited, shifted>>
  BY DEF CreateDevice, ImportDevices, NewDevices
<1>2. AddressesFiled'
  BY <1>1 DEF FiledInv, AddressesFiled, Records, Subnets
<1> QED BY <1>1, <1>2, WriteFiled DEF FiledInv, RowsTyped, Subnets

\* Writes of subnets.  A new row takes an identifier that no handler holds.
LEMMA SubnetsFiled ==
  ASSUME FiledInv, NEW r \in Requests,
         CreateSubnet(r) \/ UpdateSubnet(r) \/ ImportSubnets(r)
  PROVE  FiledInv'
<1>0. /\ RowsTyped /\ AddressesFiled /\ req \in [Requests -> Handler] /\ req[r] \in Handler
      /\ subnet \in [SubnetIds -> CIDRs \cup {None}] /\ None \notin CIDRs
  BY InventoryAssumption DEF FiledInv, RowsTyped
<1>1. ASSUME NEW n, NEW S \in NewSubnets(n), NEW rowOf \in [S -> CIDRs],
             subnet' = [s \in SubnetIds |-> IF s \in S THEN rowOf[s] ELSE subnet[s]],
             req' = [req EXCEPT ![r] = Idle], UNCHANGED <<address, device, edited, shifted>>
      PROVE  FiledInv'
  <2>1. /\ S \subseteq SubnetIds /\ S \cap Subnets = {}
        /\ \A k \in Requests : \A net \in req[k].nets : net[1] \notin S
    BY <1>1 DEF NewSubnets
  <2>2. subnet' \in [SubnetIds -> CIDRs \cup {None}]
    BY <1>0, <1>1
  <2>3. /\ Subnets' = Subnets \cup S
        /\ \A s \in Subnets : subnet'[s] = subnet[s]
    BY <1>0, <1>1, <2>1 DEF Subnets
  <2>4. AddressesFiled'
    BY <1>0, <1>1, <2>3 DEF AddressesFiled, Records
  <2> QED BY <1>0, <1>1, <2>1, <2>2, <2>3, <2>4, WriteFiled DEF RowsTyped
<1>2. CASE CreateSubnet(r)
  <2>1. PICK c \in req[r].cidrs, S \in NewSubnets(1) :
          /\ subnet' = [s \in SubnetIds |-> IF s \in S THEN c ELSE subnet[s]]
          /\ req' = [req EXCEPT ![r] = Idle]
          /\ UNCHANGED <<address, device, edited, shifted>>
    BY <1>2 DEF CreateSubnet, Done
  <2> DEFINE rowOf == [s \in S |-> c]
  <2>2. c \in CIDRs
    BY <1>0, <2>1, HandlerFields
  <2>3. rowOf \in [S -> CIDRs] /\ subnet' = [s \in SubnetIds |-> IF s \in S THEN rowOf[s] ELSE subnet[s]]
    BY <2>1, <2>2
  <2> HIDE DEF rowOf
  <2> QED BY <1>1, <2>1, <2>3
<1>3. CASE ImportSubnets(r)
  <2> DEFINE new == {c \in req[r].cidrs : ~ Taken(None, c)}
  <2>0. PICK S \in NewSubnets(Cardinality(new)) : \E rowOf \in [S -> new] :
          /\ subnet' = [s \in SubnetIds |-> IF s \in S THEN rowOf[s] ELSE subnet[s]]
          /\ req' = [req EXCEPT ![r] = Idle]
          /\ UNCHANGED <<address, device, edited, shifted>>
    BY <1>3 DEF ImportSubnets, Done
  <2>1. PICK rowOf \in [S -> new] :
          /\ subnet' = [s \in SubnetIds |-> IF s \in S THEN rowOf[s] ELSE subnet[s]]
          /\ req' = [req EXCEPT ![r] = Idle]
          /\ UNCHANGED <<address, device, edited, shifted>>
    BY <2>0
  <2>2. new \subseteq CIDRs
    BY <1>0, HandlerFields
  <2> HIDE DEF new
  <2>3. rowOf \in [S -> CIDRs]
    BY <2>1, <2>2
  <2> QED BY <1>1, <2>1, <2>3
<1>4. CASE UpdateSubnet(r)
  <2>1. PICK net \in req[r].nets :
          /\ net[1] \in Subnets
          /\ subnet' = [subnet EXCEPT ![net[1]] = net[2]]
          /\ edited' = IF subnet[net[1]] = net[2] THEN edited ELSE edited \cup {net[1]}
          /\ req' = [req EXCEPT ![r] = Idle]
          /\ UNCHANGED <<address, device, shifted>>
    BY <1>4 DEF UpdateSubnet, Done
  <2>2. PICK s \in SubnetIds, c \in CIDRs : s = net[1] /\ c = net[2]
    BY <1>0, <2>1, HandlerFields
  <2>3. subnet' = [subnet EXCEPT ![s] = c] /\ edited \subseteq edited' /\ (subnet[s] = c \/ s \in edited')
    BY <2>1, <2>2
  <2>4. subnet' \in [SubnetIds -> CIDRs \cup {None}]
    BY <1>0, <2>3
  <2>5. Subnets' = Subnets /\ \A t \in SubnetIds : subnet'[t] = subnet[t] \/ t \in edited'
    BY <1>0, <2>1, <2>2, <2>3 DEF Subnets
  <2>6. AddressesFiled'
    <3>1. Records' = Records /\ Subnets \subseteq SubnetIds
      BY <2>1 DEF Records, Subnets
    <3> QED BY <1>0, <2>1, <2>3, <2>5, <3>1 DEF AddressesFiled
  <2>7. \A k \in Requests : \A m \in req[k].nets : m[1] \in SubnetIds
    BY <1>0, HandlerFields
  <2> QED BY <1>0, <2>1, <2>3, <2>4, <2>5, <2>6, <2>7, WriteFiled DEF RowsTyped
<1> QED BY <1>2, <1>3, <1>4

\* A deleted subnet leaves its addresses in none.
LEMMA SubnetsGoneFiled ==
  ASSUME FiledInv, NEW r \in Requests, DeleteSubnets(r)
  PROVE  FiledInv'
<1>0. /\ RowsTyped /\ AddressesFiled /\ req \in [Requests -> Handler]
      /\ subnet \in [SubnetIds -> CIDRs \cup {None}]
      /\ address \in [AddressIds -> AddressRow \cup {NoRow}]
  BY DEF FiledInv, RowsTyped
<1>1. PICK S \in SUBSET Subnets :
        /\ subnet' = [s \in SubnetIds |-> IF s \in S THEN None ELSE subnet[s]]
        /\ address' = [a \in AddressIds |-> IF address[a].subnet \in S THEN [address[a] EXCEPT !.subnet = None]
                                            ELSE address[a]]
        /\ edited' = edited \ S
        /\ UNCHANGED <<device, req, shifted>>
  BY DEF DeleteSubnets
<1>2. /\ subnet' \in [SubnetIds -> CIDRs \cup {None}]
      /\ Subnets' = Subnets \ S /\ None \notin S
      /\ \A s \in Subnets' : subnet'[s] = subnet[s]
  BY <1>0, <1>1, InventoryAssumption DEF Subnets
<1>3. ASSUME NEW a \in AddressIds
      PROVE  /\ address'[a] \in AddressRow \cup {NoRow}
             /\ a \in Records' <=> a \in Records
             /\ a \in Records => /\ address'[a].ip = address[a].ip /\ address'[a].device = address[a].device
                                 /\ \/ address'[a].subnet = None
                                    \/ address'[a].subnet = address[a].subnet /\ address[a].subnet \notin S
  <2>1. CASE a \in Records
    <3>1. address[a] \in AddressRow
      BY <1>0, <2>1, RowFields
    <3>2. address'[a] \in AddressRow
      BY <1>1, <3>1 DEF AddressRow
    <3>3. address'[a] # NoRow
      BY <3>2, RowPresent
    <3> QED BY <1>1, <2>1, <3>1, <3>2, <3>3 DEF AddressRow, Records
  <2>2. CASE a \notin Records
    <3>1. address[a] = NoRow /\ address[a].subnet \notin S
      BY <1>0, <1>2, <2>2, RowFields
    <3> QED BY <1>1, <2>2, <3>1 DEF Records
  <2> QED BY <2>1, <2>2
<1>4. Records' = Records
  BY <1>3 DEF Records
<1>5. address' \in [AddressIds -> AddressRow \cup {NoRow}]
  <2>1. address' = [a \in AddressIds |-> address'[a]]
    BY <1>1
  <2> QED BY <1>3, <2>1
<1>6. Records \subseteq AddressIds
  BY DEF Records
<1>7. AddressesFiled'
  BY <1>0, <1>1, <1>2, <1>3, <1>4, <1>6 DEF AddressesFiled, Contains
<1> QED BY <1>0, <1>1, <1>2, <1>5, <1>7, WriteFiled DEF RowsTyped

\* A step that writes addresses only.
LEMMA AddressesWritten ==
  ASSUME FiledInv, NEW r \in Requests, req' = [req EXCEPT ![r] = Idle] \/ UNCHANGED req,
         UNCHANGED <<subnet, edited>>, device' \in SUBSET Devices,
         address' \in [AddressIds -> AddressRow \cup {NoRow}], AddressesFiled'
  PROVE  FiledInv'
<1>1. Subnets' = Subnets
  BY DEF Subnets
<1> QED BY <1>1, WriteFiled DEF FiledInv, RowsTyped

LEMMA CreateFiled ==
  ASSUME FiledInv, NEW r \in Requests, CreateAddress(r)
  PROVE  FiledInv'
<1>0. /\ RowsTyped /\ AddressesFiled /\ req[r] \in Handler /\ HandlerOK(req[r])
      /\ address \in [AddressIds -> AddressRow \cup {NoRow}]
  BY DEF FiledInv, RowsTyped
<1>1. PICK net \in req[r].nets, d \in Devices \cup {None} : \E ip \in net[2] :
        /\ req[r].at = "insert address"
        /\ net[1] \in Subnets /\ DeviceKeyHolds(r, d)
        /\ Holder(ip) = {}
        /\ \E A \in NewAddresses(1) :
             address' = [a \in AddressIds |-> IF a \in A THEN [ip |-> ip, subnet |-> net[1], device |-> d] ELSE address[a]]
        /\ Done(r)
        /\ UNCHANGED <<subnet, device, edited, shifted>>
  BY DEF CreateAddress
<1>2. PICK ip \in net[2], A \in NewAddresses(1) :
        /\ Holder(ip) = {}
        /\ address' = [a \in AddressIds |-> IF a \in A THEN [ip |-> ip, subnet |-> net[1], device |-> d] ELSE address[a]]
  BY <1>1
<1>3. PICK s \in SubnetIds, c \in CIDRs : s = net[1] /\ c = net[2]
  BY <1>0, <1>1, HandlerFields
<1> DEFINE row == [ip |-> ip, subnet |-> s, device |-> d]
<1>4. address' = [a \in AddressIds |-> IF a \in A THEN row ELSE address[a]]
  BY <1>2, <1>3
<1>5. /\ row \in AddressRow /\ row.ip = ip /\ row.subnet = s /\ row.device = d
      /\ s \in Subnets /\ d \in device \cup {None} /\ (s \in edited \/ ip \in subnet[s])
  <2>1. ip \in Addresses
    BY <1>2, <1>3 DEF Addresses
  <2>2. s \in Subnets /\ d \in device \cup {None}
    BY <1>1, <1>3 DEF DeviceKeyHolds
  <2>3. subnet[s] = c \/ s \in edited
    BY <1>0, <1>1, <1>3, <2>2 DEF HandlerOK
  <2> QED BY <1>2, <1>3, <2>1, <2>2, <2>3 DEF AddressRow
<1> HIDE DEF row
<1>6. row # NoRow
  BY <1>5, RowPresent
<1>7. A \subseteq AddressIds /\ A \cap Records = {} /\ \A a, b \in A : a = b
  <2>1. A \in SUBSET (AddressIds \ Records) /\ Cardinality(A) = 1
    BY <1>2 DEF NewAddresses
  <2>2. IsFiniteSet(A)
    BY <2>1, FS_Subset, InventoryAssumption
  <2>3. \E x : A = {x}
    BY <2>1, <2>2, FS_Singleton
  <2> QED BY <2>1, <2>3
<1>8. /\ Records' = Records \cup A
      /\ \A a \in Records : address'[a] = address[a] /\ a \notin A
      /\ \A a \in A : address'[a] = row
  BY <1>4, <1>6, <1>7 DEF Records
<1>9. Subnets' = Subnets
  BY <1>1 DEF Subnets
<1>10. \A a \in Records : address[a].ip # ip
  BY <1>2 DEF Holder
<1>11. address' \in [AddressIds -> AddressRow \cup {NoRow}]
  BY <1>0, <1>4, <1>5
<1>12. AddressesFiled'
  <2>1. ASSUME NEW a \in Records'
        PROVE  /\ address'[a].subnet \in Subnets' \cup {None}
               /\ address'[a].device \in device' \cup {None}
               /\ \/ address'[a].subnet \in edited' \cup {None}
                  \/ a \in shifted'
                  \/ Contains(subnet'[address'[a].subnet], address'[a].ip)
    BY <1>0, <1>1, <1>5, <1>8, <1>9 DEF AddressesFiled, Contains
  <2>2. ASSUME NEW a \in Records', NEW b \in Records', a # b PROVE address'[a].ip # address'[b].ip
    BY <1>0, <1>5, <1>7, <1>8, <1>10, <2>2 DEF AddressesFiled
  <2> QED BY <2>1, <2>2 DEF AddressesFiled
<1> QED BY <1>0, <1>1, <1>11, <1>12, AddressesWritten DEF Done, RowsTyped

LEMMA UpdateFiled ==
  ASSUME FiledInv, NEW r \in Requests, UpdateAddress(r)
  PROVE  FiledInv'
<1>0. /\ RowsTyped /\ AddressesFiled /\ req[r] \in Handler /\ HandlerOK(req[r])
      /\ address \in [AddressIds -> AddressRow \cup {NoRow}]
  BY DEF FiledInv, RowsTyped
<1>1. PICK net \in req[r].nets, u \in req[r].rows, d \in Devices \cup {None} : \E ip \in net[2] :
        /\ req[r].at = "update address"
        /\ u \in Records
        /\ DeviceKeyHolds(r, d)
        /\ Holder(ip) \subseteq {u}
        /\ address' = [address EXCEPT ![u].ip = ip, ![u].device = d]
        /\ shifted' = IF address[u].subnet = net[1] THEN shifted \ {u} ELSE shifted \cup {u}
        /\ Done(r)
        /\ UNCHANGED <<subnet, device, edited>>
  <2>1. Records \ (LockedRows(r) \cup HeldRows(r)) \subseteq Records
    OBVIOUS
  <2> QED BY <2>1, Zenon DEF UpdateAddress
<1>2. PICK ip \in net[2] :
        /\ Holder(ip) \subseteq {u}
        /\ address' = [address EXCEPT ![u].ip = ip, ![u].device = d]
  BY <1>1
<1>3. PICK s \in SubnetIds, c \in CIDRs : s = net[1] /\ c = net[2]
  BY <1>0, <1>1, HandlerFields
<1>4. u \in AddressIds /\ address[u] \in AddressRow /\ ip \in Addresses
  BY <1>0, <1>1, <1>2, <1>3, RowFields DEF Records, Addresses
<1>5. /\ address'[u] \in AddressRow /\ address'[u].ip = ip /\ address'[u].device = d
      /\ address'[u].subnet = address[u].subnet
      /\ \A a \in AddressIds \ {u} : address'[a] = address[a]
      /\ address' \in [AddressIds -> AddressRow \cup {NoRow}]
  BY <1>0, <1>2, <1>4 DEF AddressRow
<1>6. address'[u] # NoRow
  BY <1>5, RowPresent
<1>7. Records' = Records /\ Subnets' = Subnets
  <2>1. u \in Records /\ UNCHANGED subnet
    BY <1>1
  <2>2. Records' = Records
    BY <1>5, <1>6, <2>1 DEF Records
  <2> QED BY <2>1, <2>2 DEF Subnets
<1>8. \A a \in Records \ {u} : address'[a] = address[a] /\ address[a].ip # ip
  BY <1>2, <1>5 DEF Holder, Records
<1>9. u \in shifted' \/ address[u].subnet \in edited \cup {None} \/ ip \in subnet[address[u].subnet]
  <2>1. CASE address[u].subnet = s
    <3>1. s \in Subnets \cup {None}
      BY <1>0, <1>1, <2>1 DEF AddressesFiled
    <3>2. s \in Subnets => subnet[s] = c \/ s \in edited
      BY <1>0, <1>1, <1>3 DEF HandlerOK
    <3> QED BY <1>2, <1>3, <2>1, <3>1, <3>2
  <2> QED BY <1>1, <1>3, <2>1
<1>10. d \in device \cup {None}
  BY <1>1 DEF DeviceKeyHolds
<1>12. AddressesFiled'
  <2>1. ASSUME NEW a \in Records
        PROVE  /\ address'[a].subnet \in Subnets \cup {None}
               /\ address'[a].device \in device \cup {None}
               /\ \/ address'[a].subnet \in edited \cup {None}
                  \/ a \in shifted'
                  \/ Contains(subnet[address'[a].subnet], address'[a].ip)
    <3>1. CASE a = u
      BY <1>0, <1>1, <1>5, <1>9, <1>10, <3>1 DEF AddressesFiled, Contains
    <3>2. CASE a # u
      BY <1>0, <1>1, <1>8, <3>2 DEF AddressesFiled, Contains
    <3> QED BY <3>1, <3>2
  <2>2. ASSUME NEW a \in Records, NEW b \in Records, a # b PROVE address'[a].ip # address'[b].ip
    BY <1>0, <1>5, <1>8, <2>2 DEF AddressesFiled
  <2> QED BY <1>1, <1>7, <2>1, <2>2 DEF AddressesFiled
<1> QED BY <1>0, <1>1, <1>5, <1>12, AddressesWritten DEF Done, RowsTyped

\* Clearing the device of a selection.
LEMMA ClearFiled ==
  ASSUME FiledInv, NEW r \in Requests, BulkClearAddressDevice(r)
  PROVE  FiledInv'
<1>0. /\ RowsTyped /\ AddressesFiled
      /\ address \in [AddressIds -> AddressRow \cup {NoRow}]
  BY DEF FiledInv, RowsTyped
<1>1. PICK A \in SUBSET Records :
        /\ address' = [a \in AddressIds |-> IF a \in A THEN [address[a] EXCEPT !.device = None] ELSE address[a]]
        /\ UNCHANGED <<subnet, device, req, edited, shifted>>
  BY DEF BulkClearAddressDevice
<1>2. ASSUME NEW a \in AddressIds
      PROVE  /\ address'[a] \in AddressRow \cup {NoRow}
             /\ a \in Records' <=> a \in Records
             /\ a \in Records => /\ address'[a].ip = address[a].ip /\ address'[a].subnet = address[a].subnet
                                 /\ address'[a].device \in {address[a].device, None}
  <2>1. CASE a \in Records
    <3>1. address[a] \in AddressRow
      BY <1>0, <2>1, RowFields
    <3>2. address'[a] \in AddressRow
      BY <1>1, <3>1 DEF AddressRow
    <3>3. address'[a] # NoRow
      BY <3>2, RowPresent
    <3> QED BY <1>1, <2>1, <3>1, <3>2, <3>3 DEF AddressRow, Records
  <2>2. CASE a \notin Records
    BY <1>0, <1>1, <2>2 DEF Records
  <2> QED BY <2>1, <2>2
<1>3. Records' = Records /\ Subnets' = Subnets /\ Records \subseteq AddressIds
  BY <1>1, <1>2 DEF Records, Subnets
<1>4. address' \in [AddressIds -> AddressRow \cup {NoRow}]
  <2>1. address' = [a \in AddressIds |-> address'[a]]
    BY <1>1
  <2> QED BY <1>2, <2>1
<1>5. AddressesFiled'
  BY <1>0, <1>1, <1>2, <1>3 DEF AddressesFiled, Contains
<1> QED BY <1>0, <1>1, <1>4, <1>5, AddressesWritten DEF RowsTyped

\* The commit of a removal.  The rows it takes and the devices go together.
LEMMA CommitRows ==
  ASSUME RowsTyped, NEW r \in Requests, Committed(r), NEW a \in AddressIds
  PROVE  /\ address'[a] \in AddressRow \cup {NoRow}
         /\ a \in Records' <=> a \in Records \ req[r].rows
         /\ a \in Records' => /\ address'[a].ip = address[a].ip /\ address'[a].subnet = address[a].subnet
                              /\ address'[a].device = IF address[a].device \in req[r].devs THEN None ELSE address[a].device
                              /\ address[a].device \notin req[r].devs => address'[a] = address[a]
<1>0. address'[a] = IF a \in req[r].rows THEN NoRow
                    ELSE IF address[a].device \in req[r].devs THEN [address[a] EXCEPT !.device = None] ELSE address[a]
  BY DEF Committed
<1>d. req[r].devs \subseteq Devices
  BY HandlerFields DEF RowsTyped
<1>1. CASE a \in req[r].rows
  BY <1>0, <1>1 DEF Records
<1>2. CASE a \notin req[r].rows /\ a \in Records
  <2>1. address[a] \in AddressRow
    BY <1>2, RowFields
  <2>2. address'[a] \in AddressRow
    BY <1>0, <1>2, <2>1 DEF AddressRow
  <2>3. address'[a] # NoRow
    BY <2>2, RowPresent
  <2> QED BY <1>0, <1>2, <2>1, <2>2, <2>3 DEF AddressRow, Records
<1>3. CASE a \notin req[r].rows /\ a \notin Records
  <2>1. address[a] = NoRow /\ address[a].device \notin req[r].devs
    BY <1>3, <1>d, RowFields, InventoryAssumption
  <2> QED BY <1>0, <1>3, <2>1 DEF Records
<1> QED BY <1>1, <1>2, <1>3

LEMMA CommitFiled ==
  ASSUME FiledInv, NEW r \in Requests, Committed(r)
  PROVE  FiledInv'
<1>0. RowsTyped /\ AddressesFiled
  BY DEF FiledInv
<1>1. /\ device' = device \ req[r].devs /\ shifted' = shifted \ req[r].rows
      /\ req' = [req EXCEPT ![r] = Idle] /\ UNCHANGED <<subnet, edited>>
  BY DEF Committed, Done
<1>2. /\ Records' = Records \ req[r].rows /\ Subnets' = Subnets /\ Records' \subseteq AddressIds
      /\ Records \subseteq AddressIds
  <2>1. Records' \subseteq AddressIds /\ Records \subseteq AddressIds /\ Subnets' = Subnets
    BY <1>1 DEF Records, Subnets
  <2>2. \A a \in AddressIds : a \in Records' <=> a \in Records \ req[r].rows
    BY <1>0, CommitRows
  <2> QED BY <2>1, <2>2
<1>3. address' \in [AddressIds -> AddressRow \cup {NoRow}]
  <2>1. address' = [a \in AddressIds |-> address'[a]]
    BY DEF Committed
  <2>2. \A a \in AddressIds : address'[a] \in AddressRow \cup {NoRow}
    BY <1>0, CommitRows
  <2> QED BY <2>1, <2>2
<1>4. \A a \in Records' : /\ address'[a].ip = address[a].ip /\ address'[a].subnet = address[a].subnet
                          /\ address'[a].device \in device' \cup {None}
  <2>1. ASSUME NEW a \in Records'
        PROVE  /\ address'[a].ip = address[a].ip /\ address'[a].subnet = address[a].subnet
               /\ address'[a].device = IF address[a].device \in req[r].devs THEN None ELSE address[a].device
    BY <1>0, <1>2, CommitRows
  <2>2. \A a \in Records' : address[a].device \in device \cup {None}
    BY <1>0, <1>2 DEF AddressesFiled
  <2> QED BY <1>1, <2>1, <2>2
<1>5. AddressesFiled'
  BY <1>0, <1>1, <1>2, <1>4 DEF AddressesFiled, Contains
<1> QED BY <1>0, <1>1, <1>3, <1>5, AddressesWritten DEF RowsTyped

\* As many rows as values, and every value on one of them: each row has its own.
LEMMA OneRowEach ==
  ASSUME NEW A, IsFiniteSet(A), NEW new, NEW f, Cardinality(A) = Cardinality(new),
         \A x \in new : \E a \in A : f[a] = x
  PROVE  /\ \A a \in A : f[a] \in new
         /\ \A a, b \in A : f[a] = f[b] => a = b
<1> DEFINE B == {a \in A : f[a] \in new}
           g == [a \in B |-> f[a]]
<1>1. B \in SUBSET A /\ \A a \in B : f[a] \in new
  OBVIOUS
<1>2. \A x \in new : \E a \in B : f[a] = x
  OBVIOUS
<1>3. g \in [B -> new] /\ \A a \in B : g[a] = f[a]
  BY <1>1
<1> HIDE DEF B, g
<1>4. g \in Surjection(B, new)
  BY <1>2, <1>3 DEF Surjection
<1>5. IsFiniteSet(B) /\ Cardinality(B) <= Cardinality(A) /\ (Cardinality(A) = Cardinality(B) => A = B)
  BY <1>1, FS_Subset
<1>6. /\ Cardinality(new) <= Cardinality(B) /\ IsFiniteSet(new)
      /\ Cardinality(new) = Cardinality(B) <=> g \in Injection(B, new)
  BY <1>4, <1>5, FS_Surjection
<1>7. Cardinality(A) \in Nat /\ Cardinality(B) \in Nat /\ Cardinality(new) \in Nat
  BY <1>5, <1>6, FS_CardinalityType
<1>8. A = B /\ g \in Injection(B, new)
  BY <1>5, <1>6, <1>7
<1>9. \A a, b \in B : g[a] = g[b] => a = b
  BY <1>3, <1>8 DEF Injection, IsInjective
<1> QED BY <1>1, <1>3, <1>8, <1>9

LEMMA ImportFiled ==
  ASSUME FiledInv, NEW r \in Requests, CommitImport(r)
  PROVE  FiledInv'
<1> DEFINE file == req[r].file
           new  == {row \in file : Holder(row.ip) = {}}
           held == UNION {Holder(row.ip) : row \in file}
<1>0. /\ RowsTyped /\ AddressesFiled /\ req[r] \in Handler /\ HandlerOK(req[r])
      /\ address \in [AddressIds -> AddressRow \cup {NoRow}]
  BY DEF FiledInv, RowsTyped
<1>1. /\ req[r].at = "commit import"
      /\ \A row \in file : row.subnet \in Subnets /\ DeviceKeyHolds(r, row.device)
      /\ shifted' = shifted \ held /\ Done(r) /\ UNCHANGED <<subnet, device, edited>>
  BY DEF CommitImport, HeldBy
<1>2. PICK A \in NewAddresses(Cardinality(new)) :
       \E rowOf \in [A \cup held -> file] :
         /\ \A row \in file : \E a \in A \cup held : rowOf[a] = row
         /\ \A a \in held : rowOf[a].ip = address[a].ip
         /\ address' = [a \in AddressIds |-> IF a \in A \cup held THEN rowOf[a] ELSE address[a]]
  BY DEF CommitImport, HeldBy
<1>3. PICK rowOf \in [A \cup held -> file] :
         /\ \A row \in file : \E a \in A \cup held : rowOf[a] = row
         /\ \A a \in held : rowOf[a].ip = address[a].ip
         /\ address' = [a \in AddressIds |-> IF a \in A \cup held THEN rowOf[a] ELSE address[a]]
  BY <1>2
<1>4. A \subseteq AddressIds /\ A \cap Records = {} /\ Cardinality(A) = Cardinality(new)
  BY <1>2 DEF NewAddresses
<1>5. IsFiniteSet(A)
  BY <1>4, FS_Subset, InventoryAssumption
<1>6. /\ held \subseteq Records /\ new \subseteq file
      /\ \A row \in file, b \in Records : address[b].ip = row.ip => b \in held
      /\ \A row \in new, b \in Records : address[b].ip # row.ip
  BY DEF Holder
<1>7. /\ file \subseteq FileRow
      /\ \A row \in file : \E net \in req[r].nets : net[1] = row.subnet /\ row.ip \in net[2]
      /\ \A x, y \in file : x.ip = y.ip => x = y
  <2>1. file \subseteq FileRow
    BY <1>0, HandlerFields
  <2> QED BY <1>0, <1>1, <2>1 DEF HandlerOK
<1>8. \A row \in file : row.subnet \in edited \/ row.ip \in subnet[row.subnet]
  <2>1. TAKE row \in file
  <2>2. PICK net \in req[r].nets : net[1] = row.subnet /\ row.ip \in net[2]
    BY <1>7
  <2>3. net[1] \in Subnets => subnet[net[1]] = net[2] \/ net[1] \in edited
    BY <1>0, <1>1 DEF HandlerOK
  <2> QED BY <1>1, <2>2, <2>3
<1>9. \A row \in file : row.subnet \in Subnets /\ row.device \in device \cup {None}
  BY <1>1 DEF DeviceKeyHolds
<1> HIDE DEF file, new, held
<1>10. /\ \A a \in held : rowOf[a] \notin new
       /\ \A a \in A \cup held : rowOf[a] \in file
  BY <1>3, <1>6
<1>11. /\ \A a \in A : rowOf[a] \in new
       /\ \A a, b \in A : rowOf[a] = rowOf[b] => a = b
  <2>1. \A x \in new : \E a \in A : rowOf[a] = x
    BY <1>3, <1>6, <1>10
  <2> QED BY <1>4, <1>5, <2>1, OneRowEach
<1>12. \A a, b \in A \cup held : rowOf[a].ip = rowOf[b].ip => a = b
  <2> SUFFICES ASSUME NEW a \in A \cup held, NEW b \in A \cup held, rowOf[a].ip = rowOf[b].ip PROVE a = b
    OBVIOUS
  <2>1. rowOf[a] = rowOf[b]
    BY <1>7, <1>10
  <2>2. CASE a \in held /\ b \in held
    <3>1. a \in Records /\ b \in Records /\ address[a].ip = address[b].ip
      BY <1>3, <1>6, <2>1, <2>2
    <3> QED BY <1>0, <3>1 DEF AddressesFiled
  <2> QED BY <1>10, <1>11, <2>1, <2>2
<1>13. \A row \in file : row \in AddressRow /\ row # NoRow
  <2>1. \A row \in file : row \in AddressRow
    BY <1>7 DEF FileRow, AddressRow
  <2> QED BY <2>1, RowPresent
<1>14. /\ \A a \in A \cup held : address'[a] = rowOf[a] /\ a \in AddressIds /\ address'[a] # NoRow
       /\ \A a \in AddressIds \ (A \cup held) : address'[a] = address[a]
  <2>1. A \cup held \subseteq AddressIds
    BY <1>4, <1>6 DEF Records
  <2> QED BY <1>3, <1>10, <1>13, <2>1
<1>15. Records' = Records \cup A /\ Subnets' = Subnets /\ Records \subseteq AddressIds
  <2>1. Records' = Records \cup A
    BY <1>4, <1>6, <1>14 DEF Records
  <2> QED BY <1>1, <2>1 DEF Subnets, Records
<1>16. address' \in [AddressIds -> AddressRow \cup {NoRow}]
  <2>1. address' = [a \in AddressIds |-> address'[a]]
    BY <1>3
  <2>2. \A a \in AddressIds : address'[a] \in AddressRow \cup {NoRow}
    BY <1>0, <1>10, <1>13, <1>14
  <2> QED BY <2>1, <2>2
<1>17. ASSUME NEW a \in Records'
       PROVE  /\ address'[a].subnet \in Subnets \cup {None}
              /\ address'[a].device \in device \cup {None}
              /\ \/ address'[a].subnet \in edited \cup {None}
                 \/ a \in shifted'
                 \/ Contains(subnet[address'[a].subnet], address'[a].ip)
  <2>1. CASE a \in A \cup held
    BY <1>8, <1>9, <1>10, <1>14, <2>1 DEF Contains
  <2>2. CASE a \notin A \cup held
    <3>1. a \in Records /\ address'[a] = address[a] /\ (a \in shifted => a \in shifted')
      BY <1>1, <1>14, <1>15, <2>2
    <3> QED BY <1>0, <3>1 DEF AddressesFiled
  <2> QED BY <2>1, <2>2
<1>18. ASSUME NEW a \in Records', NEW b \in Records', a # b PROVE address'[a].ip # address'[b].ip
  <2>1. CASE a \in A \cup held /\ b \in A \cup held
    BY <1>12, <1>14, <1>18, <2>1
  <2>2. CASE a \notin A \cup held /\ b \notin A \cup held
    <3>1. a \in Records /\ b \in Records /\ address'[a] = address[a] /\ address'[b] = address[b]
      BY <1>14, <1>15, <2>2
    <3> QED BY <1>0, <1>18, <3>1 DEF AddressesFiled
  <2>3. ASSUME NEW x \in A \cup held, NEW y \in Records' \ (A \cup held) PROVE address'[x].ip # address'[y].ip
    <3>1. y \in Records /\ address'[y] = address[y] /\ address'[x] = rowOf[x] /\ rowOf[x] \in file
      BY <1>10, <1>14, <1>15
    <3> QED BY <1>6, <3>1
  <2> QED BY <2>1, <2>2, <2>3
<1>19. AddressesFiled'
  BY <1>1, <1>15, <1>17, <1>18 DEF AddressesFiled
<1> QED BY <1>0, <1>1, <1>16, <1>19, AddressesWritten DEF Done, RowsTyped

LEMMA InitFiled == Init => FiledInv
<1> SUFFICES ASSUME Init PROVE FiledInv
  OBVIOUS
<1>1. RowsTyped
  <2>1. address \in [AddressIds -> AddressRow \cup {NoRow}]
    BY DEF Init
  <2>2. req \in [Requests -> Handler]
    BY IdleHandler DEF Init
  <2> QED BY <2>1, <2>2 DEF Init, RowsTyped
<1>2. AddressesFiled
  <2>1. \A a \in Records : /\ address[a].subnet # None => /\ address[a].subnet \in Subnets
                                                         /\ Contains(subnet[address[a].subnet], address[a].ip)
                           /\ address[a].device \in device \cup {None}
    BY DEF Init, Records
  <2> QED BY <2>1 DEF Init, AddressesFiled
<1>3. \A r \in Requests : HandlerOK(req[r])
  BY IdleHandler DEF Init
<1> QED BY <1>1, <1>2, <1>3 DEF FiledInv

LEMMA NextFiled == FiledInv /\ [Next]_vars => FiledInv'
<1> SUFFICES ASSUME FiledInv, [Next]_vars PROVE FiledInv'
  OBVIOUS
<1>1. CASE UNCHANGED vars
  BY <1>1 DEF vars, inventory, history, FiledInv, RowsTyped, AddressesFiled, HandlerOK, Subnets, Records
<1>2. ASSUME NEW r \in Requests, CommitAddresses(r) \/ CommitDevices(r) PROVE FiledInv'
  BY <1>2, CommitFiled DEF CommitAddresses, CommitDevices
<1> QED BY <1>1, <1>2, BeginFiled, MoveFiled, DeviceFiled, SubnetsFiled, SubnetsGoneFiled, CreateFiled, UpdateFiled,
           ClearFiled, ImportFiled DEF Next

LEMMA FiledInvariant == Spec => []FiledInv
BY InitFiled, NextFiled, PTL DEF Spec

(***************************************************************************)
(* Whatever requests interleave, an address refers to a subnet and a       *)
(* device that exist, has an ip of its own, and lies inside its subnet     *)
(* unless the subnet was edited or the address edited across subnets: the  *)
(* foreign keys and the unique index of the schema, and the containment    *)
(* check of the address handlers and of the import.                        *)
(***************************************************************************)
THEOREM AddressesStayFiled == Spec => []AddressesFiled
BY FiledInvariant, PTL DEF FiledInv

-----------------------------------------------------------------------------
(* Subnets that do not overlap                                             *)

CheckPoints == {"insert subnet", "update subnet", "import subnets"}

\* What a request that has checked for overlaps knows, until another one writes.
CheckHolds(h) ==
  /\ h.at = "insert subnet" => \A c \in h.cidrs, s \in Subnets : ~ Overlaps(subnet[s], c)
  /\ h.at = "update subnet" => \A net \in h.nets, s \in Subnets : s # net[1] => ~ Overlaps(subnet[s], net[2])
  /\ h.at = "import subnets" =>
       /\ \A c, e \in h.cidrs : c = e \/ ~ Overlaps(c, e)
       /\ \A c \in h.cidrs, s \in Subnets : subnet[s] = c \/ ~ Overlaps(subnet[s], c)

DisjointInv == ~ raced => OverlapsBlocked /\ \A r \in Requests \ overtaken : CheckHolds(req[r])

\* A step that adds no subnet, and moves no request to a write of subnets unchecked.
LEMMA ChecksKept ==
  ASSUME DisjointInv, raced' = raced, Subnets' \subseteq Subnets, \A s \in Subnets' : subnet'[s] = subnet[s],
         \A k \in Requests \ overtaken' : \/ k \notin overtaken /\ req'[k] = req[k]
                                          \/ req'[k].at \notin CheckPoints
                                          \/ \E h : req'[k] = h /\ CheckHolds(h)
  PROVE  DisjointInv'
<1> SUFFICES ASSUME ~ raced PROVE OverlapsBlocked' /\ \A k \in Requests \ overtaken' : CheckHolds(req[k])'
  BY DEF DisjointInv
<1>1. OverlapsBlocked /\ \A k \in Requests \ overtaken : CheckHolds(req[k])
  BY DEF DisjointInv
<1>2. OverlapsBlocked'
  BY <1>1 DEF OverlapsBlocked
<1>3. ASSUME NEW k \in Requests \ overtaken' PROVE CheckHolds(req[k])'
  <2>1. ASSUME NEW h, req'[k] = h, CheckHolds(h) PROVE CheckHolds(req[k])'
    <3>1. h.at = "insert subnet" => \A c \in h.cidrs, s \in Subnets' : ~ Overlaps(subnet'[s], c)
      BY <2>1 DEF CheckHolds
    <3>2. h.at = "update subnet" =>
            \A net \in h.nets, s \in Subnets' : s # net[1] => ~ Overlaps(subnet'[s], net[2])
      BY <2>1 DEF CheckHolds
    <3>3. h.at = "import subnets" =>
            /\ \A c, e \in h.cidrs : c = e \/ ~ Overlaps(c, e)
            /\ \A c \in h.cidrs, s \in Subnets' : subnet'[s] = c \/ ~ Overlaps(subnet'[s], c)
      BY <2>1 DEF CheckHolds
    <3> QED BY <2>1, <3>1, <3>2, <3>3 DEF CheckHolds
  <2>2. CASE k \notin overtaken /\ req'[k] = req[k]
    BY <1>1, <2>1, <2>2
  <2>3. CASE req'[k].at \notin CheckPoints
    BY <2>3 DEF CheckHolds, CheckPoints
  <2> QED BY <2>1, <2>2, <2>3
<1> QED BY <1>2, <1>3

\* The pages and the import that load subnets keep what they read in their handler.
LEMMA LoadSteps ==
  ASSUME RowsTyped, NEW r \in Requests, loadSubnetPage(r) \/ loadAddressPage(r) \/ buildImportContext(r)
  PROVE  /\ \E h : req' = [req EXCEPT ![r] = h] /\ h.at \in {"insert address", "update address", "import context"}
         /\ UNCHANGED <<inventory, history>>
<1>1. ASSUME NEW nets, NEW rows, NEW h,
             NEW at \in {"insert address", "update address", "import context"},
             \/ h = [Idle EXCEPT !.at = at, !.nets = nets]
             \/ h = [Idle EXCEPT !.at = at, !.rows = rows, !.nets = nets],
             Begin(r, h)
      PROVE  /\ \E g : req' = [req EXCEPT ![r] = g] /\ g.at \in {"insert address", "update address", "import context"}
             /\ UNCHANGED <<inventory, history>>
  <2>1. h.at = at
    BY <1>1 DEF Idle
  <2> QED BY <1>1, <2>1 DEF Begin
<1>2. CASE loadSubnetPage(r)
  <2>1. PICK s \in Subnets : Begin(r, [Idle EXCEPT !.at = "insert address", !.nets = {<<s, subnet[s]>>}])
    BY <1>2 DEF loadSubnetPage
  <2> DEFINE nets == {<<s, subnet[s]>>}
  <2>2. Begin(r, [Idle EXCEPT !.at = "insert address", !.nets = nets])
    BY <2>1
  <2> HIDE DEF nets
  <2> QED BY <1>1, <2>2
<1>3. CASE loadAddressPage(r)
  <2>1. PICK a \in Records :
          Begin(r, [Idle EXCEPT !.at = "update address", !.rows = {a},
                             !.nets = {<<address[a].subnet, subnet[address[a].subnet]>>}])
    BY <1>3 DEF loadAddressPage
  <2> DEFINE nets == {<<address[a].subnet, subnet[address[a].subnet]>>}
             rows == {a}
  <2>2. Begin(r, [Idle EXCEPT !.at = "update address", !.rows = rows, !.nets = nets])
    BY <2>1
  <2> HIDE DEF nets, rows
  <2> QED BY <1>1, <2>2
<1>4. CASE buildImportContext(r)
  <2> DEFINE nets == {<<s, subnet[s]>> : s \in Subnets}
  <2>2. Begin(r, [Idle EXCEPT !.at = "import context", !.nets = nets])
    BY <1>4 DEF buildImportContext
  <2> HIDE DEF nets
  <2> QED BY <1>1, <2>2
<1> QED BY <1>2, <1>3, <1>4

\* The removals: a handler that keeps the rows and the devices it deletes.
LEMMA RemovalSteps ==
  ASSUME RowsTyped, NEW r \in Requests, DeleteAddresses(r) \/ DeleteDevices(r)
  PROVE  \E A \in SUBSET Records, D \in SUBSET Devices : \E h :
           /\ req' = [req EXCEPT ![r] = h] /\ req[r] = Idle
           /\ h.rows = A /\ h.devs = D /\ A \cap LockedRows(r) = {}
           /\ \/ DeleteAddresses(r) /\ h.at = "orphans" /\ D = {address[a].device : a \in A} \ {None}
              \/ DeleteDevices(r) /\ h.at = "devices" /\ A = UNION {Linked(d) : d \in D}
           /\ UNCHANGED <<inventory, history>>
<1>1. ASSUME NEW A, NEW D, NEW at
      PROVE  /\ [Idle EXCEPT !.at = at, !.rows = A, !.devs = D].at = at
             /\ [Idle EXCEPT !.at = at, !.rows = A, !.devs = D].rows = A
             /\ [Idle EXCEPT !.at = at, !.rows = A, !.devs = D].devs = D
  BY DEF Idle
<1>2. CASE DeleteAddresses(r)
  <2>1. PICK A \in SUBSET Records :
           /\ A \cap (LockedRows(r) \cup HeldRows(r)) = {}
           /\ Begin(r, [Idle EXCEPT !.at = "orphans", !.rows = A, !.devs = {address[a].device : a \in A} \ {None}])
    BY <1>2 DEF DeleteAddresses
  <2> DEFINE D == {address[a].device : a \in A} \ {None}
             h == [Idle EXCEPT !.at = "orphans", !.rows = A, !.devs = D]
  <2>2. D \in SUBSET Devices
    BY RowFields DEF Records
  <2>3. Begin(r, h) /\ D = {address[a].device : a \in A} \ {None}
    BY <2>1
  <2> HIDE DEF D
  <2>4. h.at = "orphans" /\ h.rows = A /\ h.devs = D
    BY <1>1
  <2> HIDE DEF h
  <2>5. req' = [req EXCEPT ![r] = h] /\ req[r] = Idle /\ UNCHANGED <<inventory, history>>
    BY <2>3 DEF Begin
  <2> QED BY <1>2, <2>1, <2>2, <2>3, <2>4, <2>5
<1>3. CASE DeleteDevices(r)
  <2>1. PICK D \in SUBSET device :
           /\ (UNION {Linked(d) : d \in D}) \cap (LockedRows(r) \cup HeldRows(r)) = {}
           /\ Begin(r, [Idle EXCEPT !.at = "devices", !.rows = UNION {Linked(d) : d \in D}, !.devs = D])
    BY <1>3 DEF DeleteDevices
  <2> DEFINE A == UNION {Linked(d) : d \in D}
             h == [Idle EXCEPT !.at = "devices", !.rows = A, !.devs = D]
  <2>2. D \in SUBSET Devices /\ A \in SUBSET Records
    BY DEF RowsTyped, Linked
  <2>3. Begin(r, h) /\ A = UNION {Linked(d) : d \in D} /\ A \cap LockedRows(r) = {}
    BY <2>1
  <2> HIDE DEF A
  <2>4. h.at = "devices" /\ h.rows = A /\ h.devs = D
    BY <1>1
  <2> HIDE DEF h
  <2>5. req' = [req EXCEPT ![r] = h] /\ req[r] = Idle /\ UNCHANGED <<inventory, history>>
    BY <2>3 DEF Begin
  <2> QED BY <1>3, <2>2, <2>3, <2>4, <2>5
<1> QED BY <1>2, <1>3

\* Steps that write no subnet and check none.
LEMMA QuietDisjoint ==
  ASSUME RowsTyped, DisjointInv, NEW r \in Requests,
         \/ loadSubnetPage(r) \/ loadAddressPage(r) \/ buildImportContext(r)
         \/ DeleteAddresses(r) \/ DeleteDevices(r)
         \/ CreateAddress(r) \/ UpdateAddress(r) \/ BulkClearAddressDevice(r) \/ ImportAddresses(r) \/ CommitImport(r)
         \/ DeleteOrphanDevices(r) \/ LockOrphanDevices(r) \/ DeleteDeviceRows(r) \/ CommitAddresses(r) \/ CommitDevices(r)
         \/ CreateDevice(r) \/ ImportDevices(r) \/ ApplyAddresses(r)
         \/ SubnetRefused(r) \/ AddressRefused(r) \/ ImportRefused(r)
  PROVE  DisjointInv'
<1>0. req \in [Requests -> Handler] /\ req[r] \in Handler
  BY DEF RowsTyped
<1>1. ASSUME NEW h, req' = [req EXCEPT ![r] = h], h.at \notin CheckPoints,
             UNCHANGED <<subnet, raced>>, overtaken \ {r} \subseteq overtaken'
      PROVE  DisjointInv'
  <2>1. Subnets' = Subnets /\ raced' = raced /\ \A s \in Subnets' : subnet'[s] = subnet[s]
    BY <1>1 DEF Subnets
  <2>2. \A k \in Requests : req'[k] = IF k = r THEN h ELSE req[k]
    BY <1>0, <1>1
  <2>3. \A k \in Requests \ overtaken' : (k \notin overtaken /\ req'[k] = req[k]) \/ req'[k].at \notin CheckPoints
    BY <1>1, <2>2
  <2> QED BY <2>1, <2>3, ChecksKept
<1>2. Idle.at \notin CheckPoints
  BY DEF Idle, CheckPoints
<1>3. CASE loadSubnetPage(r) \/ loadAddressPage(r) \/ buildImportContext(r)
  <2>1. PICK h : req' = [req EXCEPT ![r] = h] /\ h.at \in {"insert address", "update address", "import context"}
    BY <1>3, LoadSteps
  <2>2. UNCHANGED <<inventory, history>>
    BY <1>3, LoadSteps
  <2>3. h.at \notin CheckPoints
    BY <2>1 DEF CheckPoints
  <2> QED BY <1>1, <2>1, <2>2, <2>3 DEF inventory, history
<1>4. CASE DeleteAddresses(r) \/ DeleteDevices(r)
  <2>1. PICK h : /\ req' = [req EXCEPT ![r] = h] /\ (h.at = "orphans" \/ h.at = "devices")
                 /\ UNCHANGED <<inventory, history>>
    BY <1>4, RemovalSteps
  <2>2. h.at \notin CheckPoints
    BY <2>1 DEF CheckPoints
  <2> QED BY <1>1, <2>1, <2>2 DEF inventory, history
<1>5. CASE CreateAddress(r) \/ UpdateAddress(r) \/ CommitImport(r)
  BY <1>1, <1>2, <1>5 DEF CreateAddress, UpdateAddress, CommitImport, Done
<1>6. CASE CommitAddresses(r) \/ CommitDevices(r)
  BY <1>1, <1>2, <1>6 DEF CommitAddresses, CommitDevices, Committed, Done
<1>7. CASE Refused(r)
  BY <1>1, <1>2, <1>7 DEF Refused, Done, inventory
<1>8. CASE BulkClearAddressDevice(r) \/ CreateDevice(r) \/ ImportDevices(r)
  <2>1. UNCHANGED <<subnet, req, overtaken, raced>>
    BY <1>8 DEF BulkClearAddressDevice, CreateDevice, ImportDevices
  <2>2. Subnets' = Subnets
    BY <2>1 DEF Subnets
  <2> QED BY <2>1, <2>2, ChecksKept
<1>9. CASE DeleteOrphanDevices(r) \/ LockOrphanDevices(r)
  <2>0. \/ \E gone : req' = [req EXCEPT ![r].at = "delete orphans", ![r].devs = gone]
        \/ \E gone : req' = [req EXCEPT ![r].at = "commit addresses", ![r].devs = gone]
    BY <1>9 DEF DeleteOrphanDevices, LockOrphanDevices
  <2>1. PICK gone, at : /\ at \in {"delete orphans", "commit addresses"}
                        /\ req' = [req EXCEPT ![r].at = at, ![r].devs = gone]
    BY <2>0
  <2> DEFINE h == [req[r] EXCEPT !.at = at, !.devs = gone]
  <2>2. h.at = at /\ req' = [req EXCEPT ![r] = h]
    BY <1>0, <2>1 DEF Handler
  <2> HIDE DEF h
  <2>3. h.at \notin CheckPoints
    BY <2>1, <2>2 DEF CheckPoints
  <2>4. UNCHANGED <<subnet, overtaken, raced>>
    BY <1>9 DEF DeleteOrphanDevices, LockOrphanDevices, inventory, history
  <2> QED BY <1>1, <2>2, <2>3, <2>4
<1>10. CASE DeleteDeviceRows(r)
  <2> DEFINE h == [req[r] EXCEPT !.at = "commit devices"]
  <2>2. /\ h.at = "commit devices" /\ req' = [req EXCEPT ![r] = h]
        /\ UNCHANGED <<subnet, overtaken, raced>>
    BY <1>0, <1>10 DEF DeleteDeviceRows, Handler, inventory, history
  <2> HIDE DEF h
  <2>3. h.at \notin CheckPoints
    BY <2>2 DEF CheckPoints
  <2> QED BY <1>1, <2>2, <2>3
<1>11. CASE ApplyAddresses(r)
  <2>1. PICK file, devs :
          /\ req' = [req EXCEPT ![r].at = "import addresses", ![r].file = file, ![r].devs = devs]
          /\ UNCHANGED <<subnet, overtaken, raced>>
    BY <1>11 DEF ApplyAddresses, inventory, history
  <2> DEFINE h == [req[r] EXCEPT !.at = "import addresses", !.file = file, !.devs = devs]
  <2>2. h.at = "import addresses" /\ req' = [req EXCEPT ![r] = h]
    BY <1>0, <2>1 DEF Handler
  <2> HIDE DEF h
  <2>3. h.at \notin CheckPoints
    BY <2>2 DEF CheckPoints
  <2> QED BY <1>1, <2>1, <2>2, <2>3
<1>12. CASE ImportAddresses(r)
  <2> DEFINE h == [req[r] EXCEPT !.at = "commit import"]
  <2>2. /\ h.at = "commit import" /\ req' = [req EXCEPT ![r] = h]
        /\ UNCHANGED <<subnet, overtaken, raced>>
    BY <1>0, <1>12 DEF ImportAddresses, Handler, inventory, history
  <2> HIDE DEF h
  <2>3. h.at \notin CheckPoints
    BY <2>2 DEF CheckPoints
  <2> QED BY <1>1, <2>2, <2>3
<1> QED BY <1>3, <1>4, <1>5, <1>6, <1>7, <1>8, <1>9, <1>10, <1>11, <1>12 DEF SubnetRefused, AddressRefused, ImportRefused

\* Requests that check for overlaps.
LEMMA CheckDisjoint ==
  ASSUME RowsTyped, DisjointInv, NEW r \in Requests, subnetCreate(r) \/ subnetUpdate(r) \/ ApplySubnets(r)
  PROVE  DisjointInv'
<1>0. req \in [Requests -> Handler] /\ \A s \in Subnets : s \in SubnetIds /\ s # None
  BY InventoryAssumption DEF RowsTyped, Subnets
<1>1. ASSUME NEW h, ~ raced => CheckHolds(h), Begin(r, h) PROVE DisjointInv'
  <2>1. /\ UNCHANGED <<subnet, raced, overtaken>> /\ Subnets' = Subnets
        /\ \A k \in Requests : req'[k] = IF k = r THEN h ELSE req[k]
    BY <1>0, <1>1 DEF Begin, inventory, history, Subnets
  <2>2. CASE raced
    BY <2>1, <2>2 DEF DisjointInv
  <2>3. CASE ~ raced
    <3>1. CheckHolds(h)
      BY <1>1, <2>3
    <3> QED BY <2>1, <3>1, ChecksKept
  <2> QED BY <2>2, <2>3
<1>2. CASE subnetCreate(r)
  <2>1. PICK c \in CIDRs : /\ ensureNoSubnetOverlap(None, c)
                           /\ Begin(r, [Idle EXCEPT !.at = "insert subnet", !.cidrs = {c}])
    BY <1>2 DEF subnetCreate
  <2> DEFINE h == [Idle EXCEPT !.at = "insert subnet", !.cidrs = {c}]
  <2>2. h.at = "insert subnet" /\ h.cidrs = {c}
    BY DEF Idle
  <2>3. Begin(r, h)
    BY <2>1
  <2> HIDE DEF h
  <2>4. CheckHolds(h)
    BY <1>0, <2>1, <2>2 DEF CheckHolds, ensureNoSubnetOverlap
  <2> QED BY <1>1, <2>3, <2>4
<1>3. CASE subnetUpdate(r)
  <2>1. PICK s \in Subnets, c \in CIDRs :
           /\ ensureNoSubnetOverlap(s, c)
           /\ Begin(r, [Idle EXCEPT !.at = "update subnet", !.nets = {<<s, c>>}])
    BY <1>3 DEF subnetUpdate
  <2> DEFINE nets == {<<s, c>>}
             h == [Idle EXCEPT !.at = "update subnet", !.nets = nets]
  <2>2. Begin(r, h) /\ \A net \in nets : net[1] = s /\ net[2] = c
    BY <1>0, <2>1, NetSet
  <2> HIDE DEF nets
  <2>3. h.at = "update subnet" /\ h.nets = nets
    BY DEF Idle
  <2> HIDE DEF h
  <2>4. CheckHolds(h)
    BY <2>1, <2>2, <2>3 DEF CheckHolds, ensureNoSubnetOverlap
  <2> QED BY <1>1, <2>2, <2>4
<1>4. CASE ApplySubnets(r)
  <2>1. PICK file : /\ validateSubnets(file)
                    /\ Begin(r, [Idle EXCEPT !.at = "import subnets", !.cidrs = file])
    BY <1>4 DEF ApplySubnets
  <2> DEFINE h == [Idle EXCEPT !.at = "import subnets", !.cidrs = file]
  <2>2. h.at = "import subnets" /\ h.cidrs = file
    BY DEF Idle
  <2>3. Begin(r, h)
    BY <2>1
  <2> HIDE DEF h
  <2>4. ASSUME ~ raced PROVE CheckHolds(h)
    <3>1. ASSUME NEW c \in file, NEW s \in Subnets PROVE subnet[s] = c \/ ~ Overlaps(subnet[s], c)
      <4>1. CASE Taken(None, c)
        <5>1. PICK t \in Subnets : subnet[t] = c
          BY <4>1 DEF Taken
        <5> QED BY <2>4, <5>1 DEF DisjointInv, OverlapsBlocked
      <4>2. CASE ensureNoSubnetOverlap(None, c)
        BY <1>0, <4>2 DEF ensureNoSubnetOverlap
      <4> QED BY <2>1, <4>1, <4>2 DEF validateSubnets
    <3> QED BY <2>1, <2>2, <3>1 DEF CheckHolds, validateSubnets
  <2> QED BY <1>1, <2>3, <2>4
<1> QED BY <1>2, <1>3, <1>4

\* A write of subnets ends its own check and overtakes every other.
LEMMA WrittenDisjoint ==
  ASSUME RowsTyped, DisjointInv, NEW r \in Requests, SubnetWritten(r), Done(r),
         ~ raced /\ CheckHolds(req[r]) /\ OverlapsBlocked => OverlapsBlocked'
  PROVE  DisjointInv'
<1> SUFFICES ASSUME ~ raced' PROVE OverlapsBlocked' /\ \A k \in Requests \ overtaken' : CheckHolds(req[k])'
  BY DEF DisjointInv
<1>1. ~ raced /\ r \notin overtaken
  BY DEF SubnetWritten
<1>2. OverlapsBlocked'
  BY <1>1 DEF DisjointInv
<1>3. ASSUME NEW k \in Requests \ overtaken' PROVE CheckHolds(req[k])'
  <2>1. req'[k] = IF k = r THEN Idle ELSE req[k]
    BY DEF Done, RowsTyped
  <2>2. req'[k].at \notin CheckPoints
    <3>1. CASE k = r
      BY <2>1, <3>1 DEF Idle, CheckPoints
    <3>2. CASE k # r
      BY <2>1, <3>2 DEF SubnetWritten, CheckPoints
    <3> QED BY <3>1, <3>2
  <2> QED BY <2>2 DEF CheckHolds, CheckPoints
<1> QED BY <1>2, <1>3

LEMMA OverlapSym ==
  ASSUME NEW c, NEW e
  PROVE  Overlaps(c, e) <=> Overlaps(e, c)
BY DEF Overlaps

LEMMA WriteDisjoint ==
  ASSUME RowsTyped, DisjointInv, NEW r \in Requests, CreateSubnet(r) \/ UpdateSubnet(r) \/ ImportSubnets(r)
  PROVE  DisjointInv'
<1>0. /\ req \in [Requests -> Handler] /\ req[r] \in Handler
      /\ subnet \in [SubnetIds -> CIDRs \cup {None}] /\ None \notin CIDRs
  BY InventoryAssumption DEF RowsTyped
<1>1. SubnetWritten(r) /\ Done(r)
  BY DEF CreateSubnet, UpdateSubnet, ImportSubnets
<1> SUFFICES ASSUME ~ raced, CheckHolds(req[r]), OverlapsBlocked PROVE OverlapsBlocked'
  BY <1>1, WrittenDisjoint
<1>2. ASSUME NEW n, NEW S \in NewSubnets(n), NEW rowOf,
             subnet' = [s \in SubnetIds |-> IF s \in S THEN rowOf[s] ELSE subnet[s]],
             \A s \in S : rowOf[s] \in CIDRs,
             \A s \in S, t \in Subnets : ~ Overlaps(subnet[t], rowOf[s]),
             \A s, t \in S : s # t => ~ Overlaps(rowOf[s], rowOf[t])
      PROVE  OverlapsBlocked'
  <2>1. S \subseteq SubnetIds /\ S \cap Subnets = {}
    BY DEF NewSubnets
  <2>2. /\ Subnets' = Subnets \cup S
        /\ \A s \in Subnets : subnet'[s] = subnet[s] /\ s \notin S
        /\ \A s \in S : subnet'[s] = rowOf[s]
    BY <1>0, <1>2, <2>1 DEF Subnets
  <2>3. \A s \in S, t \in Subnets : ~ Overlaps(rowOf[s], subnet[t])
    BY <1>2, OverlapSym
  <2> QED BY <1>2, <2>2, <2>3 DEF OverlapsBlocked
<1>3. CASE CreateSubnet(r)
  <2>1. PICK c \in req[r].cidrs, S \in NewSubnets(1) :
          /\ req[r].at = "insert subnet"
          /\ subnet' = [s \in SubnetIds |-> IF s \in S THEN c ELSE subnet[s]]
    BY <1>3 DEF CreateSubnet
  <2> DEFINE rowOf == [s \in S |-> c]
  <2>2. c \in CIDRs
    BY <1>0, <2>1, HandlerFields
  <2>3. /\ \A s \in S : rowOf[s] = c
        /\ subnet' = [s \in SubnetIds |-> IF s \in S THEN rowOf[s] ELSE subnet[s]]
    BY <2>1
  <2> HIDE DEF rowOf
  <2>4. \A s, t \in S : s = t
    <3>1. S \in SUBSET SubnetIds /\ Cardinality(S) = 1
      BY <2>1 DEF NewSubnets
    <3>2. IsFiniteSet(S)
      BY <3>1, FS_Subset, InventoryAssumption
    <3>3. \E x : S = {x}
      BY <3>1, <3>2, FS_Singleton
    <3> QED BY <3>3
  <2>5. \A t \in Subnets : ~ Overlaps(subnet[t], c)
    BY <2>1 DEF CheckHolds
  <2>6. /\ \A s \in S : rowOf[s] \in CIDRs
        /\ \A s \in S, t \in Subnets : ~ Overlaps(subnet[t], rowOf[s])
        /\ \A s, t \in S : s # t => ~ Overlaps(rowOf[s], rowOf[t])
    BY <2>2, <2>3, <2>4, <2>5
  <2> QED BY <1>2, <2>3, <2>6
<1>4. CASE ImportSubnets(r)
  <2> DEFINE new == {c \in req[r].cidrs : ~ Taken(None, c)}
  <2>1. PICK S \in NewSubnets(Cardinality(new)) : \E rowOf \in [S -> new] :
          /\ \A c \in new : \E s \in S : rowOf[s] = c
          /\ subnet' = [s \in SubnetIds |-> IF s \in S THEN rowOf[s] ELSE subnet[s]]
    BY <1>4 DEF ImportSubnets
  <2>2. PICK rowOf \in [S -> new] :
          /\ \A c \in new : \E s \in S : rowOf[s] = c
          /\ subnet' = [s \in SubnetIds |-> IF s \in S THEN rowOf[s] ELSE subnet[s]]
    BY <2>1
  <2>3. req[r].at = "import subnets"
    BY <1>4 DEF ImportSubnets
  <2>4. /\ \A c \in new : c \in CIDRs
        /\ \A c, e \in new : c = e \/ ~ Overlaps(c, e)
        /\ \A c \in new, t \in Subnets : ~ Overlaps(subnet[t], c)
    <3>1. /\ \A c, e \in req[r].cidrs : c = e \/ ~ Overlaps(c, e)
          /\ \A c \in req[r].cidrs, s \in Subnets : subnet[s] = c \/ ~ Overlaps(subnet[s], c)
      BY <2>3 DEF CheckHolds
    <3>2. \A c \in new : c \in req[r].cidrs /\ \A t \in Subnets : subnet[t] # c
      BY InventoryAssumption DEF Taken, Subnets
    <3>3. req[r].cidrs \subseteq CIDRs
      BY <1>0, HandlerFields
    <3> HIDE DEF new
    <3> QED BY <3>1, <3>2, <3>3
  <2> HIDE DEF new
  <2>5. \A s, t \in S : rowOf[s] = rowOf[t] => s = t
    <3>1. S \in SUBSET SubnetIds /\ Cardinality(S) = Cardinality(new)
      BY <2>1 DEF NewSubnets
    <3>2. IsFiniteSet(S)
      BY <3>1, FS_Subset, InventoryAssumption
    <3> QED BY <2>2, <3>1, <3>2, OneRowEach
  <2>6. \A s \in S : rowOf[s] \in new
    BY <2>2
  <2>7. /\ \A s \in S : rowOf[s] \in CIDRs
        /\ \A s \in S, t \in Subnets : ~ Overlaps(subnet[t], rowOf[s])
        /\ \A s, t \in S : s # t => ~ Overlaps(rowOf[s], rowOf[t])
    BY <2>4, <2>5, <2>6
  <2> QED BY <1>2, <2>1, <2>2, <2>7
<1>5. CASE UpdateSubnet(r)
  <2>1. PICK net \in req[r].nets :
          /\ req[r].at = "update subnet"
          /\ net[1] \in Subnets
          /\ subnet' = [subnet EXCEPT ![net[1]] = net[2]]
    BY <1>5 DEF UpdateSubnet
  <2>2. PICK u \in Subnets, c \in CIDRs : u = net[1] /\ c = net[2]
    BY <1>0, <2>1, HandlerFields
  <2>3. /\ Subnets' = Subnets /\ subnet'[u] = c
        /\ \A s \in Subnets : s # u => subnet'[s] = subnet[s]
    BY <1>0, <2>1, <2>2 DEF Subnets
  <2>4. \A s \in Subnets : s # u => ~ Overlaps(subnet[s], c)
    BY <2>1, <2>2 DEF CheckHolds
  <2>5. \A s \in Subnets : s # u => ~ Overlaps(c, subnet[s])
    BY <2>4, OverlapSym
  <2> QED BY <2>3, <2>4, <2>5 DEF OverlapsBlocked
<1> QED BY <1>3, <1>4, <1>5

LEMMA NextDisjoint == RowsTyped /\ DisjointInv /\ [Next]_vars => DisjointInv'
<1> SUFFICES ASSUME RowsTyped, DisjointInv, [Next]_vars PROVE DisjointInv'
  OBVIOUS
<1>1. CASE UNCHANGED vars
  BY <1>1 DEF vars, inventory, history, DisjointInv, OverlapsBlocked, CheckHolds, Subnets
<1>2. ASSUME NEW r \in Requests, DeleteSubnets(r) PROVE DisjointInv'
  <2>1. PICK S \in SUBSET Subnets :
          /\ subnet' = [s \in SubnetIds |-> IF s \in S THEN None ELSE subnet[s]]
          /\ UNCHANGED <<req, overtaken, raced>>
    BY <1>2 DEF DeleteSubnets
  <2>2. Subnets' \subseteq Subnets /\ \A s \in Subnets' : subnet'[s] = subnet[s]
    BY <2>1 DEF Subnets
  <2> QED BY <2>1, <2>2, ChecksKept
<1> QED BY <1>1, <1>2, QuietDisjoint, CheckDisjoint, WriteDisjoint DEF Next

(***************************************************************************)
(* No two subnets overlap, for any set of CIDRs, as long as no create,     *)
(* edit or import wrote after another one slipped between its overlap      *)
(* check (ensureNoSubnetOverlap, validateSubnets) and its write.           *)
(***************************************************************************)
THEOREM SubnetsStayDisjoint == Spec => []SubnetsDisjoint
<1>1. Init => DisjointInv
  <2> SUFFICES ASSUME Init PROVE OverlapsBlocked /\ \A r \in Requests : CheckHolds(req[r])
    BY DEF DisjointInv
  <2>1. OverlapsBlocked
    BY DEF Init, OverlapsBlocked
  <2>2. \A r \in Requests : req[r].at = "idle"
    BY IdleHandler DEF Init
  <2> QED BY <2>1, <2>2 DEF CheckHolds
<1>2. FiledInv => RowsTyped
  BY DEF FiledInv
<1>3. DisjointInv => SubnetsDisjoint
  BY DEF DisjointInv, SubnetsDisjoint
<1> QED BY <1>1, <1>2, <1>3, FiledInvariant, NextDisjoint, PTL DEF Spec

-----------------------------------------------------------------------------
(* Removals: what they take along, and what they leave                     *)

RemovalPoints == {"orphans", "delete orphans", "devices", "commit addresses", "commit devices"}
\* The removals of addresses that have looked for orphans.
Looked == {"delete orphans", "commit addresses"}

\* The rows a removal holds belong to its devices: nobody else can write them.
RowsOwned(h) ==
  h.at \in {"orphans", "devices", "commit devices"} => \A a \in h.rows : address[a].device \in h.devs \cup {None}

\* A device an address removal found orphaned gains no address before the commit
\* but those linked before the removal locked it.
DevicesFree(h) == h.at \in Looked => \A d \in h.devs : Linked(d) \subseteq h.rows \cup overlooked

\* A device all of whose addresses are being removed, and that the removal leaves,
\* lost its other addresses by hand or to a removal that crossed this one.
DevicesLeft(h) ==
  h.at \in Looked =>
    \A d \in device \ h.devs : Linked(d) # {} /\ Linked(d) \subseteq h.rows => d \in unlinked \cup crossed
Crossings(h, g) ==
  h.at \in Looked /\ g.at \in Looked =>
    \A d \in device : Linked(d) \cap h.rows # {} /\ Linked(d) \cap g.rows # {} => d \in crossed

LocksInv == \A r \in Requests : RowsOwned(req[r]) /\ DevicesFree(req[r])
OrphansInv ==
  /\ OrphansRemoved
  /\ \A r \in Requests : DevicesLeft(req[r])
  /\ \A r, q \in Requests : r # q => Crossings(req[r], req[q])

LEMMA LinkedRows ==
  ASSUME RowsTyped, NEW d \in Devices
  PROVE  Linked(d) = {a \in AddressIds : address[a].device = d}
<1>1. \A a \in AddressIds : address[a].device = d => a \in Records
  BY RowFields, InventoryAssumption
<1> QED BY <1>1 DEF Linked, Records

LEMMA LinkedRowsNext ==
  ASSUME RowsTyped', NEW d \in Devices
  PROVE  Linked(d)' = {a \in AddressIds : address'[a].device = d}
<1>1. ASSUME NEW a \in AddressIds, address'[a].device = d PROVE address'[a] # NoRow
  BY <1>1, InventoryAssumption DEF NoRow
<1> QED BY <1>1 DEF Linked, Records

\* What the removals of others hold is locked.
LEMMA HeldLocked ==
  ASSUME NEW r \in Requests, NEW k \in Requests \ {r}, req[k].at \in RemovalPoints
  PROVE  /\ req[k].rows \subseteq LockedRows(r)
         /\ req[k].at \in {"commit addresses", "commit devices"} => req[k].devs \subseteq LockedDevices(r)
BY DEF RemovalPoints, LockedRows, LockedDevices, DeletedRows, DeletedDevices

\* A step that touches no link, no device and no removal.
LEMMA QuietRemovals ==
  ASSUME RowsTyped, RowsTyped', LocksInv, OrphansInv, NEW r \in Requests,
         \A a \in AddressIds : address'[a].device = address[a].device,
         UNCHANGED <<device, unlinked, crossed, overlooked>>,
         \A k \in Requests : req'[k] = req[k] \/ req'[k].at \notin RemovalPoints
  PROVE  LocksInv' /\ OrphansInv'
<1>1. \A d \in Devices : Linked(d)' = Linked(d)
  BY LinkedRows, LinkedRowsNext
<1>2. \A k \in Requests : /\ req[k].rows \subseteq AddressIds /\ req[k].devs \subseteq Devices
                          /\ req'[k].rows \subseteq AddressIds /\ req'[k].devs \subseteq Devices
  BY HandlerFields DEF RowsTyped
<1>3. device \subseteq Devices
  BY DEF RowsTyped
<1>4. ASSUME NEW k \in Requests PROVE RowsOwned(req[k])' /\ DevicesFree(req[k])' /\ DevicesLeft(req[k])'
  <2>1. CASE req'[k].at \notin RemovalPoints
    BY <2>1 DEF RowsOwned, DevicesFree, DevicesLeft, RemovalPoints, Looked
  <2>2. CASE req'[k] = req[k]
    <3>1. RowsOwned(req[k]) /\ DevicesFree(req[k]) /\ DevicesLeft(req[k])
      BY DEF LocksInv, OrphansInv
    <3>2. RowsOwned(req[k])'
      BY <1>2, <2>2, <3>1 DEF RowsOwned
    <3>3. DevicesFree(req[k])'
      BY <1>1, <1>2, <2>2, <3>1 DEF DevicesFree
    <3>4. DevicesLeft(req[k])'
      BY <1>1, <1>3, <2>2, <3>1 DEF DevicesLeft
    <3> QED BY <3>2, <3>3, <3>4
  <2> QED BY <2>1, <2>2
<1>5. ASSUME NEW k \in Requests, NEW q \in Requests, k # q PROVE Crossings(req[k], req[q])'
  <2>1. CASE req'[k].at \notin RemovalPoints \/ req'[q].at \notin RemovalPoints
    BY <2>1 DEF Crossings, RemovalPoints, Looked
  <2>2. CASE req'[k] = req[k] /\ req'[q] = req[q]
    <3>1. Crossings(req[k], req[q])
      BY <1>5 DEF OrphansInv
    <3> QED BY <1>1, <1>3, <2>2, <3>1 DEF Crossings
  <2> QED BY <2>1, <2>2
<1>6. OrphansRemoved'
  BY <1>1, <1>3 DEF OrphansInv, OrphansRemoved
<1> QED BY <1>4, <1>5, <1>6 DEF LocksInv, OrphansInv

\* Edits of addresses leave alone the rows that removals hold, and link no device
\* that a removal is about to delete.
LEMMA EditSteps ==
  ASSUME RowsTyped, NEW r \in Requests,
         CreateAddress(r) \/ UpdateAddress(r) \/ BulkClearAddressDevice(r) \/ CommitImport(r)
  PROVE  /\ \A k \in Requests \ {r} : req[k].at \in RemovalPoints =>
              \A a \in req[k].rows : address'[a].device = address[a].device
         /\ \A a \in AddressIds : \/ address'[a].device \in {address[a].device, None}
                                  \/ DeviceKeyHolds(r, address'[a].device)
         /\ HandEdit(r) /\ Overlook /\ UNCHANGED <<device, crossed>>
         /\ req'[r] = Idle /\ \A k \in Requests \ {r} : req'[k] = req[k]
<1>0. /\ req \in [Requests -> Handler] /\ address \in [AddressIds -> AddressRow \cup {NoRow}]
      /\ \A k \in Requests : req[k].rows \subseteq AddressIds
  BY HandlerFields DEF RowsTyped
<1>1. ASSUME NEW W \in SUBSET AddressIds, W \cap LockedRows(r) = {},
             \A a \in AddressIds \ W : address'[a] = address[a],
             NEW k \in Requests \ {r}, req[k].at \in RemovalPoints, NEW a \in req[k].rows
      PROVE  address'[a].device = address[a].device
  BY <1>0, <1>1, HeldLocked
<1>2. ASSUME NEW n, NEW A \in NewAddresses(n), NEW k \in Requests PROVE A \cap req[k].rows = {} /\ A \subseteq AddressIds
  BY DEF NewAddresses
<1>3. CASE CreateAddress(r)
  <2>0. PICK net \in req[r].nets, d \in Devices \cup {None} : \E ip \in net[2] :
          /\ DeviceKeyHolds(r, d)
          /\ \E A \in NewAddresses(1) :
               address' = [a \in AddressIds |-> IF a \in A THEN [ip |-> ip, subnet |-> net[1], device |-> d] ELSE address[a]]
    BY <1>3 DEF CreateAddress
  <2>1. PICK ip \in net[2], A \in NewAddresses(1) :
          /\ DeviceKeyHolds(r, d)
          /\ address' = [a \in AddressIds |-> IF a \in A THEN [ip |-> ip, subnet |-> net[1], device |-> d] ELSE address[a]]
    BY <2>0
  <2>2. \A a \in A : a \in AddressIds /\ address'[a].device = d
    BY <1>2, <2>1
  <2>3. \A a \in AddressIds \ A : address'[a] = address[a]
    BY <2>1
  <2>4. \A k \in Requests \ {r} : \A a \in req[k].rows : address'[a].device = address[a].device
    BY <1>0, <1>2, <2>3
  <2>5. \A a \in AddressIds : address'[a].device = address[a].device \/ DeviceKeyHolds(r, address'[a].device)
    BY <2>1, <2>2, <2>3
  <2>6. HandEdit(r) /\ Overlook /\ UNCHANGED <<device, crossed>> /\ Done(r)
    BY <1>3 DEF CreateAddress
  <2> QED BY <1>0, <2>4, <2>5, <2>6 DEF Done
<1>4. CASE UpdateAddress(r)
  <2>0. PICK u \in Records \ (LockedRows(r) \cup HeldRows(r)) : \E d, ip :
          /\ DeviceKeyHolds(r, d)
          /\ address' = [address EXCEPT ![u].ip = ip, ![u].device = d]
    BY <1>4 DEF UpdateAddress
  <2>1. PICK d, ip :
          /\ DeviceKeyHolds(r, d)
          /\ address' = [address EXCEPT ![u].ip = ip, ![u].device = d]
    BY <2>0
  <2>2. u \in AddressIds /\ address[u] \in AddressRow
    BY <2>1, RowFields DEF Records
  <2>3. address'[u].device = d /\ \A a \in AddressIds \ {u} : address'[a] = address[a]
    BY <1>0, <2>1, <2>2 DEF AddressRow
  <2>4. \A k \in Requests \ {r} : req[k].at \in RemovalPoints =>
          \A a \in req[k].rows : address'[a].device = address[a].device
    <3>1. {u} \cap LockedRows(r) = {} /\ {u} \in SUBSET AddressIds
      BY <2>1, <2>2
    <3> QED BY <1>1, <2>3, <3>1
  <2>5. \A a \in AddressIds : address'[a].device = address[a].device \/ DeviceKeyHolds(r, address'[a].device)
    BY <2>1, <2>3
  <2>6. HandEdit(r) /\ Overlook /\ UNCHANGED <<device, crossed>> /\ Done(r)
    BY <1>4 DEF UpdateAddress
  <2> QED BY <1>0, <2>4, <2>5, <2>6 DEF Done
<1>5. CASE BulkClearAddressDevice(r)
  <2>1. PICK A \in SUBSET Records :
          /\ A \cap (LockedRows(r) \cup HeldRows(r)) = {}
          /\ address' = [a \in AddressIds |-> IF a \in A THEN [address[a] EXCEPT !.device = None] ELSE address[a]]
    BY <1>5 DEF BulkClearAddressDevice
  <2>2. \A a \in A : a \in AddressIds /\ address[a] \in AddressRow
    BY RowFields DEF Records
  <2>3. \A a \in A : address'[a].device = None
    BY <2>1, <2>2 DEF AddressRow
  <2>4. \A a \in AddressIds \ A : address'[a] = address[a]
    BY <2>1
  <2>5. \A k \in Requests \ {r} : req[k].at \in RemovalPoints =>
          \A a \in req[k].rows : address'[a].device = address[a].device
    <3>1. A \in SUBSET AddressIds
      BY <2>2
    <3> QED BY <1>1, <2>1, <2>4, <3>1
  <2>6. \A a \in AddressIds : address'[a].device \in {address[a].device, None}
    BY <2>3, <2>4
  <2>7. HandEdit(r) /\ Overlook /\ UNCHANGED <<device, crossed, req>> /\ req[r] = Idle
    BY <1>5 DEF BulkClearAddressDevice
  <2> QED BY <2>5, <2>6, <2>7
<1>6. CASE CommitImport(r)
  <2> DEFINE file == req[r].file
             new  == {row \in file : Holder(row.ip) = {}}
             held == UNION {Holder(row.ip) : row \in file}
  <2>1. PICK A \in NewAddresses(Cardinality(new)) : \E rowOf \in [A \cup held -> file] :
          address' = [a \in AddressIds |-> IF a \in A \cup held THEN rowOf[a] ELSE address[a]]
    BY <1>6 DEF CommitImport, HeldBy
  <2>2. PICK rowOf \in [A \cup held -> file] :
          address' = [a \in AddressIds |-> IF a \in A \cup held THEN rowOf[a] ELSE address[a]]
    BY <2>1
  <2>3. held \cap LockedRows(r) = {} /\ \A row \in file : DeviceKeyHolds(r, row.device)
    BY <1>6 DEF CommitImport, HeldBy
  <2>4. held \subseteq AddressIds
    BY DEF Holder, Records
  <2> HIDE DEF file, new, held
  <2>5. /\ \A a \in A \cup held : a \in AddressIds => address'[a] = rowOf[a] /\ rowOf[a] \in file
        /\ \A a \in AddressIds \ (A \cup held) : address'[a] = address[a]
    BY <2>2
  <2>6. ASSUME NEW k \in Requests \ {r}, req[k].at \in RemovalPoints, NEW a \in req[k].rows
        PROVE  address'[a].device = address[a].device
    <3>1. a \notin A /\ a \in AddressIds
      BY <1>0, <1>2, <2>1
    <3>2. a \notin held
      BY <2>3, <2>6, HeldLocked
    <3> QED BY <2>5, <3>1, <3>2
  <2>7. \A a \in AddressIds : address'[a].device = address[a].device \/ DeviceKeyHolds(r, address'[a].device)
    BY <2>3, <2>5
  <2>8. HandEdit(r) /\ Overlook /\ UNCHANGED <<device, crossed>> /\ Done(r)
    BY <1>6 DEF CommitImport, HeldBy
  <2> QED BY <1>0, <2>6, <2>7, <2>8 DEF Done
<1> QED BY <1>3, <1>4, <1>5, <1>6

LEMMA EditRemovals ==
  ASSUME RowsTyped, RowsTyped', LocksInv, OrphansInv, NEW r \in Requests,
         CreateAddress(r) \/ UpdateAddress(r) \/ BulkClearAddressDevice(r) \/ CommitImport(r)
  PROVE  LocksInv' /\ OrphansInv'
<1>0. /\ \A k \in Requests \ {r} : req[k].at \in RemovalPoints =>
           \A a \in req[k].rows : address'[a].device = address[a].device
      /\ \A a \in AddressIds : \/ address'[a].device \in {address[a].device, None}
                               \/ DeviceKeyHolds(r, address'[a].device)
      /\ HandEdit(r) /\ Overlook /\ UNCHANGED <<device, crossed>>
      /\ req'[r] = Idle /\ \A k \in Requests \ {r} : req'[k] = req[k]
  BY EditSteps
<1>1. Idle.at \notin RemovalPoints
  BY DEF Idle, RemovalPoints
<1>2. \A k \in Requests : /\ req[k].rows \subseteq AddressIds /\ req[k].devs \subseteq Devices
  BY HandlerFields DEF RowsTyped
<1>3. device \subseteq Devices /\ None \notin Devices
  BY InventoryAssumption DEF RowsTyped
<1>4. \A d \in Devices : /\ Linked(d) = {a \in AddressIds : address[a].device = d}
                         /\ Linked(d)' = {a \in AddressIds : address'[a].device = d}
  BY LinkedRows, LinkedRowsNext
<1>5. \A d \in device : LinkedAfter(r, d) = {} /\ (d \in unlinked \/ Linked(d) # {}) => d \in unlinked'
  BY <1>0 DEF HandEdit
<1>6. \A d \in Devices : LinkedAfter(r, d) = Linked(d)' \ LockedRows(r)
  BY <1>4 DEF LinkedAfter
<1>7. \A d \in device : Linked(d) = {} => d \in unlinked \cup crossed
  BY DEF OrphansInv, OrphansRemoved
<1>8. ASSUME NEW k \in Requests, req'[k].at \in RemovalPoints
      PROVE  k # r /\ req'[k] = req[k] /\ req[k].at \in RemovalPoints /\ req[k].rows \subseteq LockedRows(r)
  BY <1>0, <1>1, <1>8, HeldLocked
<1>9. ASSUME NEW k \in Requests PROVE RowsOwned(req[k])'
  <2>1. CASE req'[k].at \notin RemovalPoints
    BY <2>1 DEF RowsOwned, RemovalPoints
  <2>2. CASE req'[k].at \in RemovalPoints
    <3>1. RowsOwned(req[k])
      BY DEF LocksInv
    <3> QED BY <1>0, <1>8, <2>2, <3>1 DEF RowsOwned
  <2> QED BY <2>1, <2>2
<1>10. ASSUME NEW k \in Requests PROVE DevicesFree(req[k])'
  <2> SUFFICES ASSUME req'[k].at \in Looked, NEW d \in req'[k].devs, NEW a \in Linked(d)'
               PROVE  a \in req'[k].rows \cup overlooked'
    BY DEF DevicesFree
  <2>1. k # r /\ req'[k] = req[k] /\ req[k].at \in Looked
    BY <1>0, <1>1 DEF RemovalPoints, Looked
  <2>2. d \in Devices /\ d \in req[k].devs
    BY <1>2, <2>1
  <2>3. a \in AddressIds /\ address'[a].device = d /\ d # None
    BY <1>3, <1>4, <2>2
  <2>4. CASE address[a].device = d
    <3>1. DevicesFree(req[k])
      BY DEF LocksInv
    <3>2. a \in req[k].rows \cup overlooked
      BY <1>4, <2>1, <2>2, <2>3, <2>4, <3>1 DEF DevicesFree
    <3>3. a \in overlooked => a \in overlooked'
      BY <1>0, <2>3, <2>4 DEF Overlook
    <3> QED BY <2>1, <3>2, <3>3
  <2>5. CASE address[a].device # d
    <3>1. d \notin LockedDevices(r)
      BY <1>0, <2>3, <2>5 DEF DeviceKeyHolds
    <3>2. req[k].at = "delete orphans"
      BY <2>1, <2>2, <3>1, HeldLocked DEF RemovalPoints, Looked
    <3>3. d \in Doomed
      BY <2>2, <3>2 DEF Doomed
    <3> QED BY <1>0, <2>3, <2>5, <3>3 DEF Overlook
  <2> QED BY <2>4, <2>5
<1>11. ASSUME NEW k \in Requests PROVE DevicesLeft(req[k])'
  <2> SUFFICES ASSUME req'[k].at \in Looked, NEW d \in device, Linked(d)' \subseteq req'[k].rows
               PROVE  d \in unlinked' \cup crossed
    BY <1>0 DEF DevicesLeft
  <2>1. Linked(d)' \ LockedRows(r) = {}
    BY <1>8 DEF RemovalPoints, Looked
  <2> QED BY <1>3, <1>5, <1>6, <1>7, <2>1
<1>12. ASSUME NEW k \in Requests, NEW q \in Requests, k # q PROVE Crossings(req[k], req[q])'
  <2> SUFFICES ASSUME req'[k].at \in Looked, req'[q].at \in Looked, NEW d \in device,
                      Linked(d)' \cap req'[k].rows # {}, Linked(d)' \cap req'[q].rows # {}
               PROVE  d \in crossed
    BY <1>0 DEF Crossings
  <2>1. ASSUME NEW j \in Requests, req'[j].at \in Looked, Linked(d)' \cap req'[j].rows # {}
        PROVE  Linked(d) \cap req[j].rows # {} /\ req[j].at \in Looked
    <3>1. j # r /\ req'[j] = req[j] /\ req[j].at \in RemovalPoints
      BY <1>8, <2>1 DEF RemovalPoints, Looked
    <3>2. PICK a \in AddressIds : address'[a].device = d /\ a \in req[j].rows
      BY <1>3, <1>4, <2>1, <3>1
    <3>3. address[a].device = d
      BY <1>0, <3>1, <3>2
    <3> QED BY <1>3, <1>4, <2>1, <3>1, <3>2, <3>3
  <2>2. Crossings(req[k], req[q])
    BY <1>12 DEF OrphansInv
  <2> QED BY <2>1, <2>2 DEF Crossings
<1>13. OrphansRemoved'
  <2> SUFFICES ASSUME NEW d \in device, Linked(d)' = {} PROVE d \in unlinked' \cup crossed
    BY <1>0 DEF OrphansRemoved
  <2> QED BY <1>3, <1>5, <1>6, <1>7
<1> QED BY <1>9, <1>10, <1>11, <1>12, <1>13 DEF LocksInv, OrphansInv

\* A removal begins: it holds rows of its devices only.
LEMMA BeginRemovals ==
  ASSUME RowsTyped, RowsTyped', LocksInv, OrphansInv, NEW r \in Requests, DeleteAddresses(r) \/ DeleteDevices(r)
  PROVE  LocksInv' /\ OrphansInv'
<1>0. PICK A \in SUBSET Records, D \in SUBSET Devices : \E h :
        /\ req' = [req EXCEPT ![r] = h] /\ req[r] = Idle
        /\ h.rows = A /\ h.devs = D /\ A \cap LockedRows(r) = {}
        /\ \/ DeleteAddresses(r) /\ h.at = "orphans" /\ D = {address[a].device : a \in A} \ {None}
           \/ DeleteDevices(r) /\ h.at = "devices" /\ A = UNION {Linked(d) : d \in D}
        /\ UNCHANGED <<inventory, history>>
  BY RemovalSteps
<1>1. PICK h :
        /\ req' = [req EXCEPT ![r] = h] /\ req[r] = Idle
        /\ h.rows = A /\ h.devs = D /\ A \cap LockedRows(r) = {}
        /\ \/ DeleteAddresses(r) /\ h.at = "orphans" /\ D = {address[a].device : a \in A} \ {None}
           \/ DeleteDevices(r) /\ h.at = "devices" /\ A = UNION {Linked(d) : d \in D}
        /\ UNCHANGED <<inventory, history>>
  BY <1>0
<1>2. UNCHANGED <<address, device, unlinked, crossed, overlooked>> /\ \A d : Linked(d)' = Linked(d)
  BY <1>1 DEF inventory, history, Linked, Records
<1>3. req'[r] = h /\ \A k \in Requests \ {r} : req'[k] = req[k]
  BY <1>1 DEF RowsTyped
<1>4. ASSUME NEW k \in Requests PROVE RowsOwned(req[k])' /\ DevicesFree(req[k])' /\ DevicesLeft(req[k])'
  <2>1. CASE k = r
    <3>1. \A a \in h.rows : address'[a].device \in h.devs \cup {None}
      BY <1>1, <1>2 DEF Linked
    <3> QED BY <1>1, <1>3, <2>1, <3>1 DEF RowsOwned, DevicesFree, DevicesLeft, Looked
  <2>2. CASE k # r
    <3>1. RowsOwned(req[k]) /\ DevicesFree(req[k]) /\ DevicesLeft(req[k]) /\ req'[k] = req[k]
      BY <1>3, <2>2 DEF LocksInv, OrphansInv
    <3> QED BY <1>2, <3>1 DEF RowsOwned, DevicesFree, DevicesLeft, Looked
  <2> QED BY <2>1, <2>2
<1>5. ASSUME NEW k \in Requests, NEW q \in Requests, k # q PROVE Crossings(req[k], req[q])'
  <2>1. CASE k = r \/ q = r
    BY <1>1, <1>3, <2>1 DEF Crossings, Looked
  <2>2. CASE k # r /\ q # r
    <3>1. Crossings(req[k], req[q]) /\ req'[k] = req[k] /\ req'[q] = req[q]
      BY <1>3, <1>5, <2>2 DEF OrphansInv
    <3> QED BY <1>2, <3>1 DEF Crossings
  <2> QED BY <2>1, <2>2
<1>6. OrphansRemoved'
  BY <1>2 DEF OrphansInv, OrphansRemoved
<1> QED BY <1>4, <1>5, <1>6 DEF LocksInv, OrphansInv

\* The devices an address removal takes along have no other address; a device whose
\* address another removal holds as well is noted.
LEMMA OrphanRemovals ==
  ASSUME RowsTyped, RowsTyped', LocksInv, OrphansInv, NEW r \in Requests, DeleteOrphanDevices(r)
  PROVE  LocksInv' /\ OrphansInv'
<1> DEFINE gone == {d \in req[r].devs \cap device : Orphan(r, d)}
<1>0. req[r] \in Handler /\ req[r].at = "orphans" /\ device \subseteq Devices /\ None \notin Devices
  BY InventoryAssumption DEF RowsTyped, DeleteOrphanDevices
<1>1. /\ req' = [req EXCEPT ![r].at = "delete orphans", ![r].devs = gone]
      /\ crossed' = crossed \cup {d \in req[r].devs : Linked(d) \cap LockedRows(r) # {}}
      /\ UNCHANGED <<address, device, unlinked, overlooked>>
  BY DEF DeleteOrphanDevices, inventory
<1>2. \A d \in device : d \in req[r].devs /\ Linked(d) \subseteq req[r].rows => d \in gone
  BY DEF Orphan
<1>3. \A d \in gone : Linked(d) \subseteq req[r].rows
  BY DEF Orphan
<1> HIDE DEF gone
<1>4. /\ req'[r].at = "delete orphans" /\ req'[r].devs = gone /\ req'[r].rows = req[r].rows
      /\ \A k \in Requests \ {r} : req'[k] = req[k]
  BY <1>0, <1>1 DEF RowsTyped, Handler
<1>5. \A d : Linked(d)' = Linked(d)
  BY <1>1 DEF Linked, Records
<1>6. \A d \in device : Linked(d) \cap req[r].rows # {} => d \in req[r].devs
  <2>1. RowsOwned(req[r])
    BY DEF LocksInv
  <2> QED BY <1>0, <2>1 DEF RowsOwned, Linked
<1>7. ASSUME NEW k \in Requests PROVE RowsOwned(req[k])' /\ DevicesFree(req[k])' /\ DevicesLeft(req[k])'
  <2>1. CASE k = r
    <3>1. \A d \in device : Linked(d) # {} /\ Linked(d) \subseteq req[r].rows => d \in gone
      BY <1>2, <1>6
    <3> QED BY <1>1, <1>3, <1>4, <1>5, <2>1, <3>1 DEF RowsOwned, DevicesFree, DevicesLeft, Looked
  <2>2. CASE k # r
    <3>1. RowsOwned(req[k]) /\ DevicesFree(req[k]) /\ DevicesLeft(req[k]) /\ req'[k] = req[k]
      BY <1>4, <2>2 DEF LocksInv, OrphansInv
    <3> QED BY <1>1, <1>5, <3>1 DEF RowsOwned, DevicesFree, DevicesLeft, Looked
  <2> QED BY <2>1, <2>2
<1>8. ASSUME NEW k \in Requests, NEW d \in device, k # r, req[k].at \in Looked,
             Linked(d) \cap req[r].rows # {}, Linked(d) \cap req[k].rows # {}
      PROVE  d \in crossed'
  <2>1. req[k].rows \subseteq LockedRows(r)
    BY <1>8, HeldLocked DEF RemovalPoints, Looked
  <2> QED BY <1>1, <1>6, <1>8, <2>1
<1>9. ASSUME NEW k \in Requests, NEW q \in Requests, k # q PROVE Crossings(req[k], req[q])'
  <2>1. CASE k = r
    BY <1>1, <1>4, <1>5, <1>8, <1>9, <2>1 DEF Crossings
  <2>2. CASE q = r
    BY <1>1, <1>4, <1>5, <1>8, <1>9, <2>2 DEF Crossings
  <2>3. CASE k # r /\ q # r
    <3>1. Crossings(req[k], req[q]) /\ req'[k] = req[k] /\ req'[q] = req[q]
      BY <1>4, <1>9, <2>3 DEF OrphansInv
    <3> QED BY <1>1, <1>5, <3>1 DEF Crossings
  <2> QED BY <2>1, <2>2, <2>3
<1>10. OrphansRemoved'
  BY <1>1, <1>5 DEF OrphansInv, OrphansRemoved
<1> QED BY <1>7, <1>9, <1>10 DEF LocksInv, OrphansInv

\* The removal locks its devices: nothing it knows of them is lost.
LEMMA LockRemovals ==
  ASSUME RowsTyped, RowsTyped', LocksInv, OrphansInv, NEW r \in Requests, LockOrphanDevices(r)
  PROVE  LocksInv' /\ OrphansInv'
<1>1. /\ req[r].at = "delete orphans" /\ req'[r].at = "commit addresses" /\ req'[r].rows = req[r].rows
      /\ req'[r].devs = req[r].devs \cap device /\ \A k \in Requests \ {r} : req'[k] = req[k]
      /\ UNCHANGED <<address, device, unlinked, crossed, overlooked>>
  <2>1. req[r].at = "delete orphans" /\ UNCHANGED <<address, device, unlinked, crossed, overlooked>>
    BY DEF LockOrphanDevices, inventory, history
  <2>2. req[r] \in Handler /\ req \in [Requests -> Handler]
    BY DEF RowsTyped
  <2> QED BY <2>1, <2>2 DEF LockOrphanDevices, Handler
<1>2. \A d : Linked(d)' = Linked(d)
  BY <1>1 DEF Linked, Records
<1>3. ASSUME NEW k \in Requests PROVE RowsOwned(req[k])' /\ DevicesFree(req[k])' /\ DevicesLeft(req[k])'
  <2>1. RowsOwned(req[k]) /\ DevicesFree(req[k]) /\ DevicesLeft(req[k])
    BY DEF LocksInv, OrphansInv
  <2>2. CASE k = r
    <3>1. RowsOwned(req[k])'
      BY <1>1, <2>2 DEF RowsOwned
    <3>2. DevicesFree(req[k])'
      BY <1>1, <1>2, <2>1, <2>2 DEF DevicesFree, Looked
    <3>3. DevicesLeft(req[k])'
      BY <1>1, <1>2, <2>1, <2>2 DEF DevicesLeft, Looked
    <3> QED BY <3>1, <3>2, <3>3
  <2>3. CASE k # r
    BY <1>1, <1>2, <2>1, <2>3 DEF RowsOwned, DevicesFree, DevicesLeft
  <2> QED BY <2>2, <2>3
<1>4. ASSUME NEW k \in Requests, NEW q \in Requests, k # q PROVE Crossings(req[k], req[q])'
  <2>1. Crossings(req[k], req[q])
    BY <1>4 DEF OrphansInv
  <2>2. \A j \in Requests : (req'[j].at \in Looked <=> req[j].at \in Looked) /\ req'[j].rows = req[j].rows
    BY <1>1 DEF Looked
  <2> QED BY <1>1, <1>2, <2>1, <2>2 DEF Crossings
<1>5. OrphansRemoved'
  BY <1>1, <1>2 DEF OrphansInv, OrphansRemoved
<1> QED BY <1>3, <1>4, <1>5 DEF LocksInv, OrphansInv

LEMMA DeviceRowRemovals ==
  ASSUME RowsTyped, RowsTyped', LocksInv, OrphansInv, NEW r \in Requests, DeleteDeviceRows(r)
  PROVE  LocksInv' /\ OrphansInv'
<1>1. /\ req[r].at = "devices" /\ req'[r].at = "commit devices" /\ req'[r].rows = req[r].rows
      /\ req'[r].devs = req[r].devs /\ \A k \in Requests \ {r} : req'[k] = req[k]
      /\ UNCHANGED <<address, device, unlinked, crossed, overlooked>>
  <2>1. req[r].at = "devices" /\ UNCHANGED <<address, device, unlinked, crossed, overlooked>>
    BY DEF DeleteDeviceRows, inventory, history
  <2>2. req[r] \in Handler /\ req \in [Requests -> Handler]
    BY DEF RowsTyped
  <2> QED BY <2>1, <2>2 DEF DeleteDeviceRows, Handler
<1>2. \A d : Linked(d)' = Linked(d)
  BY <1>1 DEF Linked, Records
<1>3. ASSUME NEW k \in Requests PROVE RowsOwned(req[k])' /\ DevicesFree(req[k])' /\ DevicesLeft(req[k])'
  <2>1. RowsOwned(req[k]) /\ DevicesFree(req[k]) /\ DevicesLeft(req[k])
    BY DEF LocksInv, OrphansInv
  <2>2. CASE k = r
    BY <1>1, <2>1, <2>2 DEF RowsOwned, DevicesFree, DevicesLeft, Looked
  <2>3. CASE k # r
    BY <1>1, <1>2, <2>1, <2>3 DEF RowsOwned, DevicesFree, DevicesLeft
  <2> QED BY <2>2, <2>3
<1>4. ASSUME NEW k \in Requests, NEW q \in Requests, k # q PROVE Crossings(req[k], req[q])'
  <2>1. CASE k = r \/ q = r
    BY <1>1, <2>1 DEF Crossings, Looked
  <2>2. CASE k # r /\ q # r
    <3>1. Crossings(req[k], req[q]) /\ req'[k] = req[k] /\ req'[q] = req[q]
      BY <1>1, <1>4, <2>2 DEF OrphansInv
    <3> QED BY <1>1, <1>2, <3>1 DEF Crossings
  <2> QED BY <2>1, <2>2
<1>5. OrphansRemoved'
  BY <1>1, <1>2 DEF OrphansInv, OrphansRemoved
<1> QED BY <1>3, <1>4, <1>5 DEF LocksInv, OrphansInv

\* The commit: the rows and the devices of the removal go, and a device that stays
\* keeps its other addresses.
LEMMA CommitRemovals ==
  ASSUME RowsTyped, RowsTyped', LocksInv, OrphansInv, NEW r \in Requests, CommitAddresses(r) \/ CommitDevices(r)
  PROVE  LocksInv' /\ OrphansInv'
<1>0. /\ Committed(r) /\ req[r] \in Handler /\ req \in [Requests -> Handler]
      /\ req[r].at = "commit addresses" \/ req[r].at = "commit devices"
  BY DEF CommitAddresses, CommitDevices, RowsTyped
<1>1. /\ device' = device \ req[r].devs /\ unlinked' = unlinked \ req[r].devs /\ crossed' = crossed \ req[r].devs
      /\ req'[r] = Idle /\ \A k \in Requests \ {r} : req'[k] = req[k]
      /\ \A a \in AddressIds : address'[a] =
           IF a \in req[r].rows THEN NoRow
           ELSE IF address[a].device \in req[r].devs THEN [address[a] EXCEPT !.device = None] ELSE address[a]
      /\ Overlook
  BY <1>0 DEF Committed, Done
<1>2. /\ device \subseteq Devices /\ None \notin Devices
      /\ \A k \in Requests : req[k].rows \subseteq AddressIds /\ req[k].devs \subseteq Devices
      /\ Idle.at \notin RemovalPoints
  BY HandlerFields, InventoryAssumption DEF RowsTyped, Idle, RemovalPoints
<1>3. \A a \in AddressIds : /\ a \in req[r].rows => address'[a].device = None
                            /\ a \notin req[r].rows /\ address[a].device \in req[r].devs => address'[a].device = None
                            /\ a \notin req[r].rows /\ address[a].device \notin req[r].devs =>
                                 address'[a].device = address[a].device
  <2>1. ASSUME NEW a \in AddressIds, a \notin req[r].rows, address[a].device \in req[r].devs
        PROVE  address'[a].device = None
    <3>1. address[a] \in AddressRow
      BY <1>2, <2>1, RowFields
    <3> QED BY <1>1, <2>1, <3>1 DEF AddressRow
  <2>2. \A a \in AddressIds \cap req[r].rows : address'[a] = NoRow
    BY <1>1
  <2>3. \A a \in AddressIds \ req[r].rows : address[a].device \notin req[r].devs => address'[a] = address[a]
    BY <1>1
  <2> QED BY <2>1, <2>2, <2>3 DEF NoRow
<1>4. \A d \in Devices : /\ Linked(d) = {a \in AddressIds : address[a].device = d}
                         /\ Linked(d)' = {a \in AddressIds : address'[a].device = d}
  BY LinkedRows, LinkedRowsNext
<1>5. /\ \A d \in Devices : Linked(d)' \subseteq Linked(d)
      /\ \A d \in Devices \ req[r].devs : Linked(d)' = Linked(d) \ req[r].rows
  BY <1>2, <1>3, <1>4
<1>o. \A d \in Devices : \A a \in Linked(d)' : a \in overlooked => a \in overlooked'
  BY <1>1, <1>2, <1>4, <1>5 DEF Overlook
<1>6. /\ \A d \in device : Linked(d) = {} => d \in unlinked \cup crossed
      /\ \A k \in Requests : RowsOwned(req[k]) /\ DevicesFree(req[k]) /\ DevicesLeft(req[k])
      /\ \A k, q \in Requests : k # q => Crossings(req[k], req[q])
  BY DEF LocksInv, OrphansInv, OrphansRemoved
<1>7. req[r].at = "commit devices" => \A d \in device \ req[r].devs : Linked(d) \cap req[r].rows = {}
  <2> SUFFICES ASSUME req[r].at = "commit devices", NEW d \in device \ req[r].devs, NEW a \in Linked(d), a \in req[r].rows
               PROVE  FALSE
    OBVIOUS
  <2>1. RowsOwned(req[r])
    BY <1>6
  <2>2. address[a].device = d /\ d \in Devices
    BY <1>2 DEF Linked
  <2> QED BY <1>2, <2>1, <2>2 DEF RowsOwned
<1>8. OrphansRemoved'
  <2> SUFFICES ASSUME NEW d \in device \ req[r].devs, Linked(d)' = {} PROVE d \in unlinked \cup crossed
    BY <1>1 DEF OrphansRemoved
  <2>1. Linked(d) \subseteq req[r].rows
    BY <1>2, <1>5
  <2>2. DevicesLeft(req[r])
    BY <1>6
  <2> QED BY <1>0, <1>6, <1>7, <2>1, <2>2 DEF DevicesLeft, Looked
<1>9. ASSUME NEW k \in Requests PROVE RowsOwned(req[k])' /\ DevicesFree(req[k])' /\ DevicesLeft(req[k])'
  <2>1. CASE k = r
    BY <1>1, <1>2, <2>1 DEF RowsOwned, DevicesFree, DevicesLeft, RemovalPoints, Looked
  <2>2. CASE k # r
    <3>1. RowsOwned(req[k]) /\ DevicesFree(req[k]) /\ DevicesLeft(req[k]) /\ req'[k] = req[k]
      BY <1>1, <1>6, <2>2
    <3>2. RowsOwned(req[k])'
      BY <1>2, <1>3, <3>1 DEF RowsOwned
    <3>3. DevicesFree(req[k])'
      BY <1>2, <1>5, <1>o, <3>1 DEF DevicesFree
    <3>4. DevicesLeft(req[k])'
      <4> SUFFICES ASSUME req[k].at \in Looked, NEW d \in device \ req[r].devs, d \notin req[k].devs,
                          Linked(d)' # {}, Linked(d)' \subseteq req[k].rows
                   PROVE  d \in unlinked \cup crossed
        BY <1>1, <3>1 DEF DevicesLeft
      <4>1. CASE Linked(d) \cap req[r].rows = {}
        BY <1>2, <1>5, <3>1, <4>1 DEF DevicesLeft
      <4>2. CASE Linked(d) \cap req[r].rows # {}
        <5>1. req[r].at = "commit addresses" /\ Linked(d) \cap req[k].rows # {}
          BY <1>0, <1>2, <1>5, <1>7, <4>2
        <5>2. Crossings(req[r], req[k])
          BY <1>6, <2>2
        <5> QED BY <4>2, <5>1, <5>2 DEF Crossings, Looked
      <4> QED BY <4>1, <4>2
    <3> QED BY <3>2, <3>3, <3>4
  <2> QED BY <2>1, <2>2
<1>10. ASSUME NEW k \in Requests, NEW q \in Requests, k # q PROVE Crossings(req[k], req[q])'
  <2>1. CASE k = r \/ q = r
    BY <1>1, <1>2, <2>1 DEF Crossings, RemovalPoints, Looked
  <2>2. CASE k # r /\ q # r
    <3>1. Crossings(req[k], req[q]) /\ req'[k] = req[k] /\ req'[q] = req[q]
      BY <1>1, <1>6, <1>10, <2>2
    <3>2. \A d \in device : Linked(d)' \subseteq Linked(d)
      BY <1>2, <1>5
    <3> QED BY <1>1, <3>1, <3>2 DEF Crossings
  <2> QED BY <2>1, <2>2
<1> QED BY <1>8, <1>9, <1>10 DEF LocksInv, OrphansInv

\* A new device has no address, and counts as left without one by hand.
LEMMA DeviceRemovals ==
  ASSUME FiledInv, RowsTyped', LocksInv, OrphansInv, NEW r \in Requests, CreateDevice(r) \/ ImportDevices(r)
  PROVE  LocksInv' /\ OrphansInv'
<1>1. PICK n \in Devices \ device :
        /\ device' = device \cup {n} /\ unlinked' = unlinked \cup {n} /\ UNCHANGED <<address, req, crossed, overlooked>>
  BY DEF CreateDevice, ImportDevices, NewDevices
<1>2. Linked(n) = {} /\ \A d : Linked(d)' = Linked(d)
  <2>1. \A a \in Records : address[a].device # n
    BY <1>1, InventoryAssumption DEF FiledInv, AddressesFiled
  <2> QED BY <1>1, <2>1 DEF Linked, Records
<1>3. ASSUME NEW k \in Requests PROVE RowsOwned(req[k])' /\ DevicesFree(req[k])' /\ DevicesLeft(req[k])'
  <2>1. RowsOwned(req[k]) /\ DevicesFree(req[k]) /\ DevicesLeft(req[k])
    BY DEF LocksInv, OrphansInv
  <2> QED BY <1>1, <1>2, <2>1 DEF RowsOwned, DevicesFree, DevicesLeft
<1>4. ASSUME NEW k \in Requests, NEW q \in Requests, k # q PROVE Crossings(req[k], req[q])'
  <2>1. Crossings(req[k], req[q])
    BY <1>4 DEF OrphansInv
  <2> QED BY <1>1, <1>2, <2>1 DEF Crossings
<1>5. OrphansRemoved'
  BY <1>1, <1>2 DEF OrphansInv, OrphansRemoved
<1> QED BY <1>3, <1>4, <1>5 DEF LocksInv, OrphansInv

\* Steps that touch no link, no device and no removal.
LEMMA OtherRemovals ==
  ASSUME RowsTyped, RowsTyped', LocksInv, OrphansInv, NEW r \in Requests,
         \/ subnetCreate(r) \/ subnetUpdate(r) \/ ApplySubnets(r)
         \/ CreateSubnet(r) \/ UpdateSubnet(r) \/ ImportSubnets(r) \/ DeleteSubnets(r)
         \/ loadSubnetPage(r) \/ loadAddressPage(r) \/ buildImportContext(r) \/ ApplyAddresses(r)
         \/ ImportAddresses(r) \/ SubnetRefused(r) \/ AddressRefused(r) \/ ImportRefused(r)
  PROVE  LocksInv' /\ OrphansInv'
<1>0. req \in [Requests -> Handler] /\ req[r] \in Handler
  BY DEF RowsTyped
<1>1. ASSUME NEW h, req' = [req EXCEPT ![r] = h], h.at \notin RemovalPoints,
             UNCHANGED <<address, device, unlinked, crossed, overlooked>>
      PROVE  LocksInv' /\ OrphansInv'
  <2>1. \A k \in Requests : req'[k] = req[k] \/ req'[k].at \notin RemovalPoints
    BY <1>0, <1>1
  <2> QED BY <1>1, <2>1, QuietRemovals
<1>2. Idle.at \notin RemovalPoints
  BY DEF Idle, RemovalPoints
<1>3. CASE loadSubnetPage(r) \/ loadAddressPage(r) \/ buildImportContext(r)
  <2>1. PICK h : req' = [req EXCEPT ![r] = h] /\ h.at \in {"insert address", "update address", "import context"}
    BY <1>3, LoadSteps
  <2>2. UNCHANGED <<inventory, history>>
    BY <1>3, LoadSteps
  <2>3. h.at \notin RemovalPoints
    BY <2>1 DEF RemovalPoints
  <2> QED BY <1>1, <2>1, <2>2, <2>3 DEF inventory, history
<1>b. ASSUME NEW file, NEW at \in {"insert subnet", "import subnets"}, Begin(r, [Idle EXCEPT !.at = at, !.cidrs = file])
      PROVE  LocksInv' /\ OrphansInv'
  <2> DEFINE h == [Idle EXCEPT !.at = at, !.cidrs = file]
  <2>1. h.at \notin RemovalPoints
    BY DEF Idle, RemovalPoints
  <2>2. Begin(r, h)
    BY <1>b
  <2> HIDE DEF h
  <2> QED BY <1>1, <2>1, <2>2 DEF Begin, inventory, history
<1>4. CASE subnetCreate(r) \/ ApplySubnets(r)
  BY <1>4, <1>b DEF subnetCreate, ApplySubnets
<1>5. CASE subnetUpdate(r)
  <2>1. PICK s \in Subnets, c \in CIDRs : Begin(r, [Idle EXCEPT !.at = "update subnet", !.nets = {<<s, c>>}])
    BY <1>5 DEF subnetUpdate
  <2> DEFINE nets == {<<s, c>>}
             h == [Idle EXCEPT !.at = "update subnet", !.nets = nets]
  <2>2. Begin(r, h)
    BY <2>1
  <2> HIDE DEF nets
  <2>3. h.at \notin RemovalPoints
    BY DEF Idle, RemovalPoints
  <2> HIDE DEF h
  <2> QED BY <1>1, <2>2, <2>3 DEF Begin, inventory, history
<1>6. CASE CreateSubnet(r) \/ UpdateSubnet(r) \/ ImportSubnets(r)
  <2>1. Done(r) /\ UNCHANGED <<address, device, unlinked, crossed, overlooked>>
    BY <1>6 DEF CreateSubnet, UpdateSubnet, ImportSubnets
  <2> QED BY <1>1, <1>2, <2>1 DEF Done
<1>7. CASE Refused(r)
  BY <1>1, <1>2, <1>7 DEF Refused, Done, inventory
<1>8. CASE ApplyAddresses(r)
  <2>1. PICK file, devs :
          /\ req' = [req EXCEPT ![r].at = "import addresses", ![r].file = file, ![r].devs = devs]
          /\ UNCHANGED <<address, device, unlinked, crossed, overlooked>>
    BY <1>8 DEF ApplyAddresses, inventory, history
  <2> DEFINE h == [req[r] EXCEPT !.at = "import addresses", !.file = file, !.devs = devs]
  <2>2. h.at = "import addresses" /\ req' = [req EXCEPT ![r] = h]
    BY <1>0, <2>1 DEF Handler
  <2> HIDE DEF h
  <2>3. h.at \notin RemovalPoints
    BY <2>2 DEF RemovalPoints
  <2> QED BY <1>1, <2>1, <2>2, <2>3
<1>9. CASE DeleteSubnets(r)
  <2>1. PICK S : /\ address' = [a \in AddressIds |-> IF address[a].subnet \in S THEN [address[a] EXCEPT !.subnet = None]
                                                    ELSE address[a]]
                 /\ UNCHANGED <<device, req, unlinked, crossed, overlooked>>
    BY <1>9 DEF DeleteSubnets
  <2>2. ASSUME NEW a \in AddressIds PROVE address'[a].device = address[a].device
    <3>1. address[a] \in AddressRow \cup {NoRow}
      BY DEF RowsTyped
    <3> QED BY <2>1, <3>1 DEF AddressRow, NoRow
  <2> QED BY <2>1, <2>2, QuietRemovals
<1>10. CASE ImportAddresses(r)
  <2> DEFINE h == [req[r] EXCEPT !.at = "commit import"]
  <2>1. h.at = "commit import" /\ req' = [req EXCEPT ![r] = h]
    BY <1>0, <1>10 DEF ImportAddresses, Handler
  <2>2. UNCHANGED <<address, device, unlinked, crossed, overlooked>>
    BY <1>10 DEF ImportAddresses, inventory, history
  <2> HIDE DEF h
  <2>3. h.at \notin RemovalPoints
    BY <2>1 DEF RemovalPoints
  <2> QED BY <1>1, <2>1, <2>2, <2>3
<1> QED BY <1>3, <1>4, <1>5, <1>6, <1>7, <1>8, <1>9, <1>10 DEF SubnetRefused, AddressRefused, ImportRefused

LEMMA NextRemovals == FiledInv /\ FiledInv' /\ LocksInv /\ OrphansInv /\ [Next]_vars => LocksInv' /\ OrphansInv'
<1> SUFFICES ASSUME FiledInv, FiledInv', LocksInv, OrphansInv, [Next]_vars PROVE LocksInv' /\ OrphansInv'
  OBVIOUS
<1>0. RowsTyped /\ RowsTyped'
  BY DEF FiledInv
<1>1. CASE UNCHANGED vars
  BY <1>1 DEF vars, inventory, history, LocksInv, OrphansInv, OrphansRemoved, RowsOwned, DevicesFree, DevicesLeft,
              Crossings, Linked, Records
<1> QED BY <1>0, <1>1, EditRemovals, BeginRemovals, OrphanRemovals, LockRemovals, DeviceRowRemovals, CommitRemovals, DeviceRemovals,
           OtherRemovals DEF Next

LEMMA RemovalsInvariant == Spec => [](LocksInv /\ OrphansInv)
<1>1. Init => LocksInv /\ OrphansInv
  <2> SUFFICES ASSUME Init PROVE LocksInv /\ OrphansInv
    OBVIOUS
  <2>1. \A r \in Requests : req[r].at = "idle"
    BY IdleHandler DEF Init
  <2>2. OrphansRemoved
    BY DEF Init, OrphansRemoved
  <2> QED BY <2>1, <2>2 DEF LocksInv, OrphansInv, RowsOwned, DevicesFree, DevicesLeft, Crossings, Looked
<1> QED BY <1>1, FiledInvariant, NextRemovals, PTL DEF Spec

(***************************************************************************)
(* A device whose last address is removed is removed with it               *)
(* (DeleteOrphanDevices), unless it was left without address by hand or    *)
(* two removals, neither committed, each still saw the other's address.    *)
(***************************************************************************)
THEOREM OrphansStayRemoved == Spec => []OrphansRemoved
BY RemovalsInvariant, PTL DEF OrphansInv

\* A step changes the handler of its own request only, and a request that is about
\* to commit a removal of addresses does nothing else.
LEMMA OneRequest ==
  ASSUME RowsTyped, NEW r \in Requests, NEW q \in Requests,
         \/ subnetCreate(q) \/ CreateSubnet(q) \/ subnetUpdate(q) \/ UpdateSubnet(q)
         \/ SubnetRefused(q) \/ DeleteSubnets(q)
         \/ loadSubnetPage(q) \/ CreateAddress(q) \/ loadAddressPage(q) \/ UpdateAddress(q)
         \/ AddressRefused(q) \/ BulkClearAddressDevice(q)
         \/ DeleteAddresses(q) \/ DeleteOrphanDevices(q) \/ LockOrphanDevices(q)
         \/ DeleteDevices(q) \/ DeleteDeviceRows(q) \/ CommitDevices(q) \/ CreateDevice(q)
         \/ ApplySubnets(q) \/ ImportSubnets(q) \/ buildImportContext(q) \/ ApplyAddresses(q)
         \/ ImportAddresses(q) \/ CommitImport(q) \/ ImportRefused(q) \/ ImportDevices(q)
         \/ (CommitAddresses(q) /\ q # r),
         req[r].at = "commit addresses"
  PROVE  req'[r] = req[r]
<1>0. req \in [Requests -> Handler] /\ Idle.at = "idle"
  BY IdleHandler DEF RowsTyped
<1>1. ASSUME NEW h, req' = [req EXCEPT ![q] = h], q # r PROVE req'[r] = req[r]
  BY <1>0, <1>1
<1>2. ASSUME NEW h, Begin(q, h) PROVE req'[r] = req[r]
  BY <1>0, <1>1, <1>2 DEF Begin
<1>3. CASE subnetCreate(q) \/ subnetUpdate(q) \/ loadSubnetPage(q) \/ loadAddressPage(q)
  BY <1>2, <1>3 DEF subnetCreate, subnetUpdate, loadSubnetPage, loadAddressPage
<1>4. CASE DeleteAddresses(q) \/ DeleteDevices(q) \/ ApplySubnets(q) \/ buildImportContext(q)
  BY <1>2, <1>4 DEF DeleteAddresses, DeleteDevices, ApplySubnets, buildImportContext
<1>5. CASE CreateSubnet(q) \/ UpdateSubnet(q) \/ CreateAddress(q) \/ UpdateAddress(q)
  <2>1. Done(q) /\ req[q].at \in {"insert subnet", "update subnet", "insert address", "update address"}
    BY <1>5 DEF CreateSubnet, UpdateSubnet, CreateAddress, UpdateAddress
  <2> QED BY <1>1, <2>1 DEF Done
<1>6. CASE ImportSubnets(q) \/ ImportAddresses(q) \/ CommitImport(q)
  BY <1>1, <1>6 DEF ImportSubnets, ImportAddresses, CommitImport, Done
<1>7. CASE SubnetRefused(q) \/ AddressRefused(q) \/ ImportRefused(q)
  BY <1>1, <1>7 DEF SubnetRefused, AddressRefused, ImportRefused, Refused, Done
<1>8. CASE DeleteSubnets(q) \/ BulkClearAddressDevice(q) \/ CreateDevice(q) \/ ImportDevices(q)
  BY <1>8 DEF DeleteSubnets, BulkClearAddressDevice, CreateDevice, ImportDevices
<1>9. CASE DeleteOrphanDevices(q) \/ LockOrphanDevices(q)
  BY <1>1, <1>9 DEF DeleteOrphanDevices, LockOrphanDevices
<1>10. CASE DeleteDeviceRows(q)
  BY <1>1, <1>10 DEF DeleteDeviceRows
<1>11. CASE ApplyAddresses(q)
  BY <1>1, <1>11 DEF ApplyAddresses
<1>12. CASE CommitDevices(q) \/ (CommitAddresses(q) /\ q # r)
  BY <1>1, <1>12 DEF CommitDevices, CommitAddresses, Committed, Done
<1> QED BY <1>3, <1>4, <1>5, <1>6, <1>7, <1>8, <1>9, <1>10, <1>11, <1>12

(***************************************************************************)
(* Removing addresses changes no other address than those linked to its    *)
(* devices between the statement that found them orphaned and the lock on  *)
(* their rows: from the lock on, the foreign key makes a link wait for the *)
(* delete of the device it would name.                                     *)
(***************************************************************************)
THEOREM OthersStayUntouched == Spec => OthersUntouched
<1> DEFINE Untouched == \A r \in Requests : req[r].at = "commit addresses" /\ req'[r] = Idle =>
                          \A a \in AddressIds \ (req[r].rows \cup overlooked) : address'[a] = address[a]
<1>1. ASSUME FiledInv, LocksInv, [Next]_vars PROVE [Untouched]_vars
  <2> SUFFICES ASSUME Next PROVE Untouched
    BY <1>1
  <2> SUFFICES ASSUME NEW r \in Requests, req[r].at = "commit addresses", req'[r] = Idle,
                      NEW a \in AddressIds \ (req[r].rows \cup overlooked)
               PROVE  address'[a] = address[a]
    OBVIOUS
  <2>0. RowsTyped /\ req \in [Requests -> Handler] /\ req[r].devs \subseteq Devices /\ Idle.at = "idle"
    BY <1>1, HandlerFields, IdleHandler DEF FiledInv, RowsTyped
  <2>1. CASE CommitAddresses(r)
    <3>1. DevicesFree(req[r])
      BY <1>1 DEF LocksInv
    <3>2. address[a].device \notin req[r].devs
      BY <2>0, <3>1, LinkedRows DEF DevicesFree, Looked
    <3> QED BY <2>1, <3>2 DEF CommitAddresses, Committed
  <2>2. req'[r] # req[r]
    BY <2>0
  <2> QED BY <2>0, <2>1, <2>2, OneRequest DEF Next
<1> QED BY <1>1, FiledInvariant, RemovalsInvariant, PTL DEF Spec, OthersUntouched
=============================================================================
