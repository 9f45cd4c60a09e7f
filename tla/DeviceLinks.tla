---------------------------- MODULE DeviceLinks ----------------------------
(***************************************************************************)
(* Hardware groups of devices: operators link and unlink devices and       *)
(* dismiss suggestions, scans link by chassis serial, devices are deleted. *)
(*                                                                         *)
(* LinkDevices and UnlinkDevice are transactions of several statements at  *)
(* READ COMMITTED.  A statement finds its rows in the committed state at   *)
(* its start, then takes them one by one, waiting for the row lock of      *)
(* another transaction and judging the row again once it has the lock.     *)
(* What a transaction writes shows when it commits.  A group id is an      *)
(* opaque token; one that no row and no transaction holds is as good as a  *)
(* new one.                                                                *)
(***************************************************************************)
EXTENDS Naturals, FiniteSets

CONSTANTS
  Devices,     \* devices on record at the start
  Subnets,     \* subnets
  Serial,      \* Serial[d]: the SNMP chassis serial recorded on d, or None
  InitNets,    \* InitNets[d]: the subnets d has an address in at the start
  Groups,      \* group ids, ordered
  Txns,        \* requests and scans at work at the same time
  MaxEdits,    \* bound on deletions, dismissals and address edits
  None         \* SQL NULL

ASSUME LinksAssumption ==
  /\ Groups \subseteq Nat \ {0}
  /\ MaxEdits \in Nat
  /\ IsFiniteSet(Devices) /\ InitNets \in [Devices -> SUBSET Subnets]
  /\ None \notin Devices \cup Txns \cup Groups

VARIABLES
  live,   \* devices that exist
  group,  \* devices.hardware_group_id, committed
  nets,   \* nets[d]: subnets of the addresses of d
  reject, \* device_link_rejections, as unordered pairs
  lock,   \* lock[d]: the transaction holding the row lock of d
  tx,     \* tx[t]: transaction t
  edits   \* deletions, dismissals and address edits so far

tables == <<live, group, nets, reject>>
vars   == <<tables, lock, tx, edits>>

-----------------------------------------------------------------------------
\* todo: rows the current statement has yet to take.  rows: rows that get the
\* group id target at commit (None for an unlink).  ids and gs: $2 and $3 of the
\* UPDATE.  nets and gs also hold what an auto-link has read.
Txn == [pc : {"idle", "candidates", "lock", "count", "write"},
        ids : SUBSET Devices, gs : SUBSET Groups, target : Groups \cup {None},
        todo : SUBSET Devices, rows : SUBSET Devices, nets : SUBSET Subnets]
NoTxn == [pc |-> "idle", ids |-> {}, gs |-> {}, target |-> None, todo |-> {}, rows |-> {},
          nets |-> {}]

NewTxn(S) == [NoTxn EXCEPT !.pc = "lock", !.ids = S, !.todo = S]
Unlinking(t)    == Cardinality(tx[t].ids) = 1

Init ==
  /\ live = Devices
  /\ group = [d \in Devices |-> None]
  /\ nets = InitNets
  /\ reject = {}
  /\ lock = [d \in Devices |-> None]
  /\ tx = [t \in Txns |-> NoTxn]
  /\ edits = 0

\* Commit, or the deferred rollback: the row locks go.
End(t) ==
  /\ lock' = [d \in Devices |-> IF lock[d] = t THEN None ELSE lock[d]]
  /\ tx' = [tx EXCEPT ![t] = NoTxn]

-----------------------------------------------------------------------------
(* Requests and scans                                                      *)

DeviceLink(t, d, e) ==
  /\ tx[t].pc = "idle" /\ d # e /\ d \in live
  /\ tx' = [tx EXCEPT ![t] = NewTxn({d, e})]
  /\ UNCHANGED <<tables, lock, edits>>

DeviceUnlink(t, d) ==
  /\ tx[t].pc = "idle"
  /\ tx' = [tx EXCEPT ![t] = NewTxn({d})]
  /\ UNCHANGED <<tables, lock, edits>>

\* AutoLinkDeviceBySerial after an import or sync of d, with the setting on: first
\* the identity of d ...
AutoLink(t, d) ==
  /\ tx[t].pc = "idle"
  /\ d \in live /\ Serial[d] # None /\ nets[d] # {}
  /\ tx' = [tx EXCEPT ![t] = [NoTxn EXCEPT !.pc = "candidates", !.ids = {d},
                                !.nets = nets[d], !.gs = {group[d]} \ {None}]]
  /\ UNCHANGED <<tables, lock, edits>>

\* ... then the devices that match what was read.
DisjointSubnets(a, b) == a # {} /\ b # {} /\ a \cap b = {}
Matches(t, d) ==
  {e \in live \ {d} :
     /\ Serial[e] = Serial[d]
     /\ group[e] \notin tx[t].gs
     /\ {d, e} \notin reject
     /\ DisjointSubnets(tx[t].nets, nets[e])}
FindCandidates(t, d) ==
  /\ tx[t].pc = "candidates" /\ tx[t].ids = {d}
  /\ tx' = [tx EXCEPT ![t] = IF Matches(t, d) = {} THEN NoTxn
                             ELSE NewTxn({d} \cup Matches(t, d))]
  /\ UNCHANGED <<tables, lock, edits>>

-----------------------------------------------------------------------------
(* LinkDevices and UnlinkDevice                                            *)

\* Mutant: SELECT without FOR UPDATE.
LockRowNot(t, d) ==
  /\ tx[t].pc = "lock" /\ d \in tx[t].todo
  /\ d \in live
  /\ tx' = [tx EXCEPT ![t].todo = @ \ {d}]
  /\ UNCHANGED <<tables, lock, edits>>
\* SELECT ... FOR UPDATE, one row after the other.
LockRow(t, d) ==
  /\ tx[t].pc = "lock" /\ d \in tx[t].todo
  /\ lock[d] = None /\ d \in live
  /\ lock' = [lock EXCEPT ![d] = t]
  /\ tx' = [tx EXCEPT ![t].todo = @ \ {d}]
  /\ UNCHANGED <<tables, edits>>

\* A device that is gone: ErrNotFound.
NotFound(t) ==
  /\ tx[t].pc = "lock" /\ ~(tx[t].todo \subseteq live)
  /\ End(t)
  /\ UNCHANGED <<tables, edits>>

\* The group ids read under the locks, and the surviving one: the first of them,
\* or a fresh token.
GroupsOf(S) == {group[d] : d \in S} \ {None}
Fresh(g) ==
  /\ \A d \in Devices : group[d] # g
  /\ \A u \in Txns : g \notin tx[u].gs /\ g # tx[u].target
Target(gs, g) == IF gs = {} THEN Fresh(g) ELSE g \in gs /\ \A h \in gs : g <= h

\* The UPDATE finds its rows: the devices named and the members of their groups.
StartUpdate(t, g) ==
  LET gs == GroupsOf(tx[t].ids) IN
  /\ tx[t].pc = "lock" /\ tx[t].todo = {} /\ ~Unlinking(t)
  /\ Target(gs, g)
  /\ tx' = [tx EXCEPT ![t] = [@ EXCEPT !.pc = "write", !.gs = gs, !.target = g,
              !.todo = {d \in live : d \in tx[t].ids \/ group[d] \in gs}]]
  /\ UNCHANGED <<tables, lock, edits>>

\* UnlinkDevice clears the group of its device, or has nothing to do ...
ClearGroup(t) ==
  /\ tx[t].pc = "lock" /\ tx[t].todo = {} /\ Unlinking(t)
  /\ IF GroupsOf(tx[t].ids) = {}
     THEN End(t)
     ELSE /\ tx' = [tx EXCEPT ![t] = [@ EXCEPT !.pc = "count", !.gs = GroupsOf(tx[t].ids), !.rows = tx[t].ids]]
          /\ UNCHANGED lock
  /\ UNCHANGED <<tables, edits>>

\* ... and dissolves the group when it sees fewer than two members left.
CountMembers(t) ==
  LET members == {d \in live \ tx[t].ids : group[d] \in tx[t].gs} IN
  /\ tx[t].pc = "count"
  /\ tx' = [tx EXCEPT ![t] = [@ EXCEPT !.pc = "write",
              !.todo = IF Cardinality(members) < 2 THEN members ELSE {}]]
  /\ UNCHANGED <<tables, lock, edits>>

\* An UPDATE takes a row once no other transaction holds it, and judges it again.
WriteRow(t, d) ==
  /\ tx[t].pc = "write" /\ d \in tx[t].todo
  /\ lock[d] \in {None, t}
  /\ IF d \in live /\ (d \in tx[t].ids \/ group[d] \in tx[t].gs)
     THEN /\ lock' = [lock EXCEPT ![d] = t]
          /\ tx' = [tx EXCEPT ![t] = [@ EXCEPT !.todo = tx[t].todo \ {d}, !.rows = tx[t].rows \cup {d}]]
     ELSE /\ tx' = [tx EXCEPT ![t].todo = @ \ {d}]
          /\ UNCHANGED lock
  /\ UNCHANGED <<tables, edits>>

Commit(t) ==
  /\ tx[t].pc = "write" /\ tx[t].todo = {}
  /\ group' = [d \in Devices |-> IF d \in tx[t].rows THEN tx[t].target ELSE group[d]]
  /\ End(t)
  /\ UNCHANGED <<live, nets, reject, edits>>

\* A statement fails, the client has gone, or PostgreSQL ends one of the transactions
\* that wait for each other's rows.
Abort(t) ==
  /\ tx[t].pc # "idle"
  /\ End(t)
  /\ UNCHANGED <<tables, edits>>

-----------------------------------------------------------------------------
(* Meanwhile                                                               *)

Edited == edits < MaxEdits /\ edits' = edits + 1

\* DeleteDevice, BulkDeleteDevices, and DeleteAddress for the last address: the row
\* lock is waited for, the group of the device is not looked at.
DeleteDevices(D) ==
  /\ D # {} /\ \A d \in D : d \in live /\ lock[d] = None
  /\ live' = live \ D
  /\ group' = [d \in Devices |-> IF d \in D THEN None ELSE group[d]]
  /\ nets' = [d \in Devices |-> IF d \in D THEN {} ELSE nets[d]]
  /\ reject' = {pair \in reject : pair \cap D = {}}
  /\ Edited
  /\ UNCHANGED <<lock, tx>>

\* DismissDeviceLinkSuggestion; that the foreign keys may have to wait for a link in
\* progress only delays it.
DeviceLinkDismiss(d, e) ==
  /\ d # e /\ d \in live /\ e \in live
  /\ reject' = reject \cup {{d, e}}
  /\ Edited
  /\ UNCHANGED <<live, group, nets, lock, tx>>

\* Addresses are added to, moved from or taken off a device.
EditAddresses(d, N) ==
  /\ d \in live
  /\ nets' = [nets EXCEPT ![d] = N]
  /\ Edited
  /\ UNCHANGED <<live, group, reject, lock, tx>>

TxnStep(t) ==
  \/ \E d \in Devices : FindCandidates(t, d) \/ LockRow(t, d) \/ WriteRow(t, d)
  \/ \E g \in Groups : StartUpdate(t, g)
  \/ NotFound(t) \/ ClearGroup(t) \/ CountMembers(t) \/ Commit(t) \/ Abort(t)

Next ==
  \/ \E t \in Txns :
       \/ \E d, e \in Devices : DeviceLink(t, d, e)
       \/ \E d \in Devices : DeviceUnlink(t, d) \/ AutoLink(t, d)
       \/ TxnStep(t)
  \/ \E D \in SUBSET Devices : DeleteDevices(D)
  \/ \E d, e \in Devices : DeviceLinkDismiss(d, e)
  \/ \E d \in Devices, N \in SUBSET Subnets : EditAddresses(d, N)

Spec == Init /\ [][Next]_vars

-----------------------------------------------------------------------------
(* Properties                                                              *)

Unit(d) == IF d \in live THEN {e \in live : e = d \/ (group[e] = group[d] /\ group[d] # None)} ELSE {}

\* "A group is never split" (LinkDevices): whatever the interleaving, each commit is
\* one merge of the units of the devices it names, or one device leaving its unit.
Partition == INSTANCE HardwareGroups WITH unit <- [d \in Devices |-> Unit(d)]
LinksArePartition == Partition!Spec
=============================================================================
