-------------------------- MODULE DeviceLinksProofs --------------------------
(***************************************************************************)
(* DeviceLinks implements HardwareGroups, for any devices and any number   *)
(* of transactions.                                                        *)
(***************************************************************************)
EXTENDS DeviceLinks, FiniteSetTheorems, TLAPS

-----------------------------------------------------------------------------
(* The inductive invariant                                                 *)

LinksTyped ==
  /\ live \subseteq Devices
  /\ group \in [Devices -> Groups \cup {None}]
  /\ nets \in [Devices -> SUBSET Subnets]
  /\ lock \in [Devices -> Txns \cup {None}]
  /\ tx \in [Txns -> Txn]

\* Transactions past their SELECT ... FOR UPDATE.
Reading(t)  == tx[t].pc \in {"count", "write"}
Linking(t)  == tx[t].pc = "write" /\ tx[t].target # None
Clearing(t) == Reading(t) /\ tx[t].target = None

\* What the UPDATE of t is about, in the committed state.
Named(t)  == {d \in live : d \in tx[t].ids \/ group[d] \in tx[t].gs}
Others(t) == {d \in live \ tx[t].ids : group[d] \in tx[t].gs}

\* The locks a transaction holds: on the rows it has selected, and on those it has written.
Holds(t) ==
  /\ tx[t].pc # "write" => tx[t].target = None
  /\ ~ Reading(t) => tx[t].rows = {}
  /\ tx[t].pc = "lock" => \A d \in tx[t].ids : d \in tx[t].todo \/ lock[d] = t
  /\ tx[t].pc = "lock" => tx[t].gs = {}
  /\ Reading(t) => \A d \in tx[t].ids : lock[d] = t
  /\ \A d \in tx[t].rows : lock[d] = t /\ d \in Named(t)

\* What a transaction has read stays true while it holds its locks.
ReadStill(t) == Reading(t) => tx[t].gs = GroupsOf(tx[t].ids)

\* The UPDATE of a link has all its rows, those that join later would need a row it holds.
Covers(t) == Linking(t) => Named(t) \subseteq tx[t].todo \cup tx[t].rows

\* A new group id is nobody else's.
FreshStill(t) ==
  Linking(t) /\ tx[t].target \notin tx[t].gs =>
    /\ \A d \in Devices : group[d] # tx[t].target
    /\ \A u \in Txns \ {t} : tx[t].target \notin tx[u].gs /\ tx[t].target # tx[u].target

\* An unlink takes its device alone, or with it the last one left.
ClearsOne(t) ==
  Clearing(t) =>
    /\ \E d \in Devices : tx[t].ids = {d}
    /\ tx[t].ids \subseteq tx[t].rows
    /\ tx[t].pc = "count" => tx[t].rows = tx[t].ids
    /\ tx[t].pc = "write" =>
         \/ tx[t].rows = tx[t].ids /\ tx[t].todo = {}
         \/ \E e \in Devices : Others(t) \subseteq {e} /\ Others(t) \subseteq tx[t].todo \cup tx[t].rows

LinksInv ==
  /\ LinksTyped
  /\ \A d \in Devices : lock[d] # None => d \in live
  /\ \A t \in Txns : Holds(t) /\ ReadStill(t) /\ Covers(t) /\ FreshStill(t) /\ ClearsOne(t)


-----------------------------------------------------------------------------
(* Transactions that a step is not of                                      *)

\* A transaction keeps what it has as long as nobody touches the rows it holds and no row
\* enters the groups it has read.
LEMMA Undisturbed ==
  ASSUME LinksInv, NEW u \in Txns, tx'[u] = tx[u],
         \A d \in Devices : lock[d] = u => lock'[d] = u /\ group'[d] = group[d] /\ d \in live',
         live' \subseteq live,
         Reading(u) => \A d \in live' : group'[d] \in tx[u].gs => group[d] \in tx[u].gs
  PROVE  Holds(u)' /\ ReadStill(u)' /\ Covers(u)' /\ ClearsOne(u)'
<1>0. Holds(u) /\ ReadStill(u) /\ Covers(u) /\ ClearsOne(u) /\ tx[u] \in Txn /\ live \subseteq Devices
  BY DEF LinksInv, LinksTyped
<1>t. tx[u].ids \subseteq Devices /\ tx[u].rows \subseteq Devices
  BY <1>0 DEF Txn
<1>1. Reading(u)' = Reading(u) /\ Linking(u)' = Linking(u) /\ Clearing(u)' = Clearing(u)
  BY DEF Reading, Linking, Clearing
<1>2. Reading(u) => Named(u)' \subseteq Named(u) /\ Others(u)' \subseteq Others(u)
  BY DEF Named, Others
<1>3. Holds(u)'
  <2>1. ASSUME NEW d \in tx[u].rows PROVE lock'[d] = u /\ d \in Named(u)'
    <3>1. lock[d] = u /\ d \in Named(u) /\ d \in Devices
      BY <1>0, <1>t DEF Holds
    <3> QED BY <3>1 DEF Named
  <2>2. ASSUME Reading(u), NEW d \in tx[u].ids PROVE lock'[d] = u
    BY <1>0, <1>t, <2>2 DEF Holds
  <2>3. ASSUME tx[u].pc = "lock", NEW d \in tx[u].ids PROVE d \in tx[u].todo \/ lock'[d] = u
    BY <1>0, <1>t, <2>3 DEF Holds
  <2> QED BY <1>0, <1>1, <2>1, <2>2, <2>3 DEF Holds
<1>4. ReadStill(u)'
  <2> SUFFICES ASSUME Reading(u) PROVE tx[u].gs = GroupsOf(tx[u].ids)'
    BY <1>1 DEF ReadStill
  <2>1. \A d \in tx[u].ids : group'[d] = group[d]
    BY <1>0, <1>t DEF Holds
  <2>2. GroupsOf(tx[u].ids)' = GroupsOf(tx[u].ids)
    BY <2>1 DEF GroupsOf
  <2> QED BY <1>0, <2>2 DEF ReadStill
<1>5. Covers(u)'
  BY <1>0, <1>1, <1>2 DEF Covers, Linking, Reading
<1>6. ClearsOne(u)'
  <2> SUFFICES ASSUME Clearing(u) PROVE ClearsOne(u)'
    BY <1>1 DEF ClearsOne
  <2>1. Others(u)' \subseteq Others(u)
    BY <1>2 DEF Clearing
  <2>2. ASSUME tx[u].pc = "write",
               NEW e \in Devices, Others(u) \subseteq {e} /\ Others(u) \subseteq tx[u].todo \cup tx[u].rows
        PROVE  \E x \in Devices : Others(u)' \subseteq {x} /\ Others(u)' \subseteq tx[u].todo \cup tx[u].rows
    BY <2>1, <2>2
  <2> QED BY <1>0, <2>2 DEF ClearsOne
<1> QED BY <1>3, <1>4, <1>5, <1>6

\* A new group id stays nobody else's while others only take ids that are in use, or that
\* are new to them too.
LEMMA FreshUndisturbed ==
  ASSUME LinksInv, NEW u \in Txns, tx'[u] = tx[u],
         \A d \in Devices : group'[d] = group[d] \/ group'[d] = None
                            \/ \E v \in Txns \ {u} : group'[d] = tx[v].target,
         \A v \in Txns \ {u} : tx'[v].gs \subseteq tx[v].gs \cup {group[d] : d \in Devices},
         \A v \in Txns \ {u} :
           \/ tx'[v].target \in {tx[v].target, None} \cup {group[d] : d \in Devices}
           \/ Fresh(tx'[v].target)
  PROVE  FreshStill(u)'
<1> SUFFICES ASSUME Linking(u), tx[u].target \notin tx[u].gs
             PROVE  /\ \A d \in Devices : group'[d] # tx[u].target
                    /\ \A v \in Txns \ {u} : tx[u].target \notin tx'[v].gs /\ tx[u].target # tx'[v].target
  BY DEF FreshStill, Linking
<1>1. /\ \A d \in Devices : group[d] # tx[u].target
      /\ \A v \in Txns \ {u} : tx[u].target \notin tx[v].gs /\ tx[u].target # tx[v].target
      /\ tx[u].target # None
  BY DEF LinksInv, FreshStill, Linking
<1>2. \A g : Fresh(g) => g # tx[u].target
  BY DEF Fresh
<1> QED BY <1>1, <1>2

\* A step of t that leaves the committed groups alone.
LEMMA BesidesUndisturbed ==
  ASSUME LinksInv, NEW t \in Txns, UNCHANGED <<live, group>>,
         \A u \in Txns \ {t} : tx'[u] = tx[u] /\ \A d \in Devices : lock[d] = u => lock'[d] = u,
         tx'[t].gs \subseteq tx[t].gs \cup {group[d] : d \in Devices},
         \/ tx'[t].target \in {tx[t].target, None} \cup {group[d] : d \in Devices}
         \/ Fresh(tx'[t].target)
  PROVE  \A u \in Txns \ {t} :
           Holds(u)' /\ ReadStill(u)' /\ Covers(u)' /\ FreshStill(u)' /\ ClearsOne(u)'
<1> TAKE u \in Txns \ {t}
<1>1. \A d \in Devices : lock[d] = u => lock'[d] = u /\ group'[d] = group[d] /\ d \in live'
  BY LinksAssumption DEF LinksInv, LinksTyped
<1>2. Holds(u)' /\ ReadStill(u)' /\ Covers(u)' /\ ClearsOne(u)'
  BY <1>1, Undisturbed
<1>3. FreshStill(u)'
  BY FreshUndisturbed
<1> QED BY <1>2, <1>3


-----------------------------------------------------------------------------
(* One step per operation                                                  *)

\* A transaction that has not read anything yet.
LEMMA NotReading ==
  ASSUME LinksInv, NEW t \in Txns, NEW r \in Txn,
         r.pc \in {"idle", "candidates", "lock"}, r.target = None, r.rows = {},
         r.pc = "lock" => r.gs = {} /\ \A d \in r.ids : d \in r.todo \/ lock'[d] = t,
         r.gs \subseteq tx[t].gs \cup {group[d] : d \in Devices},
         tx' = [tx EXCEPT ![t] = r], UNCHANGED <<live, group>>,
         nets' \in [Devices -> SUBSET Subnets], lock' \in [Devices -> Txns \cup {None}],
         \A d \in Devices : lock'[d] \in {lock[d], None} \/ d \in live,
         \A u \in Txns \ {t}, d \in Devices : lock[d] = u => lock'[d] = u
  PROVE  LinksInv'
<1>0. tx \in [Txns -> Txn]
  BY DEF LinksInv, LinksTyped
<1>1. tx'[t] = r /\ \A u \in Txns \ {t} : tx'[u] = tx[u]
  BY <1>0
<1>2. tx' \in [Txns -> Txn]
  BY <1>0
<1>3. \A u \in Txns \ {t} : Holds(u)' /\ ReadStill(u)' /\ Covers(u)' /\ FreshStill(u)' /\ ClearsOne(u)'
  BY <1>1, BesidesUndisturbed
<1>4. Holds(t)' /\ ReadStill(t)' /\ Covers(t)' /\ FreshStill(t)' /\ ClearsOne(t)'
  BY <1>1 DEF Holds, ReadStill, Covers, FreshStill, ClearsOne, Reading, Linking, Clearing
<1>5. \A d \in Devices : lock'[d] # None => d \in live'
  BY DEF LinksInv
<1>6. LinksTyped'
  BY <1>2 DEF LinksInv, LinksTyped
<1> QED BY <1>3, <1>4, <1>5, <1>6 DEF LinksInv

LEMMA NoTxnTyped == NoTxn \in Txn
BY DEF NoTxn, Txn

LEMMA NewTxnTyped ==
  ASSUME NEW S \in SUBSET Devices
  PROVE  /\ NewTxn(S) \in Txn
         /\ NewTxn(S).pc = "lock" /\ NewTxn(S).ids = S /\ NewTxn(S).todo = S /\ NewTxn(S).rows = {}
         /\ NewTxn(S).gs = {} /\ NewTxn(S).target = None
BY DEF NewTxn, NoTxn, Txn

\* Commit without rows, or rollback.
LEMMA EndKeeps ==
  ASSUME LinksInv, NEW t \in Txns, End(t), UNCHANGED tables
  PROVE  LinksInv'
<1>1. tx' = [tx EXCEPT ![t] = NoTxn] /\ UNCHANGED <<live, group, nets>>
  BY DEF End, tables
<1>2. lock' = [d \in Devices |-> IF lock[d] = t THEN None ELSE lock[d]]
  BY DEF End
<1>3. /\ lock' \in [Devices -> Txns \cup {None}] /\ \A d \in Devices : lock'[d] \in {lock[d], None}
      /\ \A u \in Txns \ {t}, d \in Devices : lock[d] = u => lock'[d] = u
  BY <1>2 DEF LinksInv, LinksTyped
<1>4. nets' \in [Devices -> SUBSET Subnets]
  BY <1>1 DEF LinksInv, LinksTyped
<1>5. NoTxn.pc = "idle" /\ NoTxn.target = None /\ NoTxn.rows = {} /\ NoTxn.gs = {}
  BY DEF NoTxn
<1> QED BY <1>1, <1>3, <1>4, <1>5, NoTxnTyped, NotReading

\* A request comes in.
LEMMA NewKeeps ==
  ASSUME LinksInv, NEW t \in Txns, NEW S \in SUBSET Devices,
         tx' = [tx EXCEPT ![t] = NewTxn(S)], UNCHANGED <<tables, lock>>
  PROVE  LinksInv'
<1>1. UNCHANGED <<live, group, nets, lock>>
  BY DEF tables
<1>2. lock' \in [Devices -> Txns \cup {None}] /\ nets' \in [Devices -> SUBSET Subnets]
  BY <1>1 DEF LinksInv, LinksTyped
<1> QED BY <1>1, <1>2, NewTxnTyped, NotReading

LEMMA AutoLinkKeeps ==
  ASSUME LinksInv, NEW t \in Txns, NEW d \in Devices, AutoLink(t, d)
  PROVE  LinksInv'
<1> DEFINE r == [NoTxn EXCEPT !.pc = "candidates", !.ids = {d}, !.nets = nets[d], !.gs = {group[d]} \ {None}]
<1>1. tx' = [tx EXCEPT ![t] = r] /\ UNCHANGED <<live, group, nets, lock>>
  BY DEF AutoLink, tables
<1>2. /\ lock' \in [Devices -> Txns \cup {None}] /\ nets' \in [Devices -> SUBSET Subnets]
      /\ group[d] \in Groups \cup {None} /\ nets[d] \in SUBSET Subnets
  BY <1>1 DEF LinksInv, LinksTyped
<1>3. r \in Txn /\ r.pc = "candidates" /\ r.target = None /\ r.rows = {} /\ r.gs \subseteq {group[x] : x \in Devices}
  BY <1>2 DEF NoTxn, Txn
<1> HIDE DEF r
<1> QED BY <1>1, <1>2, <1>3, NotReading

LEMMA FindCandidatesKeeps ==
  ASSUME LinksInv, NEW t \in Txns, NEW d \in Devices, FindCandidates(t, d)
  PROVE  LinksInv'
<1>1. UNCHANGED <<tables, lock>>
  BY DEF FindCandidates
<1>2. CASE Matches(t, d) = {}
  <2>1. tx' = [tx EXCEPT ![t] = NoTxn] /\ UNCHANGED <<live, group, nets, lock>>
    BY <1>2 DEF FindCandidates, tables
  <2>2. lock' \in [Devices -> Txns \cup {None}] /\ nets' \in [Devices -> SUBSET Subnets]
    BY <2>1 DEF LinksInv, LinksTyped
  <2>3. NoTxn.pc = "idle" /\ NoTxn.target = None /\ NoTxn.rows = {} /\ NoTxn.gs = {}
    BY DEF NoTxn
  <2> QED BY <2>1, <2>2, <2>3, NoTxnTyped, NotReading
<1>3. CASE Matches(t, d) # {}
  <2>1. tx' = [tx EXCEPT ![t] = NewTxn({d} \cup Matches(t, d))]
    BY <1>3 DEF FindCandidates
  <2>2. {d} \cup Matches(t, d) \in SUBSET Devices
    BY DEF Matches, LinksInv, LinksTyped
  <2> QED BY <1>1, <2>1, <2>2, NewKeeps
<1> QED BY <1>2, <1>3

LEMMA LockRowKeeps ==
  ASSUME LinksInv, NEW t \in Txns, NEW d \in Devices, LockRow(t, d)
  PROVE  LinksInv'
<1> DEFINE r == [tx[t] EXCEPT !.todo = tx[t].todo \ {d}]
<1>0. tx[t] \in Txn /\ tx \in [Txns -> Txn] /\ lock \in [Devices -> Txns \cup {None}] /\ Holds(t)
  BY DEF LinksInv, LinksTyped
<1>1. /\ tx[t].pc = "lock" /\ d \in live /\ lock[d] = None /\ lock' = [lock EXCEPT ![d] = t]
      /\ tx' = [tx EXCEPT ![t] = r] /\ UNCHANGED <<live, group, nets>>
  BY DEF LockRow, tables
<1>2. r \in Txn /\ r.pc = "lock" /\ r.target = tx[t].target /\ r.rows = tx[t].rows /\ r.gs = tx[t].gs
      /\ r.ids = tx[t].ids /\ r.todo = tx[t].todo \ {d}
  BY <1>0, <1>1 DEF Txn
<1>3. /\ lock' \in [Devices -> Txns \cup {None}] /\ lock'[d] = t /\ \A x \in Devices \ {d} : lock'[x] = lock[x]
  BY <1>0, <1>1
<1>4. r.target = None /\ r.rows = {} /\ r.gs = {} /\ \A x \in r.ids : x \in r.todo \/ lock'[x] = t
  <2>1. tx[t].ids \subseteq Devices
    BY <1>0 DEF Txn
  <2> QED BY <1>0, <1>1, <1>2, <1>3, <2>1 DEF Holds, Reading
<1>5. \A u \in Txns \ {t}, x \in Devices : lock[x] = u => lock'[x] = u
  BY <1>1, <1>3, LinksAssumption
<1>6. \A x \in Devices : lock'[x] \in {lock[x], None} \/ x \in live
  BY <1>1, <1>3
<1>7. nets' \in [Devices -> SUBSET Subnets]
  BY <1>1 DEF LinksInv, LinksTyped
<1> HIDE DEF r
<1> QED BY <1>1, <1>2, <1>3, <1>4, <1>5, <1>6, <1>7, NotReading


\* What is left to show of a step of t that leaves the committed state alone.
LEMMA StatementKeeps ==
  ASSUME LinksInv, NEW t \in Txns, NEW r \in Txn,
         tx' = [tx EXCEPT ![t] = r], UNCHANGED tables,
         r.gs \subseteq tx[t].gs \cup {group[d] : d \in Devices},
         \/ r.target \in {tx[t].target, None} \cup {group[d] : d \in Devices}
         \/ Fresh(r.target),
         lock' \in [Devices -> Txns \cup {None}],
         \A d \in Devices : lock'[d] = lock[d] \/ (lock[d] \in {None, t} /\ lock'[d] = t /\ d \in live),
         Holds(t)' /\ ReadStill(t)' /\ Covers(t)' /\ FreshStill(t)' /\ ClearsOne(t)'
  PROVE  LinksInv'
<1>0. tx \in [Txns -> Txn] /\ UNCHANGED <<live, group, nets>>
  BY DEF LinksInv, LinksTyped, tables
<1>1. tx'[t] = r /\ \A u \in Txns \ {t} : tx'[u] = tx[u]
  BY <1>0
<1>2. tx' \in [Txns -> Txn]
  BY <1>0
<1>3. \A u \in Txns \ {t}, d \in Devices : lock[d] = u => lock'[d] = u
  BY LinksAssumption
<1>4. \A u \in Txns \ {t} : Holds(u)' /\ ReadStill(u)' /\ Covers(u)' /\ FreshStill(u)' /\ ClearsOne(u)'
  BY <1>0, <1>1, <1>3, BesidesUndisturbed
<1>5. \A d \in Devices : lock'[d] # None => d \in live'
  BY <1>0 DEF LinksInv
<1>6. LinksTyped'
  BY <1>0, <1>2 DEF LinksInv, LinksTyped
<1> QED BY <1>4, <1>5, <1>6 DEF LinksInv

LEMMA StartUpdateKeeps ==
  ASSUME LinksInv, NEW t \in Txns, NEW g \in Groups, StartUpdate(t, g)
  PROVE  LinksInv'
<1> DEFINE gs == GroupsOf(tx[t].ids)
           r == [tx[t] EXCEPT !.pc = "write", !.gs = gs, !.target = g,
                              !.todo = {d \in live : d \in tx[t].ids \/ group[d] \in gs}]
<1>0. tx[t] \in Txn /\ tx \in [Txns -> Txn] /\ Holds(t) /\ live \subseteq Devices
      /\ lock \in [Devices -> Txns \cup {None}] /\ group \in [Devices -> Groups \cup {None}]
  BY DEF LinksInv, LinksTyped
<1>1. /\ tx[t].pc = "lock" /\ tx[t].todo = {} /\ Target(gs, g)
      /\ tx' = [tx EXCEPT ![t] = r] /\ UNCHANGED tables /\ UNCHANGED lock
  BY DEF StartUpdate
<1>2. UNCHANGED <<live, group>>
  BY <1>1 DEF tables
<1>3. tx[t].ids \subseteq Devices
  BY <1>0 DEF Txn
<1>4. gs \subseteq Groups /\ gs \subseteq {group[d] : d \in Devices}
  BY <1>0, <1>3 DEF GroupsOf
<1>5. /\ r \in Txn /\ r.pc = "write" /\ r.gs = gs /\ r.target = g /\ r.ids = tx[t].ids /\ r.rows = tx[t].rows
      /\ r.todo = {d \in live : d \in tx[t].ids \/ group[d] \in gs}
  BY <1>0, <1>4 DEF Txn
<1>6. tx'[t] = r /\ r.rows = {} /\ g # None /\ \A u \in Txns \ {t} : tx'[u] = tx[u]
  BY <1>0, <1>1, <1>5, LinksAssumption DEF Holds, Reading
<1>7. GroupsOf(tx[t].ids)' = gs
  BY <1>2, <1>6, <1>5 DEF GroupsOf
<1>8. g \in gs \/ Fresh(g)
  BY <1>1 DEF Target
<1> HIDE DEF r, gs
<1>9. Holds(t)'
  BY <1>0, <1>1, <1>5, <1>6 DEF Holds, Reading
<1>10. ReadStill(t)'
  BY <1>2, <1>5, <1>6, <1>7 DEF ReadStill, GroupsOf
<1>11. Covers(t)'
  BY <1>2, <1>5, <1>6 DEF Covers, Named
<1>12. FreshStill(t)'
  BY <1>2, <1>5, <1>6, <1>8 DEF FreshStill, Fresh
<1>13. ClearsOne(t)'
  BY <1>5, <1>6 DEF ClearsOne, Clearing
<1>14. lock' \in [Devices -> Txns \cup {None}]
  BY <1>0, <1>1
<1>15. r.target \in {group[d] : d \in Devices} \/ Fresh(r.target)
  BY <1>4, <1>5, <1>8
<1> QED BY <1>1, <1>4, <1>5, <1>9, <1>10, <1>11, <1>12, <1>13, <1>14, <1>15, StatementKeeps

LEMMA ClearGroupKeeps ==
  ASSUME LinksInv, NEW t \in Txns, ClearGroup(t)
  PROVE  LinksInv'
<1> DEFINE gs == GroupsOf(tx[t].ids)
           r == [tx[t] EXCEPT !.pc = "count", !.gs = gs, !.rows = tx[t].ids]
<1>0. tx[t] \in Txn /\ tx \in [Txns -> Txn] /\ Holds(t) /\ live \subseteq Devices
      /\ lock \in [Devices -> Txns \cup {None}] /\ group \in [Devices -> Groups \cup {None}]
  BY DEF LinksInv, LinksTyped
<1>1. tx[t].pc = "lock" /\ tx[t].todo = {} /\ Unlinking(t) /\ UNCHANGED tables
  BY DEF ClearGroup
<1>2. CASE End(t)
  BY <1>1, <1>2, EndKeeps
<1>3. CASE tx' = [tx EXCEPT ![t] = r] /\ UNCHANGED lock
  <2>2. UNCHANGED <<live, group>>
    BY <1>1 DEF tables
  <2>3. tx[t].ids \subseteq Devices
    BY <1>0 DEF Txn
  <2>4. gs \subseteq Groups /\ gs \subseteq {group[d] : d \in Devices}
    BY <1>0, <2>3 DEF GroupsOf
  <2>5. /\ r \in Txn /\ r.pc = "count" /\ r.gs = gs /\ r.target = tx[t].target /\ r.ids = tx[t].ids
        /\ r.rows = tx[t].ids
    BY <1>0, <2>4 DEF Txn
  <2>6. tx'[t] = r /\ r.target = None
    BY <1>0, <1>1, <1>3, <2>5 DEF Holds
  <2>7. GroupsOf(tx[t].ids)' = gs
    BY <2>2, <2>5, <2>6 DEF GroupsOf
  <2>8. \A d \in tx[t].ids : lock[d] = t /\ d \in live
    BY <1>0, <1>1, <2>3, LinksAssumption DEF Holds, LinksInv
  <2>9. \E d \in Devices : tx[t].ids = {d}
    <3>1. IsFiniteSet(tx[t].ids) /\ Cardinality(tx[t].ids) = 1
      BY <1>1, <2>3, LinksAssumption, FS_Subset DEF Unlinking
    <3>2. \E d : tx[t].ids = {d}
      BY <3>1, FS_Singleton
    <3> QED BY <2>3, <3>2
  <2> HIDE DEF r, gs
  <2>10. Holds(t)'
    BY <1>3, <2>2, <2>5, <2>6, <2>8 DEF Holds, Reading, Named
  <2>11. ReadStill(t)'
    BY <2>2, <2>5, <2>6, <2>7 DEF ReadStill, GroupsOf
  <2>12. Covers(t)' /\ FreshStill(t)'
    BY <2>5, <2>6 DEF Covers, FreshStill, Linking
  <2>13. ClearsOne(t)'
    BY <2>5, <2>6, <2>9 DEF ClearsOne
  <2>14. lock' \in [Devices -> Txns \cup {None}]
    BY <1>0, <1>3
  <2> QED BY <1>1, <1>3, <2>4, <2>5, <2>6, <2>10, <2>11, <2>12, <2>13, <2>14, StatementKeeps
<1> QED BY <1>2, <1>3 DEF ClearGroup

LEMMA CountMembersKeeps ==
  ASSUME LinksInv, NEW t \in Txns, CountMembers(t)
  PROVE  LinksInv'
<1> DEFINE members == {d \in live \ tx[t].ids : group[d] \in tx[t].gs}
           todo == IF Cardinality(members) < 2 THEN members ELSE {}
           r == [tx[t] EXCEPT !.pc = "write", !.todo = todo]
<1>0. tx[t] \in Txn /\ tx \in [Txns -> Txn] /\ Holds(t) /\ ReadStill(t) /\ ClearsOne(t) /\ live \subseteq Devices
      /\ lock \in [Devices -> Txns \cup {None}]
  BY DEF LinksInv, LinksTyped
<1>1. tx[t].pc = "count" /\ UNCHANGED tables /\ tx' = [tx EXCEPT ![t] = r] /\ UNCHANGED lock
  BY DEF CountMembers
<1>2. UNCHANGED <<live, group>>
  BY <1>1 DEF tables
<1>3. members \subseteq Devices /\ todo \subseteq Devices
  BY <1>0
<1>4. /\ r \in Txn /\ r.pc = "write" /\ r.gs = tx[t].gs /\ r.target = tx[t].target /\ r.ids = tx[t].ids
      /\ r.rows = tx[t].rows /\ r.todo = todo
  BY <1>0, <1>3 DEF Txn
<1>5. tx'[t] = r
  BY <1>0, <1>1
<1> HIDE DEF r
<1>6. tx[t].target = None /\ tx[t].rows = tx[t].ids /\ \E d \in Devices : tx[t].ids = {d}
  BY <1>0, <1>1 DEF Holds, ClearsOne, Clearing, Reading
<1>7. Others(t)' = members
  BY <1>2, <1>4, <1>5 DEF Others
<1>8. \/ todo = {}
      \/ \E e \in Devices : members \subseteq {e} /\ members \subseteq todo
  <2> SUFFICES ASSUME Cardinality(members) < 2 PROVE \E e \in Devices : members \subseteq {e}
    OBVIOUS
  <2>1. IsFiniteSet(members)
    BY <1>3, LinksAssumption, FS_Subset
  <2>2. CASE members = {}
    BY <1>6, <2>2
  <2>3. CASE members # {}
    <3>1. Cardinality(members) \in Nat /\ Cardinality(members) # 0
      BY <2>1, <2>3, FS_CardinalityType, FS_EmptySet
    <3>2. Cardinality(members) = 1
      BY <3>1
    <3>3. \E e : members = {e}
      BY <2>1, <3>2, FS_Singleton
    <3> QED BY <1>3, <3>3
  <2> QED BY <2>2, <2>3
<1> HIDE DEF members, todo
<1>9. Holds(t)'
  BY <1>0, <1>1, <1>2, <1>4, <1>5 DEF Holds, Reading, Named
<1>10. ReadStill(t)'
  BY <1>0, <1>1, <1>2, <1>4, <1>5 DEF ReadStill, Reading, GroupsOf
<1>11. Covers(t)' /\ FreshStill(t)'
  BY <1>4, <1>5, <1>6 DEF Covers, FreshStill, Linking
<1>12. ClearsOne(t)'
  BY <1>4, <1>5, <1>6, <1>7, <1>8 DEF ClearsOne
<1>13. lock' \in [Devices -> Txns \cup {None}]
  BY <1>0, <1>1
<1> QED BY <1>1, <1>4, <1>9, <1>10, <1>11, <1>12, <1>13, StatementKeeps


\* An UPDATE takes a row, or passes over one that no longer is among its rows.
LEMMA WriteRowKeeps ==
  ASSUME LinksInv, NEW t \in Txns, NEW d \in Devices, WriteRow(t, d)
  PROVE  LinksInv'
<1> DEFINE named == d \in live /\ (d \in tx[t].ids \/ group[d] \in tx[t].gs)
           rows == IF named THEN tx[t].rows \cup {d} ELSE tx[t].rows
           r == [tx[t] EXCEPT !.todo = tx[t].todo \ {d}, !.rows = rows]
<1>0. /\ tx[t] \in Txn /\ tx \in [Txns -> Txn] /\ Holds(t) /\ ReadStill(t) /\ Covers(t) /\ FreshStill(t)
      /\ ClearsOne(t) /\ live \subseteq Devices /\ lock \in [Devices -> Txns \cup {None}]
  BY DEF LinksInv, LinksTyped
<1>1. tx[t].pc = "write" /\ d \in tx[t].todo /\ lock[d] \in {None, t} /\ UNCHANGED tables
  BY DEF WriteRow
<1>2. UNCHANGED <<live, group>>
  BY <1>1 DEF tables
<1>3. /\ r \in Txn /\ r.pc = "write" /\ r.gs = tx[t].gs /\ r.target = tx[t].target /\ r.ids = tx[t].ids
      /\ r.rows = rows /\ r.todo = tx[t].todo \ {d}
  BY <1>0, <1>1 DEF Txn
<1>4. /\ tx' = [tx EXCEPT ![t] = r]
      /\ named => lock' = [lock EXCEPT ![d] = t]
      /\ ~ named => UNCHANGED lock
  <2>1. CASE named
    <3>1. /\ tx' = [tx EXCEPT ![t] = [tx[t] EXCEPT !.todo = tx[t].todo \ {d}, !.rows = tx[t].rows \cup {d}]]
          /\ lock' = [lock EXCEPT ![d] = t]
      BY <2>1 DEF WriteRow
    <3> QED BY <2>1, <3>1
  <2>2. CASE ~ named
    <3>1. tx' = [tx EXCEPT ![t] = [tx[t] EXCEPT !.todo = tx[t].todo \ {d}]] /\ UNCHANGED lock
      BY <2>2 DEF WriteRow
    <3>2. r = [tx[t] EXCEPT !.todo = tx[t].todo \ {d}]
      BY <1>0, <2>2 DEF Txn
    <3> QED BY <2>2, <3>1, <3>2
  <2> QED BY <2>1, <2>2
<1>5. tx'[t] = r
  BY <1>0, <1>4
<1>6. /\ lock' \in [Devices -> Txns \cup {None}] /\ (named => lock'[d] = t)
      /\ \A x \in Devices : lock'[x] = lock[x] \/ (x = d /\ named /\ lock'[x] = t)
  BY <1>0, <1>4
<1>7. \A x \in Devices : lock[x] = t => lock'[x] = t
  BY <1>6
<1>8. tx[t].ids \subseteq Devices /\ tx[t].rows \subseteq Devices
  BY <1>0 DEF Txn
<1>n. Named(t)' = Named(t) /\ Others(t)' = Others(t) /\ (named => d \in Named(t))
  BY <1>2, <1>3, <1>5 DEF Named, Others
<1>o. d \in Others(t) => named
  BY DEF Others
<1>m. ~ named => d \notin Named(t)
  BY DEF Named
<1> HIDE DEF r, named
<1>r. tx[t].rows \subseteq rows /\ rows \subseteq tx[t].rows \cup {d} /\ (named => d \in rows)
  OBVIOUS
<1>s. ~ named => rows = tx[t].rows
  OBVIOUS
<1> HIDE DEF rows
<1>9. Holds(t)'
  <2>1. \A x \in rows : lock'[x] = t /\ x \in Named(t)'
    BY <1>0, <1>6, <1>7, <1>8, <1>n, <1>r, <1>s DEF Holds
  <2>2. \A x \in tx[t].ids : lock'[x] = t
    BY <1>0, <1>1, <1>7, <1>8 DEF Holds, Reading
  <2> QED BY <1>3, <1>5, <2>1, <2>2 DEF Holds, Reading
<1>10. ReadStill(t)'
  BY <1>0, <1>1, <1>2, <1>3, <1>5 DEF ReadStill, Reading, GroupsOf
<1>11. Covers(t)'
  BY <1>0, <1>1, <1>3, <1>5, <1>n, <1>m, <1>r DEF Covers, Linking
<1>12. FreshStill(t)'
  <2>1. \A u \in Txns \ {t} : tx'[u] = tx[u]
    BY <1>0, <1>4
  <2> QED BY <1>0, <1>1, <1>2, <1>3, <1>5, <2>1 DEF FreshStill, Linking
<1>13. ClearsOne(t)'
  <2> SUFFICES ASSUME tx[t].target = None PROVE ClearsOne(t)'
    BY <1>3, <1>5 DEF ClearsOne, Clearing
  <2>1. Clearing(t)
    BY <1>1 DEF Clearing, Reading
  <2>2. PICK e \in Devices : Others(t) \subseteq {e} /\ Others(t) \subseteq tx[t].todo \cup tx[t].rows
    BY <1>0, <1>1, <2>1 DEF ClearsOne
  <2>3. Others(t)' \subseteq {e} /\ Others(t)' \subseteq (tx[t].todo \ {d}) \cup rows
    BY <1>n, <1>o, <1>r, <2>2
  <2> QED BY <1>0, <1>3, <1>5, <1>r, <2>1, <2>3 DEF ClearsOne
<1>14. \A x \in Devices : lock'[x] = lock[x] \/ (lock[x] \in {None, t} /\ lock'[x] = t /\ x \in live)
  BY <1>1, <1>6 DEF named
<1> QED BY <1>1, <1>3, <1>4, <1>6, <1>9, <1>10, <1>11, <1>12, <1>13, <1>14, StatementKeeps

\* A link that commits holds every row of the groups it has read, so no other transaction
\* has read one of these groups.
LEMMA CommitsApart ==
  ASSUME LinksInv, NEW t \in Txns, NEW u \in Txns \ {t},
         Linking(t), tx[t].todo = {}, Reading(u)
  PROVE  tx[t].gs \cap tx[u].gs = {} /\ tx[t].target \notin tx[u].gs
<1>0. Holds(t) /\ Covers(t) /\ FreshStill(t) /\ Holds(u) /\ ReadStill(u) /\ tx[u] \in Txn
  BY DEF LinksInv, LinksTyped
<1>1. ASSUME NEW g \in tx[t].gs, g \in tx[u].gs PROVE FALSE
  <2>1. PICK d \in tx[u].ids : group[d] = g
    BY <1>0, <1>1 DEF ReadStill, GroupsOf
  <2>2. d \in Devices /\ lock[d] = u
    BY <1>0 DEF Holds, Txn
  <2>3. d \in live
    BY <2>2, LinksAssumption DEF LinksInv
  <2>4. d \in tx[t].rows
    BY <1>0, <1>1, <2>1, <2>3 DEF Covers, Named
  <2> QED BY <1>0, <2>2, <2>4 DEF Holds
<1>2. tx[t].target \notin tx[u].gs
  BY <1>0, <1>1 DEF FreshStill
<1> QED BY <1>1, <1>2

LEMMA CommitKeeps ==
  ASSUME LinksInv, NEW t \in Txns, Commit(t)
  PROVE  LinksInv'
<1>0. /\ tx[t] \in Txn /\ tx \in [Txns -> Txn] /\ Holds(t) /\ live \subseteq Devices
      /\ lock \in [Devices -> Txns \cup {None}] /\ group \in [Devices -> Groups \cup {None}]
      /\ nets \in [Devices -> SUBSET Subnets]
  BY DEF LinksInv, LinksTyped
<1>1. /\ tx[t].pc = "write" /\ tx[t].todo = {}
      /\ group' = [d \in Devices |-> IF d \in tx[t].rows THEN tx[t].target ELSE group[d]]
      /\ lock' = [d \in Devices |-> IF lock[d] = t THEN None ELSE lock[d]]
      /\ tx' = [tx EXCEPT ![t] = NoTxn] /\ UNCHANGED <<live, nets>>
  BY DEF Commit, End
<1>2. tx[t].target \in Groups \cup {None}
  BY <1>0 DEF Txn
<1>3. LinksTyped'
  <2>1. group' \in [Devices -> Groups \cup {None}]
    BY <1>0, <1>1, <1>2
  <2>2. lock' \in [Devices -> Txns \cup {None}]
    BY <1>0, <1>1
  <2>3. tx' \in [Txns -> Txn]
    BY <1>0, <1>1, NoTxnTyped
  <2> QED BY <1>0, <1>1, <2>1, <2>2, <2>3 DEF LinksTyped
<1>4. \A d \in Devices : lock'[d] # None => d \in live'
  BY <1>1 DEF LinksInv
<1>5. tx'[t] = NoTxn /\ \A u \in Txns \ {t} : tx'[u] = tx[u]
  BY <1>0, <1>1
<1>6. Holds(t)' /\ ReadStill(t)' /\ Covers(t)' /\ FreshStill(t)' /\ ClearsOne(t)'
  BY <1>5 DEF NoTxn, Holds, ReadStill, Covers, FreshStill, ClearsOne, Reading, Linking, Clearing
<1>7. ASSUME NEW u \in Txns \ {t}
      PROVE  Holds(u)' /\ ReadStill(u)' /\ Covers(u)' /\ FreshStill(u)' /\ ClearsOne(u)'
  <2>1. ASSUME NEW d \in Devices, lock[d] = u
        PROVE  lock'[d] = u /\ group'[d] = group[d] /\ d \in live'
    <3>1. d \notin tx[t].rows
      BY <1>0, <2>1 DEF Holds
    <3>2. d \in live
      BY <2>1, LinksAssumption DEF LinksInv
    <3> QED BY <1>1, <2>1, <3>1, <3>2
  <2>2. ASSUME Reading(u), NEW d \in live', group'[d] \in tx[u].gs PROVE group[d] \in tx[u].gs
    <3>1. tx[u].gs \subseteq Groups
      BY DEF LinksInv, LinksTyped, Txn
    <3>2. CASE d \in tx[t].rows
      <4>1. d \in Devices /\ group'[d] = tx[t].target
        BY <1>0, <1>1, <3>2
      <4>2. Linking(t)
        BY <1>1, <2>2, <3>1, <4>1, LinksAssumption DEF Linking
      <4> QED BY <1>1, <2>2, <4>1, <4>2, CommitsApart
    <3>3. CASE d \notin tx[t].rows
      BY <1>0, <1>1, <2>2, <3>3
    <3> QED BY <3>2, <3>3
  <2>3. Holds(u)' /\ ReadStill(u)' /\ Covers(u)' /\ ClearsOne(u)'
    BY <1>1, <1>5, <2>1, <2>2, Undisturbed
  <2>4. FreshStill(u)'
    <3>1. \A d \in Devices : group'[d] = group[d] \/ group'[d] = None
                             \/ \E v \in Txns \ {u} : group'[d] = tx[v].target
      BY <1>1
    <3>2. \A v \in Txns \ {u} : tx'[v].gs \subseteq tx[v].gs /\ tx'[v].target \in {tx[v].target, None}
      BY <1>5 DEF NoTxn
    <3> QED BY <1>5, <3>1, <3>2, FreshUndisturbed
  <2> QED BY <2>3, <2>4
<1> QED BY <1>3, <1>4, <1>6, <1>7 DEF LinksInv

LEMMA DeleteKeeps ==
  ASSUME LinksInv, NEW D \in SUBSET Devices, DeleteDevices(D)
  PROVE  LinksInv'
<1>0. /\ live \subseteq Devices /\ lock \in [Devices -> Txns \cup {None}] /\ group \in [Devices -> Groups \cup {None}]
      /\ nets \in [Devices -> SUBSET Subnets] /\ tx \in [Txns -> Txn]
  BY DEF LinksInv, LinksTyped
<1>1. /\ \A d \in D : d \in live /\ lock[d] = None
      /\ live' = live \ D /\ UNCHANGED lock /\ UNCHANGED tx
      /\ group' = [d \in Devices |-> IF d \in D THEN None ELSE group[d]]
      /\ nets' = [d \in Devices |-> IF d \in D THEN {} ELSE nets[d]]
  BY DEF DeleteDevices
<1>2. LinksTyped'
  <2>1. group' \in [Devices -> Groups \cup {None}]
    BY <1>0, <1>1
  <2>2. nets' \in [Devices -> SUBSET Subnets]
    BY <1>0, <1>1
  <2> QED BY <1>0, <1>1, <2>1, <2>2 DEF LinksTyped
<1>3. \A d \in Devices : lock'[d] # None => d \in live'
  BY <1>1 DEF LinksInv
<1>4. ASSUME NEW u \in Txns
      PROVE  Holds(u)' /\ ReadStill(u)' /\ Covers(u)' /\ FreshStill(u)' /\ ClearsOne(u)'
  <2>1. \A d \in Devices : lock[d] = u => lock'[d] = u /\ group'[d] = group[d] /\ d \in live'
    BY <1>1, LinksAssumption DEF LinksInv
  <2>2. \A d \in live' : group'[d] = group[d]
    BY <1>0, <1>1
  <2>3. Holds(u)' /\ ReadStill(u)' /\ Covers(u)' /\ ClearsOne(u)'
    BY <1>1, <2>1, <2>2, Undisturbed
  <2>4. \A d \in Devices : group'[d] = group[d] \/ group'[d] = None
    BY <1>1
  <2>5. FreshStill(u)'
    BY <1>1, <2>4, FreshUndisturbed
  <2> QED BY <2>3, <2>5
<1> QED BY <1>2, <1>3, <1>4 DEF LinksInv


\* What does not touch the groups.
LEMMA EditKeeps ==
  ASSUME LinksInv, UNCHANGED <<live, group, lock, tx>>, nets' \in [Devices -> SUBSET Subnets]
  PROVE  LinksInv'
<1>1. LinksTyped'
  BY DEF LinksInv, LinksTyped
<1>2. ASSUME NEW u \in Txns
      PROVE  Holds(u)' /\ ReadStill(u)' /\ Covers(u)' /\ FreshStill(u)' /\ ClearsOne(u)'
  <2>1. \A d \in Devices : lock[d] = u => d \in live
    BY LinksAssumption DEF LinksInv
  <2>2. Holds(u)' /\ ReadStill(u)' /\ Covers(u)' /\ ClearsOne(u)'
    BY <2>1, Undisturbed
  <2>3. FreshStill(u)'
    BY FreshUndisturbed
  <2> QED BY <2>2, <2>3
<1> QED BY <1>1, <1>2 DEF LinksInv

LEMMA LinksInit == Init => LinksInv
<1> SUFFICES ASSUME Init PROVE LinksInv
  OBVIOUS
<1>1. LinksTyped
  BY NoTxnTyped, LinksAssumption DEF Init, LinksTyped
<1>2. \A t \in Txns : tx[t] = NoTxn
  BY DEF Init
<1>3. \A t \in Txns : Holds(t) /\ ReadStill(t) /\ Covers(t) /\ FreshStill(t) /\ ClearsOne(t)
  BY <1>2 DEF NoTxn, Holds, ReadStill, Covers, FreshStill, ClearsOne, Reading, Linking, Clearing
<1>4. \A d \in Devices : lock[d] = None
  BY DEF Init
<1> QED BY <1>1, <1>3, <1>4 DEF LinksInv

LEMMA LinksNext == LinksInv /\ [Next]_vars => LinksInv'
<1> SUFFICES ASSUME LinksInv, [Next]_vars PROVE LinksInv'
  OBVIOUS
<1>1. ASSUME NEW t \in Txns, NEW d \in Devices, NEW e \in Devices, DeviceLink(t, d, e) PROVE LinksInv'
  <2>1. tx' = [tx EXCEPT ![t] = NewTxn({d, e})] /\ UNCHANGED <<tables, lock>>
    BY <1>1 DEF DeviceLink
  <2>2. {d, e} \in SUBSET Devices
    OBVIOUS
  <2> QED BY <2>1, <2>2, NewKeeps
<1>2. ASSUME NEW t \in Txns, NEW d \in Devices, DeviceUnlink(t, d) PROVE LinksInv'
  <2>1. tx' = [tx EXCEPT ![t] = NewTxn({d})] /\ UNCHANGED <<tables, lock>>
    BY <1>2 DEF DeviceUnlink
  <2>2. {d} \in SUBSET Devices
    OBVIOUS
  <2> QED BY <2>1, <2>2, NewKeeps
<1>3. ASSUME NEW t \in Txns, NEW d \in Devices,
             AutoLink(t, d) \/ FindCandidates(t, d) \/ LockRow(t, d) \/ WriteRow(t, d)
      PROVE  LinksInv'
  BY <1>3, AutoLinkKeeps, FindCandidatesKeeps, LockRowKeeps, WriteRowKeeps
<1>4. ASSUME NEW t \in Txns, NEW g \in Groups, StartUpdate(t, g) PROVE LinksInv'
  BY <1>4, StartUpdateKeeps
<1>5. ASSUME NEW t \in Txns, NotFound(t) \/ Abort(t) PROVE LinksInv'
  BY <1>5, EndKeeps DEF NotFound, Abort
<1>6. ASSUME NEW t \in Txns, ClearGroup(t) \/ CountMembers(t) \/ Commit(t) PROVE LinksInv'
  BY <1>6, ClearGroupKeeps, CountMembersKeeps, CommitKeeps
<1>7. ASSUME NEW D \in SUBSET Devices, DeleteDevices(D) PROVE LinksInv'
  BY <1>7, DeleteKeeps
<1>8. ASSUME NEW d \in Devices, NEW e \in Devices, DeviceLinkDismiss(d, e) PROVE LinksInv'
  <2>1. UNCHANGED <<live, group, nets, lock, tx>>
    BY <1>8 DEF DeviceLinkDismiss
  <2> QED BY <2>1, EditKeeps DEF LinksInv, LinksTyped
<1>9. ASSUME NEW d \in Devices, NEW N \in SUBSET Subnets, EditAddresses(d, N) PROVE LinksInv'
  <2>1. UNCHANGED <<live, group, lock, tx>> /\ nets' = [nets EXCEPT ![d] = N]
    BY <1>9 DEF EditAddresses
  <2>2. nets' \in [Devices -> SUBSET Subnets]
    BY <2>1 DEF LinksInv, LinksTyped
  <2> QED BY <2>1, <2>2, EditKeeps
<1>10. CASE UNCHANGED vars
  <2>1. UNCHANGED <<live, group, nets, lock, tx>>
    BY <1>10 DEF vars, tables
  <2> QED BY <2>1, EditKeeps DEF LinksInv, LinksTyped
<1> QED BY <1>1, <1>2, <1>3, <1>4, <1>5, <1>6, <1>7, <1>8, <1>9, <1>10 DEF Next, TxnStep

-----------------------------------------------------------------------------
(* The refinement                                                          *)

LEMMA UnitsLive ==
  ASSUME LinksInv
  PROVE  Partition!Live = live
<1>1. \A d \in Devices : Unit(d) # {} <=> d \in live
  BY DEF Unit
<1> QED BY <1>1 DEF Partition!Live, LinksInv, LinksTyped

\* A link merges the units of the devices it names.
LEMMA CommitMerges ==
  ASSUME LinksInv, NEW t \in Txns, Commit(t), Linking(t)
  PROVE  Partition!Merge(tx[t].ids)
<1> DEFINE ids == tx[t].ids
           rows == tx[t].rows
           gs == tx[t].gs
           g == tx[t].target
<1>0. /\ tx[t] \in Txn /\ Holds(t) /\ ReadStill(t) /\ Covers(t) /\ FreshStill(t) /\ live \subseteq Devices
      /\ group \in [Devices -> Groups \cup {None}]
  BY DEF LinksInv, LinksTyped
<1>1. /\ tx[t].pc = "write" /\ tx[t].todo = {} /\ g # None
      /\ group' = [d \in Devices |-> IF d \in rows THEN g ELSE group[d]] /\ UNCHANGED live
  BY DEF Commit, Linking
<1>2. rows = Named(t)
  BY <1>0, <1>1 DEF Covers, Holds
<1>3. gs = GroupsOf(ids) /\ ids \subseteq Devices
  BY <1>0, <1>1 DEF ReadStill, Reading, Txn
<1>4. ids \subseteq live
  BY <1>0, <1>1, <1>3, LinksAssumption DEF Holds, Reading, LinksInv
<1>5. UNION {Unit(d) : d \in ids} = rows
  <2>1. \A d \in ids : Unit(d) \subseteq rows
    BY <1>2, <1>3, <1>4 DEF Unit, Named, GroupsOf
  <2>2. ASSUME NEW e \in rows PROVE \E d \in ids : e \in Unit(d)
    <3>1. e \in live /\ (e \in ids \/ group[e] \in gs)
      BY <1>2 DEF Named
    <3>2. CASE e \in ids
      BY <1>4, <3>2 DEF Unit
    <3>3. CASE group[e] \in gs
      <4>1. PICK d \in ids : group[d] = group[e] /\ group[d] # None
        BY <1>3, <3>3 DEF GroupsOf
      <4> QED BY <1>4, <3>1, <4>1 DEF Unit
    <3> QED BY <3>1, <3>2, <3>3
  <2> QED BY <2>1, <2>2
<1>6. \A e \in live : group[e] = g => e \in rows
  BY <1>0, <1>2 DEF FreshStill, Named
<1>7. ASSUME NEW d \in Devices, d \in rows PROVE Unit(d)' = rows
  <2>1. rows \subseteq live
    BY <1>2 DEF Named
  <2>2. \A e \in live : group'[e] = g <=> e \in rows
    BY <1>0, <1>1, <1>6
  <2>3. group'[d] = g
    BY <1>1, <1>7
  <2>4. Unit(d)' = {e \in live : e = d \/ group'[e] = g}
    BY <1>1, <1>7, <2>1, <2>3 DEF Unit
  <2> QED BY <1>7, <2>1, <2>2, <2>4
<1>8. ASSUME NEW d \in Devices, d \notin rows PROVE Unit(d)' = Unit(d)
  <2>1. group'[d] = group[d]
    BY <1>1, <1>8
  <2>2. ASSUME d \in live, NEW e \in live, group[d] # None PROVE group'[e] = group'[d] <=> group[e] = group[d]
    <3>1. CASE e \in rows
      <4>1. group[e] # group[d]
        <5>1. group[e] # None => group[e] \in gs
          <6>1. e \in ids \/ group[e] \in gs
            BY <1>2, <3>1 DEF Named
          <6> QED BY <1>3, <6>1 DEF GroupsOf
        <5> QED BY <1>2, <1>8, <2>2, <5>1 DEF Named
      <4>2. group'[e] = g /\ group[d] # g
        BY <1>0, <1>1, <1>6, <1>8, <2>2, <3>1
      <4> QED BY <2>1, <4>1, <4>2
    <3>2. CASE e \notin rows
      BY <1>0, <1>1, <2>1, <3>2
    <3> QED BY <3>1, <3>2
  <2> QED BY <1>1, <2>1, <2>2 DEF Unit
<1>9. [d \in Devices |-> Unit(d)]' = [d \in Devices |-> IF d \in rows THEN rows ELSE [e \in Devices |-> Unit(e)][d]]
  BY <1>7, <1>8
<1>10. UNION {[e \in Devices |-> Unit(e)][d] : d \in ids} = rows
  BY <1>3, <1>5
<1>11. ids \subseteq Partition!Live
  BY <1>4, UnitsLive
<1> HIDE DEF rows
<1> QED BY <1>9, <1>10, <1>11 DEF Partition!Merge


\* An unlink takes one device out of its unit.
LEMMA CommitLeaves ==
  ASSUME LinksInv, NEW t \in Txns, Commit(t), ~ Linking(t)
  PROVE  \E d \in Devices : Partition!Leave(d)
<1> DEFINE rows == tx[t].rows
           gs == tx[t].gs
<1>0. /\ tx[t] \in Txn /\ Holds(t) /\ ReadStill(t) /\ ClearsOne(t) /\ live \subseteq Devices
      /\ group \in [Devices -> Groups \cup {None}]
  BY DEF LinksInv, LinksTyped
<1>1. /\ tx[t].pc = "write" /\ tx[t].todo = {} /\ tx[t].target = None
      /\ group' = [d \in Devices |-> IF d \in rows THEN None ELSE group[d]] /\ UNCHANGED live
  BY DEF Commit, Linking
<1>2. Clearing(t)
  BY <1>1 DEF Clearing, Reading
<1>3. PICK d \in Devices : tx[t].ids = {d}
  BY <1>0, <1>2 DEF ClearsOne
<1>4. d \in rows /\ d \in live /\ rows \subseteq Named(t)
  BY <1>0, <1>2, <1>3 DEF ClearsOne, Holds, Named
<1>5. gs = {group[d]} \ {None}
  BY <1>0, <1>1, <1>3 DEF ReadStill, Reading, GroupsOf
\* The rows besides d are the rest of its unit, of which there is one at most.
<1>6. /\ \A e \in rows : e = d \/ (e \in live /\ group[e] = group[d] /\ group[d] # None)
      /\ \/ rows = {d}
         \/ \E x \in Devices : /\ \A e \in live \ {d} : group[e] = group[d] /\ group[d] # None => e = x
                               /\ \A e \in live \ {d} : group[e] = group[d] /\ group[d] # None => e \in rows
  <2>1. \A e \in rows : e = d \/ (e \in live /\ group[e] = group[d] /\ group[d] # None)
    BY <1>3, <1>4, <1>5 DEF Named
  <2>2. Others(t) = {e \in live \ {d} : group[e] = group[d] /\ group[d] # None}
    BY <1>3, <1>5 DEF Others
  <2>3. rows = {d} \/ \E x \in Devices : Others(t) \subseteq {x} /\ Others(t) \subseteq rows
    BY <1>0, <1>1, <1>2, <1>3 DEF ClearsOne
  <2> QED BY <2>1, <2>2, <2>3
<1>7. Unit(d)' = {d}
  BY <1>1, <1>4 DEF Unit
<1>8. ASSUME NEW e \in Devices, e # d PROVE Unit(e)' = Unit(e) \ {d}
  <2>1. CASE e \notin live
    BY <1>1, <2>1 DEF Unit
  <2>2. CASE e \in live /\ e \in rows
    <3>1. group'[e] = None
      BY <1>1, <2>2
    <3>2. Unit(e)' = {e}
      BY <1>1, <2>2, <3>1 DEF Unit
    <3>3. Unit(e) \ {d} = {e}
      BY <1>6, <1>8, <2>2 DEF Unit
    <3> QED BY <3>2, <3>3
  <2>3. CASE e \in live /\ e \notin rows
    <3>1. group'[e] = group[e]
      BY <1>1, <2>3
    <3>2. ASSUME NEW x \in live, x # e, group[e] # None
          PROVE  group'[x] = group[e] <=> group[x] = group[e] /\ x # d
      <4>1. CASE x \in rows
        <5>1. group'[x] = None
          BY <1>0, <1>1, <4>1
        <5>2. group[x] = group[e] => x = d
          BY <1>6, <1>8, <2>3, <3>2, <4>1
        <5> QED BY <3>2, <5>1, <5>2
      <4>2. CASE x \notin rows
        BY <1>0, <1>1, <1>4, <4>2
      <4> QED BY <4>1, <4>2
    <3> QED BY <1>1, <1>8, <2>3, <3>1, <3>2 DEF Unit
  <2> QED BY <2>1, <2>2, <2>3
<1>9. [e \in Devices |-> Unit(e)]' = [e \in Devices |-> IF e = d THEN {d} ELSE [x \in Devices |-> Unit(x)][e] \ {d}]
  BY <1>7, <1>8
<1>10. d \in Partition!Live
  BY <1>4, UnitsLive
<1> QED BY <1>9, <1>10 DEF Partition!Leave

LEMMA DeleteDeletes ==
  ASSUME LinksInv, NEW D \in SUBSET Devices, DeleteDevices(D)
  PROVE  Partition!Delete(D)
<1>1. live' = live \ D /\ group' = [d \in Devices |-> IF d \in D THEN None ELSE group[d]] /\ live \subseteq Devices
  BY DEF DeleteDevices, LinksInv, LinksTyped
<1>2. \A d \in live' : group'[d] = group[d] /\ d \in live
  BY <1>1
<1>3. \A d \in Devices : Unit(d)' = IF d \in D THEN {} ELSE Unit(d) \ D
  BY <1>1, <1>2 DEF Unit
<1>4. [d \in Devices |-> Unit(d)]' = [d \in Devices |-> IF d \in D THEN {} ELSE [e \in Devices |-> Unit(e)][d] \ D]
  BY <1>3
<1> QED BY <1>4 DEF Partition!Delete

LEMMA UnitsFixed ==
  ASSUME UNCHANGED <<live, group>>
  PROVE  UNCHANGED [d \in Devices |-> Unit(d)]
BY DEF Unit

\* Each step of a transaction, a deletion or an edit is a step of the partition, or none.
LEMMA StepRefines == LinksInv /\ [Next]_vars => [Partition!Next]_[d \in Devices |-> Unit(d)]
<1> SUFFICES ASSUME LinksInv, [Next]_vars PROVE Partition!Next \/ UNCHANGED [d \in Devices |-> Unit(d)]
  OBVIOUS
<1>1. ASSUME NEW t \in Txns, Commit(t) PROVE Partition!Next
  <2>1. CASE Linking(t)
    <3>1. Partition!Merge(tx[t].ids) /\ tx[t].ids \in SUBSET Devices
      BY <1>1, <2>1, CommitMerges DEF LinksInv, LinksTyped, Txn
    <3> QED BY <3>1 DEF Partition!Next
  <2>2. CASE ~ Linking(t)
    <3>1. \E d \in Devices : Partition!Leave(d)
      BY <1>1, <2>2, CommitLeaves
    <3> QED BY <3>1 DEF Partition!Next
  <2> QED BY <2>1, <2>2
<1>2. ASSUME NEW D \in SUBSET Devices, DeleteDevices(D) PROVE Partition!Next
  <2>1. Partition!Delete(D)
    BY <1>2, DeleteDeletes
  <2> QED BY <2>1 DEF Partition!Next
<1>3. \/ UNCHANGED <<live, group>>
      \/ \E t \in Txns : Commit(t)
      \/ \E D \in SUBSET Devices : DeleteDevices(D)
  BY DEF Next, TxnStep, vars, tables, DeviceLink, DeviceUnlink, AutoLink, FindCandidates, LockRow, WriteRow,
         StartUpdate, NotFound, ClearGroup, CountMembers, Abort, DeviceLinkDismiss, EditAddresses
<1> QED BY <1>1, <1>2, <1>3, UnitsFixed

(***************************************************************************)
(* Device links are a partition of the devices into physical units         *)
(* (LinkDevices: "a group is never split", UnlinkDevice): however many     *)
(* links, unlinks, automatic links by serial, deletions and edits          *)
(* interleave, each commit merges the units of the devices it names or     *)
(* takes one device out of its unit, and nothing else joins or splits one. *)
(***************************************************************************)
THEOREM LinksStayPartition == Spec => LinksArePartition
<1>1. Init => Partition!Init
  <2> SUFFICES ASSUME Init PROVE Partition!Init
    OBVIOUS
  <2>1. \A d \in Devices : Unit(d) = {d}
    BY DEF Init, Unit
  <2> QED BY <2>1 DEF Partition!Init
<1> QED BY <1>1, LinksInit, LinksNext, StepRefines, PTL DEF Spec, LinksArePartition, Partition!Spec
=============================================================================
