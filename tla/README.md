# Light IPAM in TLA+

TLA+ modules that model the parts of Light IPAM in which concurrent requests,
goroutines, remote agents, faults and the clock meet, TLC configurations that check
them on small instances, and proofs that TLAPS checks for every instance.

## The system

Light IPAM is one Go process (`cmd/server`) in front of PostgreSQL, plus scanner
agents (`cmd/scanner-agent`) that run elsewhere and are called over mTLS. All lasting
state is rows. In memory are the running HTTP handlers, the scheduler goroutine, one
goroutine per scan job and per webhook event, and copies of the settings, of the
identity provider, of the certificate authority and of the number of enabled
webhooks. No lock is shared between handlers: each statement is atomic, handlers are
not, and `main` recovers no job after a crash.

| Component | State | Operations | What makes it correct |
|---|---|---|---|
| Scan orchestrator (`internal/scanner/orchestrator`, `internal/store/scans.go`) | `scan_jobs`; one goroutine per job | enqueue, run, dispatch, record | every started job ends, results are written once, packets go only where allowed |
| Scheduler (same files) | `scan_schedules.next_run_at`, last-run columns; list of the tick | tick, run schedule, mark ran | each period attempted once, nobody starves |
| Scan administration (`internal/app/scans.go`) | `scan_agents`, `scan_schedules` | create, update, approve, delete, run now | references stay intact |
| Scan windows and budget (`windows.go`, `budget.go`) | window columns; deadlines of one call | save, tick; dispatch, supervise | a tick fires in the minutes the form named; the app outlasts the agent, the agent outlasts nmap |
| Scanner agent (`internal/scanner/agent`) | its own allowlist; worker pool of a job | submit, discover, enrich, merge | never reports outside the allowlist, one answer whatever the schedule, always an answer |
| Discovery queue (`internal/store/discoveries.go`, `internal/app/discoveries.go`) | `scan_discoveries` | reconcile, upsert, import, import all, dismiss, sync | queue and inventory agree; nothing enters the inventory unapproved |
| Inventory (`internal/store/{ipam,devices,bulk,portability}.go`, `internal/app/{app,bulk,portability}.go`) | `subnets`, `ip_addresses`, `devices`, `mac_addresses` | CRUD, bulk edits, imports | no overlap, addresses inside their subnet, no device left behind or taken along by mistake |
| Device links (`internal/store/device_links.go`) | hardware group ids | link, unlink, auto-link by serial | groups are an equivalence, each change one merge or one leave |
| Accounts (`internal/app/{app,users,account,oidc,api}.go`, `internal/store/store.go`) | users, sessions, API tokens | bootstrap, sign-in, password, role, delete | an admin remains; no credential outlives its account; old sessions end with the password |
| Sign-in (`internal/app/{lockout,mfa}.go`, `internal/store/{login_attempts,totp}.go`) | failed attempts, enrolment, recovery codes | throttle, verify, enrol, challenge | guesses are bounded, a lockout ends, a code works once |
| Settings, single sign-on, CA (`internal/app/{settings,oidc_settings,oidc,certs}.go`) | rows and copies in memory | save, load, build provider, rotate | what is in force is what is stored |
| Webhooks (`internal/webhook`, `internal/app/notifications.go`) | `webhooks`, in-memory gate | edit, recount, audit hook, deliver | an event reaches those enabled for it, and only those |
| Agent certificate (`internal/scanner/agent/certreload.go`) | two files, loaded pair | load, watch | the pair on disk is the one served |
| Audit log (`internal/store/audit.go`, triggers of `migrations.go`) | `audit_logs`, append-only | insert | names whom it named; partly in `Accounts`, `ScanOrchestrator`, `Webhooks` |
| Policy, custom fields, search, backup, secrets, CLI, UI | rows, files | inserts, reports, I/O | not modelled, see below |

Components meet in rows (the agent row `enqueue` validates against, the schedule row
a job reports to, the address row an import overwrites), in calls (dispatch to the
agent, `recordDiscoveries` inside dispatch) and in the audit log, whose hook drives
the webhooks. The hard behaviours are the gaps between statements: a row read and
used later, deletes that cascade while a goroutine still has writes to make,
deadlines that pass while an agent is at work, a crash or a failed statement between
two writes that belong together. `hazards` in PROJECT.json lists them at their lines
with the properties about them.

## Modules

| Module | Models | Run from |
|---|---|---|
| `ScanOrchestrator` | scheduler, manual triggers, job goroutines, agents, administration, crashes | `MCScanOrchestrator`, `MCScanRaces`, `MCScanLiveness` |
| `ScanJobLifecycle` | abstract: the life of one job row | refined by `ScanOrchestrator` |
| `ScanWindows` | firing window of a schedule, form to tick | `MCScanJobs` |
| `ScanBudget` | deadlines of app, agent and nmap on one call | `MCScanJobs` |
| `AgentBackends` | what nmap, SNMP, names, DNS and DHCP report, filter and merge (no state) | extended by `CombinedScan` |
| `CombinedScan` | one job inside the agent: egress sets, worker pool, cancellation | `MCScanJobs`, `MCScanLiveness` (networks in `MCCombinedScan`) |
| `DiscoveryQueue` | observations, review queue, imports, edits of the inventory | `MCDiscoveryQueue` |
| `Inventory` | subnets, addresses, devices, bulk removals, imports | `MCInventory` |
| `DeviceLinks` | hardware groups: link, unlink, auto-link, dismissals, deletes | `MCDeviceLinks` |
| `HardwareGroups` | abstract: a partition of the devices into physical units | refined by `DeviceLinks` |
| `Accounts` | users, sessions, API tokens, administration | `MCAccounts` |
| `SignIn` | throttling, second factor, recovery codes | `MCSignIn` |
| `AppCaches` | settings, OIDC provider and CA in memory | `MCVolatile` |
| `Webhooks` | edits, gate, events, deliveries | `MCVolatile` |
| `CertReload` | certificate files and the loaded pair | `MCVolatile` |
| `ScanOrchestratorProofs`, `ScanJobProofs` (windows, budget, the agent's job), `DiscoveryQueueProofs`, `InventoryProofs`, `DeviceLinksProofs`, `AccountsProofs`, `SignInProofs`, `VolatileProofs` (caches, webhooks, certificate) | TLAPS proofs about the modules they extend | |

Every `MC` module gives constants and symmetry. Five of them also put independent
instances side by side under a variable `scenario` or `focus` that never changes, so
that one run explores each and their state spaces add up instead of multiplying.
Operators whose comment starts with "Mutant" are plausible slips, kept next to the
definition they replace; PROJECT.json says which property each of them breaks.
Definitions such as `Txn`, `Discovery`, `Webhook`, `SessionRow` or `AddressRow` give
the shape of a row or of a handler's local state.

### ScanOrchestrator

`agent`, `sched` and `job` are the three tables, a row being unused, live or
deleted so that an id never comes back. `call[c]` is a caller of `enqueue` (a
request, or the scheduler) between its statements; `todo` is the rest of the
list of the current tick; `run[j]` is the goroutine of job `j`; `inbox[j]` what
its agent has done with it; `audit[j]` the audit entries of the job.

One statement is one action: `GetScanAgent`, `InsertJob` (validation and INSERT,
with the foreign keys), `SpawnRun` (the row read back, then `go run`),
`MarkRunning`, `RecordRunning`, `SendJob`, `ReceiveResult` or `DispatchFails`,
`RecordResult`, `RecordScheduleResult`, `FinishRun`. Each write may fail, which
the code logs and ignores; `Crash` ends every goroutine and leaves the rows. An
agent (`ProcessJob`) may answer late or never, and then the answer is lost.

Abstractions: a CIDR list is a set of nets and containment is inclusion, so the
arithmetic of prefixes and the structural checks of `ValidateJob` are not
modelled; of an agent's status only "active" is told apart; time is whether a
schedule is due and whether its window is open (`ScanWindows` says when it is);
`TouchScanAgent` writes no column the model has; `recordDiscoveries` writes no table
of this module and is the subject of `DiscoveryQueue`; `validateScheduleAgentScope`
and the write after it are one step, because an allowlist narrowed between them leads
to the rows of one narrowed afterwards.

### ScanWindows and ScanBudget

`ScanWindows` follows one schedule: `form` as submitted, `row` as stored by
`SaveSchedule` (`parseScheduleWindow`), the UTC minute `now`, the offset of each zone
and the outcome of the last `tick`. `windowAllows` is the code's arithmetic; the
property compares it with `OpenMinutes`, which walks the clock from start to end.
A day has `MinutesPerDay` minutes. An overnight window belongs, on both sides of
midnight, to the day on which each minute falls, as the code has it.

`ScanBudget` follows one dispatch: `at` is where the call is, `waited` and `scanned`
the time on the app's and the agent's clocks, `transit` the time spent on the way. Of
the time scanned, `swept` went into nmap's sweeps for live hosts and `probed` into its
probes of them, both bounded per host by `--host-timeout`, over all egress sets
together; `query` is the time of the query under way. A job is answered by nobody
(passive), by nmap, by nmap and then queries of each host found (combined), or by
queries alone. The agent's deadline kills nmap and fails the job (`ScanCutShort`), but a
query (an SNMP walk, the read of a lease file) does not look at it and lasts up to
`LongestQuery` more, an external bound; a combined scan whose deadline passes in its
queries still succeeds with what nmap found (`QueryEnds`). The sweep has 60 s per host
where the budget has one allowance of 120 s for all of it, so the deadline can kill
nmap under the cap too, which `DeadlinesNested` says.
`DispatchTimeout`, `ScanBudget` and `EstimateTargetHosts` are the code's functions in
units of time; a target is its number of free bits. The branch "no budget" of
`dispatch` is kept, but `CreateScanJob` defaults a timeout of zero, so no stored job
reaches it. Overflow of 64 bits is out of reach:
timeouts are 32-bit columns and targets are IPv4.

### AgentBackends and CombinedScan

`AgentBackends` says what each backend makes of a network `w`: the egress plan of
nmap and its notices, the SNMP tables and their joins (VLANs through bridge ports,
the chassis serial), ARP rows, CDP and LLDP neighbours, NetBIOS and mDNS names, PTR
records, leases, and `mergeObservations`. A field of an observation holds the source
that supplied it instead of a text, so a merge shows who won. `Within` is the loop that
skips what a filter rejects.

`CombinedScan` runs one job: `nm` is the nmap stage over its egress sets, `hosts` and
`next` the loop that starts workers, `wk[i]` the worker of host `i` with its pass and
place, `dhcp` the goroutine that reads leases, `cancelled` the context. nmap is killed
by the context, passes look at it between targets, an SNMP walk and the lease file do
not. `Report` is what the agent answers. `WorldsAssumption` says what the tables of a
network can hold (`IsDevice`) and that a job's targets lie inside its allowlist: the agent
rejects any other job before a discoverer sees it (`ValidateJobTargets`). Bytes (XML, BER, NetBIOS, mDNS, lease syntax)
are not modelled.

### DiscoveryQueue

`disc[ip]` is the discovery of a host, `subnet`, `addr`, `dev` and `owner` the
inventory, `proc[p]` a scan goroutine or an import request between its reads and
its transaction, `batch[o]` the rest of an import-all list. `Observe` reconciles,
`UpsertDiscovery` stores and decides on auto-import or sync; an import is
`LoadDiscovery` (read outside the transaction), `Resolve` (subnet and device to
reuse) and `ImportDiscovery` or `ImportFails` (the commit, where foreign keys are
checked). `discoverySubnetCreate` is `CreateSubnet` followed by `ImportOne` or
`ImportAll`.

Abstractions: names, OS, services, vendor, VLAN and `last_seen_at` are left out
(the serial auto-link that follows an import is in `DeviceLinks`); transactions take
effect when they commit, so a lock wait is a later commit; the overlap check and the
write of a subnet are one step (`Inventory` splits them); a goroutine that dies is one
that takes no further step, which needs no action because nothing depends on its
progress here.

### Inventory

`subnet`, `address` and `device` are the tables, `req[r]` a handler between its
statements with what it has read (`nets`, `rows`, `devs`, `cidrs`, `file`). A create or
edit of a subnet is the overlap check and then the write; an address is created or
edited with the subnet that was loaded first; removals are transactions whose deleted
rows stay visible to others until they commit and cannot be written by them. Their
DELETE of orphan devices is two steps, as at READ COMMITTED: the devices without address
in the statement's snapshot, then the rows, each waited for but not judged again when
all that happened to it was a key-share lock. An import reads its lists one after the
other, validates a file against them, writes its rows, with which it holds the subnets
and devices they refer to, and commits (`CommitImport`); of these rows others see
nothing before. `raced`, `edited`, `shifted`, `unlinked`, `crossed` and `overlooked` are
history variables: they record that a race the code permits has happened, and the properties
say that nothing goes wrong otherwise. `Init` is any inventory one user at a time can
have built.

Left out: columns no other statement reads (names, VLAN, site, notes, tags, state,
custom fields), `UpdateDevice`, which writes only such columns except for renames, and
device names that differ in case only.

### DeviceLinks

Here the statements of one transaction matter, so a transaction `tx[t]` takes its
rows one by one under row locks (`lock`), as PostgreSQL does at READ COMMITTED: a
statement finds its rows in the committed state (`StartUpdate`, `CountMembers`),
waits for each row and judges it again (`LockRow`, `WriteRow`), and what it wrote
shows at `Commit`. `Abort` is every error return, a cancelled request and the
deadlock PostgreSQL breaks; links lock their rows in no agreed order, so that one
happens. `AutoLink` and `FindCandidates` are the two reads of
`AutoLinkDeviceBySerial`, outside the transaction.

The refinement `LinksArePartition` maps `group` to units: the devices that share a
group id, or a device alone. A group of one member is thus the same as none: it
can remain after a delete or after two unlinks at once, although ADR 0029 says
"A group left with fewer than two members dissolves".

Abstractions: serials do not change (a scan that changes one comes before the
auto-link it leads to) and the setting for auto-links is on; a delete takes all its
rows in one step, once nobody holds them; the suggestion list is read-only and not
modelled.

### Accounts and SignIn

`Accounts` has the tables `user`, `session` and `token` and one record `req[r]` per
request. A password is the number of times it was set, and a session remembers the
password it was opened with, which is how `OldSessionsEnd` can be said. Every handler
is split at its statements: the count of admins before a role change or delete, the
two statements of a password change, the look-ups of a single sign-on login. `audited`
are the accounts the audit log names as actors. A sign-in writes its entry before its
session, and the log refuses every UPDATE, also the SET NULL of its foreign key: an
account can be deleted only as long as no entry names it (`DeleteUser`,
`DeleteRefused`). Sessions also end by sign-out and expiry, tokens are removed by hand.
`late` and `overlap` record the two races the code permits.

`SignIn` takes the same login apart from the other side: `failed` counts the rows of
failed attempts per name, address and age, `Tick` ages them, `totp` is the enrolment,
`code` the recovery codes. Statements that fail are taken as the code takes them: a count
is zero, an INSERT of a failure or the DELETE of failures is logged and forgotten, an
enrolment is absent, also on the settings page, which then replaces an enabled factor by
a pending one (`MFASettings`). `made` and `cleared` are histories: the wrong passwords
tried, whether or not a row says so, and the sign-ins that deleted rows. Only the form
keeps the cooldown within the window; the environment need not, and the module does not
assume it. The TOTP code itself and password hashing are external.

### AppCaches, Webhooks, CertReload

`AppCaches`: `stored` against `mem` for four items (security, policy, single sign-on,
CA), the cached `provider`, requests between the write of the row and the write of the
copy, sign-ins between reading the settings and storing the provider they built, and
`Restart`, whose reads may fail. `stale`, `lost` and `late` record crossed saves, a
secret lost by one, and a provider stored late.

`Webhooks`: `hook` is the table, a webhook's address and secret being its version;
`gate` the number last counted; `editor` a request between row, read-back, audit entry,
count and gate, where a failed read-back ends it before the gate is counted and a failed
audit entry does not; `event[e]` an event with the list its goroutine still has to send
and the time left, dropped when the webhooks cannot be listed. `CertReload`: two files that something outside rewrites one after the other, and
the agent's reads of certificate, key and times.

## Runs

Bounds are the constants named `Max...` and the sizes of the sets. Runs set
`CHECK_DEADLOCK FALSE`, because with ids or requests used up the model stops although
the program would go on, or because a job ends; `SignIn` has no such bound and checks
deadlock. TLC takes from seconds to a few minutes for each.

| Run | Instance | Checks |
|---|---|---|
| `ScanRaces` | scenario "edited": 1 agent, 1 job by hand, 2 CIDR lists of which the agent accepts one; scenario "faulty": 2 agents, a schedule moving between them, 2 jobs, 1 fault anywhere (627,374 states) | `TypeOK`, `ProbesAuthorised`, `UnfinishedJobOwned`, `OneAttemptPerPeriod`, `RecordsAgree`, `ReferentialIntegrity`, refinement `JobLifecycle` |
| `ScanLiveness` | server: scheduler and request, 1 job, 1 fault; agent: a job of every type and three combined ones, one with 3 hosts for 2 workers; with fairness (332,220 states) | `JobResolves`, `DueScheduleAttempted`, `AgentAnswers` |
| `ScanJobs` | windows: every window of a day of 4 minutes in 3 zones, one with daylight saving; deadlines: 4 kinds of job, 3 timeouts and 4 target lists in units of 30 s, cap of 20 units, queries of up to 3; the job: 4 addresses, 3 allowed, 2 workers, 41 networks and job types (810,974 states) | `TickHonoursWindow`, `DeadlinesNested`, `AnswerIndependentOfSchedule`, `CoreFindingsKept`, `OnlyAllowedReported`, `ProbesBounded` |
| `QueueRaces` | "one host": 2 scans, 2 subnets, 4 edits; "two hosts": one MAC, scan and operator, 1 edit (539,257 states) | `ImportsApproved`, `ReferencesLive`, `QueueStateCoherent`, `QueueAgreesWithInventory`, `MACsNeverMove` |
| `Inventory` | a /31 and its halves, 2 subnets, 2 addresses, 1 device, 4 requests of which 2 overlap (969,351 states) | `SubnetsDisjoint`, `AddressesFiled`, `OrphansRemoved`, `OthersUntouched` |
| `LinkRaces` | 3 devices of one serial in 2 subnets, 2 transactions, 1 edit | refinement `LinksArePartition` |
| `AccountRaces` | 2 accounts, 2 sessions, 1 token, 1 subject, 5 requests of which 2 overlap, 1 fault (2,122,203 states) | `CredentialsOwned`, `OldSessionsEnd`, `AdminRemains` |
| `SignIn` | 2 names, 2 addresses, 1 attempt before a lock, window 2, cooldown 2, 4 failures and 1 clearing per window, 2 enrolments, 2 requests, 1 fault | `GuessesBounded`, `FactorProven`, `CodeAcceptedOnce`, `LockoutEnds` |
| `Volatile` | caches: 2 requests at a time, 3 in all, 1 fault; webhooks: 2 of them, 2 editors, 2 events, 2 edits, 1 crash (a fault costs one edit or event); certificate: 2 rotations (651,165 states) | `CacheCurrent`, `SecretKept`, `ProviderCurrent`, `GateCurrent`, `EventReachesSubscribers`, `SendsCurrent`, `RotationServed` |
| `ScanLastRun` | 2 overlapping runs of one schedule | violation of `LastRunIsMostRecent` |
| `SubnetOverlap` | the instance of `Inventory` | violation of `OverlapsBlocked` |
| `AccountDelete` | the instance of `AccountRaces` | violation of `DeleteRemoves` |

Why the bounds are enough for the cases to happen: two jobs let runs of one schedule
overlap, two agents let a schedule move, one fault reaches each single point of
failure (a failed mark makes a schedule fire again while its first job is at work).
Two devices and two address rows let a host be imported, deleted and imported again.
Three devices and two transactions let groups merge, shrink and be taken apart while
another transaction waits for one of their rows; three group ids are as many as can be
in use at once. Two overlapping subnets, or two addresses of one device, with two
requests are what every inventory race needs. Two requests at a time and an admin more
than needed give every pair of crossed handlers. Two workers for three hosts make the
third wait for a slot, in `ScanJobs` and in `ScanLiveness`; the switch of `MCCombinedScan` has every table row the filters
are about. With a cooldown as long as the window, the default, a failure keeps its keys
locked for more than one tick, so that an attempt recorded while locked would extend the
lock; four failures are one more than two requests and a fault can add to the limit of one.
In a week of seven short days every comparison of a window meets both of
its boundaries, before and after midnight and the end of the week. A /24 (eight free
bits) is beyond the cap of 20 units for every timeout.

### Fairness

* `ScanLiveness`: weak fairness of the scheduler, of each request and of each job
  goroutine. The Go scheduler runs them, database calls return, and the one call that
  could block for ever, the dispatch, has a deadline, which is the action
  `DispatchFails`. Nothing is assumed of agents, operators or the clock.
  For the agent's part, weak fairness of the job's goroutines: every query and every
  nmap run has a timeout; that the context ends is not assumed.
* `SignIn`: weak fairness of `Tick` alone: time passes. Requests may do as they like,
  and `LockoutEnds` holds because an attempt made while locked is not recorded. It is
  about each key, a username or an address: whoever fails under the username from
  elsewhere and under other usernames from this address in turn keeps the pair locked by
  one or the other for as long as they go on.

### Disagreements between code and documentation

Three runs state what a comment or a message says, and TLC shows the code does
otherwise; PROJECT.json quotes the lines.

* `ScanLastRun`: of two overlapping runs the older may end last, and its outcome
  stays on the schedule as the most recent one.
* `SubnetOverlap`: two requests that both pass the overlap check create overlapping
  subnets.
* `AccountDelete`: an account that has signed in cannot be deleted, because the audit log
  refuses the foreign key's update; the request fails, account and sessions stay.

The others met while modelling are conditions in the properties or remarks here:

* deleting an agent deletes its jobs by a cascade (migrations.go:231); the page says
  "Recorded scan jobs are detached" (scans.go:549);
* import-all and auto-import decide from an earlier read, so a host dismissed meanwhile
  is imported (store/discoveries.go:419), and so is one found in conflict meanwhile;
* two imports of one host at once create two devices, one left without an address
  (store/discoveries.go:368);
* auto-link compares candidates with the scanned device and not with each other, so it
  joins two devices of one subnet (device_links.go:450 against the comment at 396);
* an agent disabled after `enqueue` loaded its row still receives the job
  (docs/SCANNER_DISCOVERY.md:496); what holds is `ProbesAuthorised`;
* a combined scan that is cancelled does not mention the hosts its loop never reached
  (combined.go:56);
* two admins removed at the same moment can leave none (users.go:82, `overlap`); a
  session whose sign-in verified the old password survives a password change
  (account.go:67, `late`); a recovery code presented twice at once is accepted twice
  (totp.go:98, `contended`); a settings page loaded before an enrolment was enabled
  replaces it by a pending one (mfa.go:200), and so does one that cannot read it
  (mfa.go:176-211), which switches the factor off; `DisableTOTP` removes no recovery codes
  although its comment says so;
* the sweep may take 60 s for each host (nmap.go:163), the budget has one allowance for
  it; and an agent in a query past its deadline can be given up on by the app, although
  docs/SCANNER_AGENT.md:364 says "so the app always outlasts the agent";
* an address linked after a removal found its device orphaned, and before it locks the
  device, loses the link to ON DELETE SET NULL (ipam.go:323, bulk.go:78, `overlooked`);
* two removals of a device's last two addresses, neither committed, leave the device
  (ipam.go:323, `crossed`); an address edited after its row moved is checked against
  the old subnet (ipam.go:282, `shifted`); an address detached by the delete of its
  subnet has a page that fails; a CSV file exported and imported again keeps the quote
  that sanitising put in front of a cell;
* crossed refreshes, or an edit whose row cannot be read back (store/webhooks.go:86, 107),
  leave the webhook gate behind until the next edit; slow endpoints use up the time of
  the later ones (webhook.go:168, 202); an event is dropped when the webhooks cannot be
  listed (webhook.go:209);
* crossed saves leave settings in memory that differ from the rows; a blank client
  secret is lost when the stored one cannot be read; a provider built from old settings
  may be stored after they changed (oidc_settings.go, oidc.go:69); `ensureCA` replaces
  an authority whose key does not open, though its comment speaks of the first boot; a
  failed rotation of the CA is reported as done (certs.go:191);
* both certificate files written between the agent's reads and its look at their times
  are never loaded (certreload.go:45, `overlooked`), against "applied live" at line 69.

## Proofs

TLAPS proves the properties below for every value of the constants: any number of
devices, requests, transactions, agents, jobs or faults, where the runs have two or
three of each. Most are not inductive, because they are silent about what a handler,
a goroutine or a transaction is holding between two of its statements; the invariant
that is proved adds exactly that. Each of these was first checked by TLC on the
instance of the component's run. Theorems are named in PROJECT.json with the property
they establish.

Assumptions are those of the modules, evaluated by TLC on every run: bounds are
naturals, `None` is no id, sets that are counted (devices, subnets, addresses,
requests, webhooks, scanned addresses) are finite, target lists are sequences, and the
networks and jobs of `CombinedScan` are those `IsWorld` describes.

**ScanOrchestratorProofs.** `TypeCorrect` is inductive as it stands. `Integrity` needs
the types: the cases that matter are `DeleteScanAgent`, where a job of another agent
may belong to a schedule that goes with this one, and `InsertJob`, whose foreign keys
are checked again although the caller has loaded the agent before. `AttemptsBounded`
needs `AttemptsInv`: a schedule that is due and not being attempted, or that waits in
`todo`, has an attempt in hand (`Listed`, `Serving`, `Pending` say which stage it is
in), and each fault pays for the attempt it may repeat. `ProbesStayAuthorised` needs
`ProbesInv`: what callers, job rows and goroutines carry was granted to the agent they
carry it for. `JobsOwned`, `RecordsConsistent` and the refinement `LifecycleRefined`
share `LifeInv`: what a job row says, given where its goroutine is (`JobInv`); that
without faults a row whose goroutine has not started has a caller that will start it
(`StarterInv`), and that this caller is the only one (`ReadInv`); and that a final status
on a schedule was put there by a goroutine past its result (`LastRunInv`).

**ScanJobProofs.** `TicksHonourWindows`: the comparisons of `windowAllows` and the walk
of `OpenMinutes` are the same minutes. Its core is the lemma `Walk` on remainders, with
the overnight case `start > end`; division and remainder are characterised first
(`DivisionUnique`, `Remainder`). `DeadlinesStayNested` needs
`BudgetInv`: the time waited is the time scanned plus the time on the way; until the
queries begin, the time scanned is that of sweeps and probes, and past the deadline only
the query under way adds to it. `BudgetCovers` shows that the budget is the allowance,
what the probes may take and the grace, or else the cap, also where the guard against
overflow (`hosts > MaxScanBudget \div perHost`) chooses it; so nmap is killed under the
cap only when its sweeps took more than their allowance.
`HostsCounted` shows that a list of targets of any length counts for a positive number
of hosts. `ProbesStayBounded`: workers and the DHCP read are at work only between the end
of nmap and the join, and a routed job only where there is no pool.

The other three theorems about `CombinedScan` are about what loops over sequences leave,
so induction comes first. A set of natural numbers has a least one (`NatLeast`, from the
library's `WFMin`); with the set of numbers for which a claim holds this gives `UpTo`.
`FoldExists` shows that the function behind `FoldLeft` exists, `FoldTrace` that it goes
from one element to the next as its step says; each loop of the code then has a trace of
its own (`MergeTrace`, `AddFirstTrace`, `WithinTrace` and so on). `Merged` is what
`mergeObservations` computes, for every sequence of claims: one record per address, each
the `Reference`; `SameMerged` and `SameConcat` say that merging parts first changes
nothing, which is why the order of the goroutines does not show.

* `OnlyAllowedIsReported` needs `ScanInv`. Each backend's answer is about addresses in
  scope (`InventoryType`, `ARPType`, `NeighborsType`, `NamesType`, `DHCPType`), and every
  observation held by nmap's stage, a worker or the lease read is one of these
  (`ScanTyped`). `ScanShaped` says which parts are at work at which stage: the hosts the
  loop has passed are the ones with a worker, a worker holds nothing of another host's
  pass, and no host is listed before nmap has ended.
* `CoreFindingsAreKept` needs `Backed`: what a worker holds, whole or with answers lost to
  the context, is supported field by field by a claim about its own host (`LostBacked`
  looks at every pass; the one exception is a lost NetBIOS name that leaves the mDNS one).
* `AnswerIsIndependentOfSchedule` needs `Exact`: while the context holds, the worker of a
  host holds exactly what the passes behind it yield (`SoFar`), and each pass has counted
  exactly the hosts that did not answer it (`Counted`, by cardinality). With `PoolInv`,
  everybody is done when the job has answered (`AllDone`), so the answer is the merge of
  all claims in the order of the hosts.

**DiscoveryQueueProofs.** The five properties hold together: `QueueInv` adds to them
that an import under way or waiting in a batch is approved (`HandlersInv`) and that a
row that is gone refers to nothing (`RowsBlank`). `MACsStayPut` follows step by step.

**InventoryProofs.** `AddressesStayFiled` needs `HandlerOK`: the subnet that a handler
loaded still has the cidr it saw, or was edited, or is gone, and every row of a file
lies in a subnet of the context read for it. `SubnetsStayDisjoint` needs that a request
past its overlap check which nobody overtook still finds no overlap. `OrphansStayRemoved`
needs `LocksInv` (a device that a removal has found orphaned has no address but the ones
the removal takes and those `overlooked`, and once its row is locked gains none), that a device such a removal leaves although it takes its last addresses lost
the others by hand or to one that crossed it (`DevicesLeft`), and that two removals with
addresses of one device cross (`Crossings`). `OthersStayUntouched` follows from
`LocksInv`.

**DeviceLinksProofs.** `LinksStayPartition` proves that `DeviceLinks` implements
`HardwareGroups`. `LinksInv` says of each transaction: it holds the rows it has selected
and those it has written (`Holds`); the group ids it read are still those of the devices
it names (`ReadStill`); the UPDATE of a link has all rows of these groups
(`Covers`); an id it made up is nobody else's (`FreshStill`); an unlink takes its device
alone, or with the last one left (`ClearsOne`). The argument is `CommitsApart`: a link
that commits holds every row of the groups it read, so no other transaction past its
`FOR UPDATE` has read one of them. Then a link's commit is `Merge` of the devices it
names and an unlink's is `Leave`.

**AccountsProofs.** `CredentialsStayOwned` needs that a handler past its first read
names an account whose id was given out, and that ids do not come back. It covers both
outcomes of a delete: with its cascade, or refused with account and sessions in place.
`PasswordsEndSessions` is inductive given `AccountsInv`: the session that changes its own
password belongs to the account as long as it lasts. `LastAdminKept`, an action property,
needs `AdminInv`: as long as no two removals overlapped, some admin is the target of
none that is about to be written, and nobody manages accounts before there is one.

**SignInProofs.** `FactorInv` adds to `FactorProven` and `CodeAcceptedOnce` that a
request about to enable the factor has verified the stored secret, that codes of
enablings to come are unknown, and that an uncontended code is held by one request.
`GuessesStayBounded` counts wrong passwords, not rows. `Throttled` holds for every key and
every span up to the cooldown: the attempts made in it, with the requests past the check,
are a share (`MaxAttempts` and one for each other request) for each time a sign-in
started the count over, and one for each fault; and those no row stands for are a share
for each clearing and one for each fault. The spans are needed because a tick makes one
of the other (`MarksAge`); `MarksFewer` and `MarksOneMore` say what a step does to the
cardinality. No relation between window and cooldown is assumed.

**VolatileProofs.** `CacheInv` (for `CachesStayCurrent`, `SecretStaysKept`,
`ProviderStaysCurrent`): a handler that no other crossed is about to set in memory what
its row says, and has filled a blank secret with the stored one. `HookInv` (for
`GateStaysCurrent`, `EventsReachSubscribers`, `SendsStayCurrent`): a gate that is behind
is known to be, or some editor past its write is still going to count (`GateCovered`),
where one that waits for its read-back counts only on a row that is still there; what an event is owed
and has not been sent is still in its list or was edited, the list is no older than the
event, versions only grow. `CertInv` (for `RotationStaysServed`): no file time and no
load is ahead of the clock, so every write shows.

### Only model-checked

* Liveness (`JobResolves`, `DueScheduleAttempted`, `AgentAnswers`, `LockoutEnds`): fairness
  and ENABLED are beyond the prover.

Every safety property of a passing run, invariant, action property or refinement, has its
theorem. An abstract specification of the webhook deliveries, or of the review queue, would
be the next thing to state if the code of either grows.

## Not modelled

* Parsing and encoding of external formats (nmap XML, SNMP, NetBIOS, mDNS, lease files,
  CSV, NetBox): what they yield is an input; the bytes are not.
* Backup and restore, command line, templates: I/O and calls into the parts above.
* Policy reports and search read only; custom fields and tags are independent
  single-statement edits; of the audit log, what its entries say, its paging and its
  export (whom entries name is in `Accounts`, the entries of a scan job and the events of
  the webhooks in their modules).
* Secrets at rest, password hashing, TOTP codes, OIDC tokens and X.509 are library
  code; their outcome (opens or not, verifies or not) is an input.
* Network enrolment of agents (`DiscoverAgent`, `StartAutoEnroll`) ends in
  `CreateScanAgent`, which is modelled; running migrations is not, the keys they
  declare are part of the actions.
