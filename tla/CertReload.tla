----------------------------- MODULE CertReload -----------------------------
(***************************************************************************)
(* The agent's server keypair.  Something outside the process (external: a *)
(* sidecar, a cron job) rotates it by rewriting two files, one after the   *)
(* other; the agent loads the pair when it starts and again, at a tick,    *)
(* when either file is newer than what it loaded.  A load reads the        *)
(* certificate, then the key, then the times of both files, and a writer   *)
(* may come in between any two of those.                                   *)
(*                                                                         *)
(* A certificate and a key match when they are of the same rotation; a     *)
(* file that is being written holds neither.  Every write is a new time.   *)
(***************************************************************************)
EXTENDS Naturals

CONSTANTS
  MaxRotations,  \* bound on the rotations
  Torn           \* content of a file that is being written

Files    == {"cert", "key"}
Rotation == 0 .. MaxRotations

ASSUME CertReloadAssumption == MaxRotations \in Nat /\ Torn \notin Rotation

VARIABLES
  file,     \* file[f]: content and modification time
  clock,    \* time of the last write
  current,  \* CertReloader.current, no pair before the first load
  modTime,  \* CertReloader.modTime
  load,     \* the reload under way
  up,       \* the agent is "starting", "up", or "down" when the first load failed
  overlooked \* history: the last load took the times of a whole pair newer than the one it had read

certVars == <<file, clock, current, modTime, load, up, overlooked>>

NoPair == [cert |-> Torn, key |-> Torn]
NoLoad == [at |-> "idle", cert |-> Torn, key |-> Torn]

Whole == file["cert"].content = file["key"].content /\ file["key"].content # Torn

latestModTime == IF file["cert"].mod > file["key"].mod THEN file["cert"].mod ELSE file["key"].mod

-----------------------------------------------------------------------------
\* A write truncates the file, then fills it.
Write(f, content) ==
  /\ clock' = clock + 1
  /\ file' = [file EXCEPT ![f] = [content |-> content, mod |-> clock + 1]]
  /\ UNCHANGED <<current, modTime, load, up, overlooked>>

\* The certificate of the next rotation, then its key.
RotateFile(f, r) ==
  /\ f = "cert" => file["key"].content = r - 1
  /\ f = "key" => file["cert"].content = r
  /\ \/ file[f].content = r - 1 /\ Write(f, Torn)
     \/ file[f].content = Torn /\ Write(f, r)

\* A torn file is filled with the rotation that its partner shows is under way.
Rotate == \E f \in Files, r \in 1 .. MaxRotations : RotateFile(f, r)

-----------------------------------------------------------------------------
changed == latestModTime > modTime

\* NewCertReloader's first load, or a tick of Watch.
Begin ==
  /\ load.at = "idle"
  /\ up = "starting" \/ (up = "up" /\ changed)
  /\ load' = [NoLoad EXCEPT !.at = "cert"]
  /\ UNCHANGED <<file, clock, current, modTime, up, overlooked>>

ReadCert ==
  /\ load.at = "cert"
  /\ load' = [load EXCEPT !.at = "key", !.cert = file["cert"].content]
  /\ UNCHANGED <<file, clock, current, modTime, up, overlooked>>

ReadKey ==
  /\ load.at = "key"
  /\ load' = [load EXCEPT !.at = "stat", !.key = file["key"].content]
  /\ UNCHANGED <<file, clock, current, modTime, up, overlooked>>

PairLoads == load.cert = load.key /\ load.cert # Torn

\* Mutant: a failed load remembers the times of the files it could not load.
ReloadFailsRemembering ==
  /\ load.at = "stat" /\ ~ PairLoads
  /\ load' = NoLoad
  /\ modTime' = latestModTime
  /\ up' = IF up = "starting" THEN "down" ELSE up
  /\ UNCHANGED <<file, clock, current, overlooked>>

\* The pair does not load: the old one stays, or the agent does not start.
ReloadFails ==
  /\ load.at = "stat" /\ ~ PairLoads
  /\ load' = NoLoad
  /\ up' = IF up = "starting" THEN "down" ELSE up
  /\ UNCHANGED <<file, clock, current, modTime, overlooked>>

reload ==
  /\ load.at = "stat" /\ PairLoads
  /\ current' = [cert |-> load.cert, key |-> load.key]
  /\ modTime' = latestModTime
  /\ overlooked' = (Whole /\ file["cert"].content # load.cert)
  /\ load' = NoLoad
  /\ up' = "up"
  /\ UNCHANGED <<file, clock>>

-----------------------------------------------------------------------------
CertInit ==
  /\ file = [f \in Files |-> [content |-> 0, mod |-> 0]]
  /\ clock = 0 /\ current = NoPair /\ modTime = 0
  /\ load = NoLoad /\ up = "starting" /\ overlooked = FALSE

Watcher == Begin \/ ReadCert \/ ReadKey \/ ReloadFails \/ reload

CertNext == Rotate \/ Watcher

-----------------------------------------------------------------------------
(* Properties.                                                             *)

\* "An out-of-band rotation is therefore applied live" (Watch): a running agent that
\* has nothing left to load serves the pair on disk, unless both files were written
\* between its reads and its look at their times.
RotationServed ==
  up = "up" /\ load.at = "idle" /\ ~ changed /\ Whole /\ ~ overlooked =>
    current.cert = file["cert"].content /\ current.key = file["key"].content
=============================================================================
