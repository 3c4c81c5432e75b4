---------------------------- MODULE ConfigStore ----------------------------
(***************************************************************************)
(* platform.json (internal/platform/platform_config.go): rayctl commands   *)
(* that load the configuration, change it and save it whole, under a file  *)
(* lock and through a temporary file.  Commands run at the same time, are  *)
(* killed, meet failing system calls and power losses.                     *)
(*                                                                         *)
(* A field holds Blank, a cluster's own default ("d", "dcloud", and "pt",  *)
(* the IAM address of region cn-pj-03) or "own", an address of the user's. *)
(* base stands for base_url and kubernetes_base_url, which the code always *)
(* treats alike; keys for the credentials, the metrics settings and the    *)
(* resource group, which only saving an older form would change.           *)
(***************************************************************************)
EXTENDS Naturals

CONSTANTS
  Procs,    \* commands that update the configuration
  UpdateOf, \* the change each of them makes
  Starts,   \* the configurations the file may hold at first
  NoProc

ASSUME StoreAssumption ==
  /\ NoProc \notin Procs
  /\ \A p \in Procs : UpdateOf[p].kind \in {"cluster", "add", "refuse"}

Blank == ""
Clusters == {"d", "dcloud"}
Or(value, default) == IF value = Blank THEN default ELSE value
-----------------------------------------------------------------------------
(***************************************************************************)
(* Profiles and their defaults.  A configuration is a record of the        *)
(* current profile's name (a number, in the order of the sorted names; 0   *)
(* is none), the profiles, and the top-level fields.  Without profiles it  *)
(* is the older form, whose only profile is the top level.                 *)
(***************************************************************************)
NoFields == [cluster |-> Blank, region |-> Blank, sub |-> Blank,
             base |-> Blank, iam |-> Blank, monitor |-> Blank,
             keys |-> Blank]
NoConfig == [current |-> 0, profiles |-> <<>>, top |-> NoFields]

Multi(cfg) == DOMAIN cfg.profiles # {}

\* normalizeClusterName: whatever is not dcloud is d.
NormalCluster(c) == IF c = "dcloud" THEN "dcloud" ELSE "d"

\* defaultSubscriptionForCluster: only dcloud has one.
DefaultSub(c) == IF c = "dcloud" THEN "dcloud" ELSE Blank

\* normalizeIAMBaseURLForRegion; "pj" is iam.pjlab.org.cn.
RegionalIAM(iam, region) ==
  IF region = "pt" /\ iam \in {Blank, "pj"} THEN "pt" ELSE iam

ApplyDefaults(p) ==
  LET c == NormalCluster(p.cluster)
      r == Or(p.region, "pj01")
  IN  [cluster |-> c, region |-> r, sub |-> Or(p.sub, DefaultSub(c)),
       base |-> Or(p.base, c), iam |-> Or(RegionalIAM(p.iam, r), c),
       monitor |-> Or(p.monitor, c), keys |-> p.keys]

\* The older form knows no regional address.
SingleDefaults(p) ==
  LET c == NormalCluster(p.cluster)
  IN  [cluster |-> c, region |-> p.region, sub |-> Or(p.sub, DefaultSub(c)),
       base |-> Or(p.base, c), iam |-> Or(p.iam, c),
       monitor |-> Or(p.monitor, c), keys |-> p.keys]

\* normalizeCurrentProfileName: a missing one falls back to the first name.
Current(cfg) ==
  IF cfg.current \in DOMAIN cfg.profiles THEN cfg.current
  ELSE CHOOSE n \in DOMAIN cfg.profiles :
         \A m \in DOMAIN cfg.profiles : n <= m

\* LoadConfigSnapshot.
Load(cfg) ==
  IF Multi(cfg)
  THEN LET filled == [n \in DOMAIN cfg.profiles |->
                        ApplyDefaults(cfg.profiles[n])]
       IN  [current |-> Current(cfg), profiles |-> filled,
            top |-> filled[Current(cfg)]]
  ELSE [cfg EXCEPT !.top = SingleDefaults(@)]

\* The top level wins over the current profile: a cluster brings its
\* addresses and its subscription along, blank ones too.
Overlay(p, top) ==
  LET Field(old, new) ==
        IF top.cluster # Blank THEN new ELSE Or(new, old)
  IN  [cluster |-> Or(top.cluster, p.cluster),
       region |-> Or(top.region, p.region), sub |-> Field(p.sub, top.sub),
       base |-> Field(p.base, top.base), iam |-> Field(p.iam, top.iam),
       monitor |-> Field(p.monitor, top.monitor), keys |-> Or(top.keys, p.keys)]

\* Mutant: the first profile receives the top level, not the current one.
SaveOntoFirst(cfg) ==
  IF Multi(cfg)
  THEN LET first == Current([cfg EXCEPT !.current = 0])
       IN  [cfg EXCEPT !.top = NoFields,
                       !.profiles[first] =
                         ApplyDefaults(Overlay(@, cfg.top))]
  ELSE [cfg EXCEPT !.top = SingleDefaults(@)]

\* saveConfigSnapshot, up to the content it writes.
Save(cfg) ==
  IF Multi(cfg)
  THEN LET current == Current(cfg)
       IN  [current |-> current, top |-> NoFields,
            profiles |-> [cfg.profiles EXCEPT
              ![current] = ApplyDefaults(Overlay(@, cfg.top))]]
  ELSE [cfg EXCEPT !.top = SingleDefaults(@)]

(***************************************************************************)
(* The changes: `cluster set` (cmd/cluster.go), the test's new profile     *)
(* (config_atomic_test.go) and a change that returns an error.             *)
(***************************************************************************)
Changed(u, cfg) ==
  CASE u.kind = "cluster" ->
         [cfg EXCEPT !.top =
            [cluster |-> u.cluster, region |-> @.region, sub |-> Blank,
             base |-> Blank, iam |-> @.iam, monitor |-> @.monitor,
             keys |-> @.keys]]
    [] u.kind = "add" ->
         [cfg EXCEPT !.profiles = [n \in DOMAIN @ \cup {u.name} |->
            IF n = u.name THEN [NoFields EXCEPT !.keys = u.keys] ELSE @[n]]]

Accepts(u, cfg) ==
  \/ u.kind = "cluster"
  \/ u.kind = "add" /\ Multi(cfg)

\* What a configuration is; a command adds a profile under a name that no
\* configuration there is at first, and no other command, uses.
IsProfile(p) ==
  p = [cluster |-> p.cluster, region |-> p.region, sub |-> p.sub,
       base |-> p.base, iam |-> p.iam, monitor |-> p.monitor, keys |-> p.keys]

IsConfig(cfg) ==
  /\ cfg = [current |-> cfg.current, profiles |-> cfg.profiles, top |-> cfg.top]
  /\ IsProfile(cfg.top)
  /\ cfg.profiles = [n \in DOMAIN cfg.profiles |-> cfg.profiles[n]]
  /\ DOMAIN cfg.profiles \subseteq Nat
  /\ \A n \in DOMAIN cfg.profiles : IsProfile(cfg.profiles[n])

ASSUME ConfigAssumption ==
  /\ \A cfg \in Starts : IsConfig(cfg)
  /\ \A p \in Procs : UpdateOf[p].kind = "add" =>
       /\ UpdateOf[p].name \in Nat
       /\ \A cfg \in Starts : UpdateOf[p].name \notin DOMAIN cfg.profiles
       /\ \A q \in Procs \ {p} :
            UpdateOf[q].kind = "add" => UpdateOf[q].name # UpdateOf[p].name
-----------------------------------------------------------------------------
VARIABLES
  file,   \* what a reader of platform.json gets: [kind, cfg]
  synced, \* the data of that file is on the disk
  disk,   \* what a reader gets after a power loss
  lock,   \* the holder of platform.json.lock
  pc,     \* where each command is
  temp,   \* what it writes to its temporary file
  flushed \* whether that has been synced

vars == <<file, synced, disk, lock, pc, temp, flushed>>

Whole(cfg) == [kind |-> "whole", cfg |-> cfg]
Absent == [kind |-> "absent", cfg |-> NoConfig]
Torn == [kind |-> "torn", cfg |-> NoConfig]

Init ==
  /\ file \in {Whole(cfg) : cfg \in Starts} \cup {Absent}
  /\ synced = TRUE
  /\ disk = file
  /\ lock = NoProc
  /\ pc = [p \in Procs |-> "start"]
  /\ temp = [p \in Procs |-> NoConfig]
  /\ flushed = [p \in Procs |-> FALSE]

Move(p, from, to) == pc[p] = from /\ pc' = [pc EXCEPT ![p] = to]

\* The states of a command that is inside withConfigLock.
Inside == {"locked", "prepared", "written", "renamed"}

Unlock(p) == lock' = IF lock = p THEN NoProc ELSE lock

\* Mutant: the lock does not exclude.
LockShared(p) ==
  /\ Move(p, "start", "locked")
  /\ lock' = p
  /\ UNCHANGED <<file, synced, disk, temp, flushed>>

\* withConfigLock: flock blocks until nobody else holds the lock.
Lock(p) ==
  /\ Move(p, "start", "locked")
  /\ lock = NoProc
  /\ lock' = p
  /\ UNCHANGED <<file, synced, disk, temp, flushed>>

\* What the command loads; without a file, the empty configuration.
Loaded == IF file.kind = "absent" THEN NoConfig ELSE Load(file.cfg)

\* Load, change and save, up to the content to write.
Prepare(p) ==
  /\ Move(p, "locked", "prepared")
  /\ file.kind # "torn"
  /\ Accepts(UpdateOf[p], Loaded)
  /\ temp' = [temp EXCEPT ![p] = Save(Changed(UpdateOf[p], Loaded))]
  /\ UNCHANGED <<file, synced, disk, lock, flushed>>

\* A file that does not parse, or a change that is refused: nothing is saved.
PrepareError(p) ==
  /\ Move(p, "locked", "failed")
  /\ \/ file.kind = "torn"
     \/ ~ Accepts(UpdateOf[p], Loaded)
  /\ Unlock(p)
  /\ UNCHANGED <<file, synced, disk, temp, flushed>>

\* Mutant: the temporary file is renamed without a Sync.
FlushSkipped(p) ==
  /\ Move(p, "prepared", "written")
  /\ UNCHANGED <<file, synced, disk, lock, temp, flushed>>

\* writeConfigAtomically: write and Sync the temporary file.
Flush(p) ==
  /\ Move(p, "prepared", "written")
  /\ flushed' = [flushed EXCEPT ![p] = TRUE]
  /\ UNCHANGED <<file, synced, disk, lock, temp>>

Rename(p) ==
  /\ Move(p, "written", "renamed")
  /\ file' = Whole(temp[p])
  /\ synced' = flushed[p]
  /\ UNCHANGED <<disk, lock, temp, flushed>>

\* Creating, writing, syncing or renaming fails.
WriteError(p) ==
  /\ pc[p] \in {"prepared", "written"}
  /\ pc' = [pc EXCEPT ![p] = "failed"]
  /\ Unlock(p)
  /\ UNCHANGED <<file, synced, disk, temp, flushed>>

OnDisk == IF synced THEN file ELSE Torn

\* The directory is synced, or that fails and nobody learns; either way the
\* command succeeds.
Finish(p) ==
  /\ Move(p, "renamed", "done")
  /\ disk' \in {disk, OnDisk}
  /\ Unlock(p)
  /\ UNCHANGED <<file, synced, temp, flushed>>

\* The command is killed at any point; the kernel releases its lock.
Kill(p) ==
  /\ pc[p] \in Inside
  /\ pc' = [pc EXCEPT ![p] = "killed"]
  /\ Unlock(p)
  /\ UNCHANGED <<file, synced, disk, temp, flushed>>

\* The kernel writes the directory back when it likes.
WriteBack ==
  /\ disk # OnDisk
  /\ disk' = OnDisk
  /\ UNCHANGED <<file, synced, lock, pc, temp, flushed>>

PowerLoss ==
  /\ file # disk
  /\ file' = disk
  /\ synced' = TRUE
  /\ lock' = NoProc
  /\ pc' = [p \in Procs |->
       IF pc[p] \in Inside THEN "killed" ELSE pc[p]]
  /\ UNCHANGED <<disk, temp, flushed>>

Step(p) ==
  \/ Lock(p) \/ Prepare(p) \/ PrepareError(p) \/ Flush(p) \/ Rename(p)
  \/ WriteError(p) \/ Finish(p) \/ Kill(p)

Next == WriteBack \/ PowerLoss \/ \E p \in Procs : Step(p)

Spec == Init /\ [][Next]_vars
-----------------------------------------------------------------------------
\* The range of each variable.
TypeOK ==
  /\ file.kind \in {"absent", "whole", "torn"}
  /\ disk.kind \in {"absent", "whole", "torn"}
  /\ synced \in BOOLEAN
  /\ lock \in Procs \cup {NoProc}
  /\ pc \in [Procs -> {"start", "locked", "prepared", "written", "renamed",
                       "done", "failed", "killed"}]
  /\ flushed \in [Procs -> BOOLEAN]
  /\ DOMAIN temp = Procs

\* From the moment it has locked to the moment it ends, a command is the one
\* holder of the lock, whoever is killed meanwhile (withConfigLock).
LockCoversTheWrite ==
  /\ TypeOK
  /\ \A p \in Procs : pc[p] \in Inside <=> lock = p

\* Whatever is killed, fails or loses power, and at whatever point, a reader
\* of the configuration gets a whole one: the content is on the disk before
\* the name points to it (writeConfigAtomically).
ReaderSeesAWholeFile == file.kind # "torn"

\* No command replaces a configuration it has not read: each new content is
\* the command's change applied to the very content it replaces, so that no
\* change of another command is lost (UpdateConfigSnapshot's lock covers the
\* read and the write).  Only a power loss goes back.
ReplacesWhatItRead ==
  [][\A p \in Procs :
       (pc[p] = "written" /\ pc'[p] = "renamed") =>
         file' = Whole(Save(Changed(UpdateOf[p], Loaded)))]_vars

\* Saving writes every profile again, filled in; yet whoever loads the file
\* afterwards finds each profile but the current one as it was, and the
\* current one with its own credentials.
OtherProfilesAreKept ==
  [][\A p \in Procs :
       (pc[p] = "written" /\ pc'[p] = "renamed" /\ file.kind = "whole"
          /\ Multi(file.cfg)) =>
         LET was == Load(file.cfg)
             is  == Load(file'.cfg)
         IN  /\ is.current = was.current
             /\ is.top.keys = was.top.keys
             /\ \A n \in DOMAIN was.profiles \ {was.current} :
                  n \in DOMAIN is.profiles
                    /\ is.profiles[n] = was.profiles[n]]_vars

\* `cluster set` switches the cluster environment rayctl uses: when it has
\* succeeded on a configuration without addresses of the user's (the Starts
\* of the run that checks this), all the addresses rayctl uses are those of
\* the new cluster.
EndpointsFollowTheCluster ==
  [][\A p \in Procs :
       (UpdateOf[p].kind = "cluster" /\ pc[p] = "written"
          /\ pc'[p] = "renamed") =>
         LET used == Load(file'.cfg).top
         IN  {used.base, used.iam, used.monitor} = {UpdateOf[p].cluster}]_vars
=============================================================================
