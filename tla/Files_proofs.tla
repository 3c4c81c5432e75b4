---------------------------- MODULE Files_proofs ----------------------------
(***************************************************************************)
(* Theorems about ConfigStore and SessionStore, for any number of commands *)
(* and users, any changes, configurations and profiles: the lock covers    *)
(* the write, no update is lost, no reader gets a torn file, saving leaves *)
(* the other profiles as they were; tokens are a profile's own, and a      *)
(* session is lost only to a command that overlaps.                        *)
(***************************************************************************)
EXTENDS Files, WellFoundedInduction, TLAPS

\* What a command is about to write is still its change of the file there is.
UpToDate ==
  \A p \in Procs : pc[p] \in {"prepared", "written"} =>
    temp[p] = Save(Changed(UpdateOf[p], Loaded))
      /\ Accepts(UpdateOf[p], Loaded)

\* Only synced data gets the name platform.json.
OnlyWholeFiles ==
  /\ file.kind # "torn" /\ disk.kind # "torn" /\ synced
  /\ \A p \in Procs : pc[p] = "written" => flushed[p]

(***************************************************************************)
(* The lock.                                                               *)
(***************************************************************************)
LEMMA LockInit == Init => LockCoversTheWrite
  BY StoreAssumption DEF Init, LockCoversTheWrite, TypeOK, Whole, Absent, Inside

LEMMA LockNext == LockCoversTheWrite /\ [Next]_vars => LockCoversTheWrite'
<1> SUFFICES ASSUME LockCoversTheWrite, [Next]_vars
             PROVE  LockCoversTheWrite'
  OBVIOUS
<1> USE StoreAssumption DEF LockCoversTheWrite, TypeOK, Inside
<1>1. ASSUME NEW p \in Procs, Step(p)  PROVE LockCoversTheWrite'
  <2>1. CASE Lock(p)
    BY <2>1 DEF Lock, Move
  <2>2. CASE Prepare(p)
    BY <2>2 DEF Prepare, Move
  <2>3. CASE PrepareError(p)
    BY <2>3 DEF PrepareError, Move, Unlock
  <2>4. CASE Flush(p)
    BY <2>4 DEF Flush, Move
  <2>5. CASE Rename(p)
    BY <2>5 DEF Rename, Move, Whole
  <2>6. CASE WriteError(p)
    BY <2>6 DEF WriteError, Unlock
  <2>7. CASE Finish(p)
    BY <2>7 DEF Finish, Move, Unlock, OnDisk, Torn
  <2>8. CASE Kill(p)
    BY <2>8 DEF Kill, Unlock
  <2> QED
    BY <1>1, <2>1, <2>2, <2>3, <2>4, <2>5, <2>6, <2>7, <2>8 DEF Step
<1>2. CASE WriteBack
  BY <1>2 DEF WriteBack, OnDisk, Torn
<1>3. CASE PowerLoss
  BY <1>3 DEF PowerLoss
<1>4. CASE UNCHANGED vars
  BY <1>4 DEF vars
<1> QED
  BY <1>1, <1>2, <1>3, <1>4 DEF Next

\* Between locking and ending, a command is the only holder of the lock.
THEOREM LockHolds == Spec => []LockCoversTheWrite
  BY LockInit, LockNext, PTL DEF Spec

(***************************************************************************)
(* What is on the disk.                                                    *)
(***************************************************************************)
LEMMA WholeInit == Init => OnlyWholeFiles
  BY DEF Init, OnlyWholeFiles, Whole, Absent

LEMMA WholeNext ==
  LockCoversTheWrite /\ OnlyWholeFiles /\ [Next]_vars => OnlyWholeFiles'
<1> SUFFICES ASSUME LockCoversTheWrite, OnlyWholeFiles, [Next]_vars
             PROVE  OnlyWholeFiles'
  OBVIOUS
<1> USE DEF LockCoversTheWrite, TypeOK, OnlyWholeFiles
<1>1. ASSUME NEW p \in Procs, Step(p)  PROVE OnlyWholeFiles'
  <2>1. CASE Lock(p)
    BY <2>1 DEF Lock, Move
  <2>2. CASE Prepare(p)
    BY <2>2 DEF Prepare, Move
  <2>3. CASE PrepareError(p)
    BY <2>3 DEF PrepareError, Move
  <2>4. CASE Flush(p)
    BY <2>4 DEF Flush, Move
  <2>5. CASE Rename(p)
    BY <2>5 DEF Rename, Move, Whole
  <2>6. CASE WriteError(p)
    BY <2>6 DEF WriteError
  <2>7. CASE Finish(p)
    BY <2>7 DEF Finish, Move, OnDisk
  <2>8. CASE Kill(p)
    BY <2>8 DEF Kill
  <2> QED
    BY <1>1, <2>1, <2>2, <2>3, <2>4, <2>5, <2>6, <2>7, <2>8 DEF Step
<1>2. CASE WriteBack
  BY <1>2 DEF WriteBack, OnDisk
<1>3. CASE PowerLoss
  BY <1>3 DEF PowerLoss, Inside
<1>4. CASE UNCHANGED vars
  BY <1>4 DEF vars
<1> QED
  BY <1>1, <1>2, <1>3, <1>4 DEF Next

\* However commands are killed and power is lost, platform.json reads whole.
THEOREM ReadsWhole == Spec => []ReaderSeesAWholeFile
<1>1. OnlyWholeFiles => ReaderSeesAWholeFile
  BY DEF OnlyWholeFiles, ReaderSeesAWholeFile
<1> QED
  BY WholeInit, WholeNext, LockHolds, <1>1, PTL DEF Spec

(***************************************************************************)
(* What is about to be written.                                            *)
(***************************************************************************)
LEMMA UpToDateInit == Init => UpToDate
  BY DEF Init, UpToDate

\* The lock is what keeps the file still under a command that has read it.
LEMMA UpToDateNext ==
  LockCoversTheWrite /\ UpToDate /\ [Next]_vars => UpToDate'
<1> SUFFICES ASSUME LockCoversTheWrite, UpToDate, [Next]_vars,
                    NEW q \in Procs, pc'[q] \in {"prepared", "written"}
             PROVE  /\ temp'[q] = Save(Changed(UpdateOf[q], Loaded'))
                    /\ Accepts(UpdateOf[q], Loaded')
  BY DEF UpToDate
<1> USE DEF LockCoversTheWrite, TypeOK, UpToDate
<1>0. ASSUME file' = file  PROVE Loaded' = Loaded
  BY <1>0 DEF Loaded
<1>1. ASSUME NEW p \in Procs, Step(p)
      PROVE  /\ temp'[q] = Save(Changed(UpdateOf[q], Loaded'))
             /\ Accepts(UpdateOf[q], Loaded')
  <2>1. CASE Lock(p)
    BY <1>0, <2>1 DEF Lock, Move
  <2>2. CASE Prepare(p)
    <3>1. CASE p = q
      BY <1>0, <2>2, <3>1 DEF Prepare
    <3>2. CASE p # q
      BY <1>0, <2>2, <3>2 DEF Prepare, Move
    <3> QED
      BY <3>1, <3>2
  <2>3. CASE PrepareError(p)
    BY <1>0, <2>3 DEF PrepareError, Move
  <2>4. CASE Flush(p)
    BY <1>0, <2>4 DEF Flush, Move
  <2>5. CASE Rename(p)
    BY <2>5 DEF Rename, Move, Inside
  <2>6. CASE WriteError(p)
    BY <1>0, <2>6 DEF WriteError
  <2>7. CASE Finish(p)
    BY <1>0, <2>7 DEF Finish, Move
  <2>8. CASE Kill(p)
    BY <1>0, <2>8 DEF Kill
  <2> QED
    BY <1>1, <2>1, <2>2, <2>3, <2>4, <2>5, <2>6, <2>7, <2>8 DEF Step
<1>2. CASE WriteBack
  BY <1>0, <1>2 DEF WriteBack
<1>3. CASE PowerLoss
  BY <1>3 DEF PowerLoss, Inside
<1>4. CASE UNCHANGED vars
  BY <1>0, <1>4 DEF vars
<1> QED
  BY <1>1, <1>2, <1>3, <1>4 DEF Next

LEMMA OnlyRenameReplaces ==
  ASSUME LockCoversTheWrite, Next, NEW q \in Procs, pc[q] = "written", pc'[q] = "renamed"
  PROVE  Rename(q)
<1> USE DEF LockCoversTheWrite, TypeOK
<1>1. ASSUME NEW p \in Procs, Step(p)  PROVE Rename(q)
  BY <1>1 DEF Step, Lock, Prepare, PrepareError, Flush, Rename,
              WriteError, Finish, Kill, Move
<1>2. ~ WriteBack
  BY DEF WriteBack
<1>3. ~ PowerLoss
  BY DEF PowerLoss, Inside
<1> QED
  BY <1>1, <1>2, <1>3 DEF Next

\* No update is lost: what a command puts in place of platform.json is its
\* change of the very content it replaces.
THEOREM NoUpdateIsLost == Spec => ReplacesWhatItRead
<1> DEFINE Replaces(p) == (pc[p] = "written" /\ pc'[p] = "renamed") =>
                            file' = Whole(Save(Changed(UpdateOf[p], Loaded)))
<1>1. LockCoversTheWrite /\ UpToDate /\ [Next]_vars
        => [\A p \in Procs : Replaces(p)]_vars
  BY OnlyRenameReplaces DEF Rename, UpToDate
<1>2. Spec => [](LockCoversTheWrite /\ UpToDate)
  BY UpToDateInit, UpToDateNext, LockHolds, PTL DEF Spec
<1> QED
  BY <1>1, <1>2, PTL DEF Spec, ReplacesWhatItRead

(***************************************************************************)
(* What loading, changing and saving make of a configuration.              *)
(***************************************************************************)
LEMMA SmallestName ==
  ASSUME NEW S \in SUBSET Nat, S # {}
  PROVE  \E n \in S : \A m \in S : n <= m
<1> DEFINE R == OpToRel(<, Nat)
<1>1. \E n \in S : \A m \in S : ~ (<<m, n>> \in R)
  BY WFMin, NatLessThanWellFounded
<1>2. \A m, n \in Nat : <<m, n>> \in R <=> m < n
  BY DEF OpToRel
<1> HIDE DEF R
<1>3. \A m, n \in Nat : ~ (<<m, n>> \in R) => n <= m
  BY <1>2
<1>4. QED
  BY <1>1, <1>3

LEMMA CurrentIsThere ==
  ASSUME NEW cfg, IsConfig(cfg), Multi(cfg)
  PROVE  Current(cfg) \in DOMAIN cfg.profiles
<1> DEFINE names == DOMAIN cfg.profiles
<1>1. names \in SUBSET Nat /\ names # {}
  BY DEF IsConfig, Multi
<1>2. \E n \in names : \A m \in names : n <= m
  <2> HIDE DEF names
  <2>1. QED
    BY <1>1, SmallestName
<1>3. QED
  BY <1>2 DEF Current

LEMMA Profiles ==
  /\ IsProfile(NoFields)
  /\ \A p : IsProfile(ApplyDefaults(p)) /\ IsProfile(SingleDefaults(p))
  /\ \A p, top : IsProfile(Overlay(p, top))
  BY DEF IsProfile, NoFields, ApplyDefaults, SingleDefaults, Overlay

LEMMA LoadedIsAConfig ==
  ASSUME NEW cfg, IsConfig(cfg)
  PROVE  IsConfig(Load(cfg)) /\ DOMAIN Load(cfg).profiles = DOMAIN cfg.profiles
<1>1. CASE Multi(cfg)
  <2> DEFINE filled == [n \in DOMAIN cfg.profiles |-> ApplyDefaults(cfg.profiles[n])]
  <2>1. Current(cfg) \in DOMAIN cfg.profiles
    BY <1>1, CurrentIsThere
  <2>2. /\ DOMAIN filled \subseteq Nat
        /\ IsProfile(filled[Current(cfg)])
        /\ \A n \in DOMAIN filled : IsProfile(filled[n])
    BY <2>1, Profiles DEF IsConfig
  <2>3. Load(cfg) = [current |-> Current(cfg), profiles |-> filled,
                     top |-> filled[Current(cfg)]]
    BY <1>1 DEF Load
  <2>4. QED
    BY <2>2, <2>3 DEF IsConfig
<1>2. CASE ~ Multi(cfg)
  BY <1>2, Profiles DEF IsConfig, Load, Multi
<1> QED
  BY <1>1, <1>2

LEMMA SavedIsAConfig ==
  ASSUME NEW cfg, IsConfig(cfg)
  PROVE  IsConfig(Save(cfg)) /\ DOMAIN Save(cfg).profiles = DOMAIN cfg.profiles
<1>1. CASE Multi(cfg)
  <2> DEFINE saved == [cfg.profiles EXCEPT
                         ![Current(cfg)] = ApplyDefaults(Overlay(@, cfg.top))]
  <2>1. Current(cfg) \in DOMAIN cfg.profiles
    BY <1>1, CurrentIsThere
  <2>2. /\ DOMAIN saved = DOMAIN cfg.profiles
        /\ saved = [n \in DOMAIN saved |-> saved[n]]
        /\ DOMAIN saved \subseteq Nat
        /\ \A n \in DOMAIN saved : IsProfile(saved[n])
    BY <2>1, Profiles DEF IsConfig
  <2>3. Save(cfg) = [current |-> Current(cfg), top |-> NoFields, profiles |-> saved]
    BY <1>1 DEF Save
  <2>4. QED
    BY <2>2, <2>3, Profiles DEF IsConfig
<1>2. CASE ~ Multi(cfg)
  BY <1>2, Profiles DEF IsConfig, Save, Multi
<1> QED
  BY <1>1, <1>2

\* What a change leaves as it is, and the name it adds.
NewNames(u) == IF u.kind = "add" THEN {u.name} ELSE {}

LEMMA ChangeAddsItsName ==
  ASSUME NEW p \in Procs, NEW cfg, IsConfig(cfg), Accepts(UpdateOf[p], cfg)
  PROVE  LET u == UpdateOf[p]
             changed == Changed(u, cfg)
         IN  /\ IsConfig(changed)
             /\ DOMAIN changed.profiles = DOMAIN cfg.profiles \cup NewNames(u)
             /\ changed.current = cfg.current
             /\ changed.top.keys = cfg.top.keys
             /\ \A n \in DOMAIN cfg.profiles \ NewNames(u) :
                  changed.profiles[n] = cfg.profiles[n]
<1> DEFINE u == UpdateOf[p]
<1> USE DEF NewNames
<1>1. CASE u.kind = "cluster"
  BY <1>1 DEF IsConfig, IsProfile, Changed
<1>2. CASE u.kind = "add"
  <2>1. u.name \in Nat
    BY <1>2, ConfigAssumption
  <2>2. IsProfile([NoFields EXCEPT !.keys = u.keys])
    BY DEF IsProfile, NoFields
  <2>3. Changed(u, cfg) =
          [cfg EXCEPT !.profiles = [n \in DOMAIN cfg.profiles \cup {u.name} |->
             IF n = u.name THEN [NoFields EXCEPT !.keys = u.keys] ELSE cfg.profiles[n]]]
    BY <1>2 DEF Changed
  <2>4. QED
    BY <1>2, <2>1, <2>2, <2>3 DEF IsConfig
<1> QED
  BY <1>1, <1>2 DEF Accepts

\* Defaults are filled in once: doing it again changes nothing.
LEMMA DefaultsAreFinal ==
  ASSUME NEW p
  PROVE  ApplyDefaults(ApplyDefaults(p)) = ApplyDefaults(p)
<1> DEFINE c == NormalCluster(p.cluster)
           r == Or(p.region, "pj01")
           q == ApplyDefaults(p)
           filled == [cluster |-> c, region |-> r, sub |-> Or(p.sub, DefaultSub(c)),
                      base |-> Or(p.base, c), iam |-> Or(RegionalIAM(p.iam, r), c),
                      monitor |-> Or(p.monitor, c), keys |-> p.keys]
<1>1. q = filled
  BY DEF ApplyDefaults
<1>2. c \in {"d", "dcloud"} /\ NormalCluster(c) = c
  BY DEF NormalCluster
<1>3. Or(r, "pj01") = r
  BY DEF Or, Blank
<1>4. \A v : /\ Or(Or(v, c), c) = Or(v, c)
            /\ Or(Or(v, DefaultSub(c)), DefaultSub(c)) = Or(v, DefaultSub(c))
  BY DEF Or
<1>5. \A v : Or(RegionalIAM(Or(RegionalIAM(v, r), c), r), c) = Or(RegionalIAM(v, r), c)
  BY <1>2 DEF Or, RegionalIAM, Blank
<1> HIDE DEF c, r, q
<1>6. /\ q.cluster = c /\ q.region = r /\ q.sub = Or(p.sub, DefaultSub(c))
      /\ q.base = Or(p.base, c) /\ q.iam = Or(RegionalIAM(p.iam, r), c)
      /\ q.monitor = Or(p.monitor, c) /\ q.keys = p.keys
  BY <1>1
<1>7. ApplyDefaults(q) = filled
  BY <1>2, <1>3, <1>4, <1>5, <1>6, ZenonT(30) DEF ApplyDefaults
<1>8. ApplyDefaults(q) = q
  BY <1>1, <1>7
<1>9. QED
  BY <1>8 DEF q

\* The whole round: load, change, save, and load again.
LEMMA RoundKeepsOthers ==
  ASSUME NEW p \in Procs, NEW cfg, IsConfig(cfg), Multi(cfg),
         Accepts(UpdateOf[p], Load(cfg)),
         NewNames(UpdateOf[p]) \cap DOMAIN cfg.profiles = {}
  PROVE  LET was == Load(cfg)
             is  == Load(Save(Changed(UpdateOf[p], was)))
         IN  /\ is.current = was.current
             /\ is.top.keys = was.top.keys
             /\ \A n \in DOMAIN was.profiles \ {was.current} :
                  n \in DOMAIN is.profiles /\ is.profiles[n] = was.profiles[n]
<1> DEFINE names == DOMAIN cfg.profiles
           cur == Current(cfg)
           was == Load(cfg)
           changed == Changed(UpdateOf[p], was)
           saved == Save(changed)
           is == Load(saved)
<1>1. /\ cur \in names
      /\ was.current = cur
      /\ DOMAIN was.profiles = names
      /\ \A n \in names : was.profiles[n] = ApplyDefaults(cfg.profiles[n])
      /\ was.top = was.profiles[cur]
  BY CurrentIsThere DEF Load
<1>2. IsConfig(was)
  BY LoadedIsAConfig
<1>3. /\ IsConfig(changed)
      /\ DOMAIN changed.profiles = names \cup NewNames(UpdateOf[p])
      /\ changed.current = cur
      /\ changed.top.keys = was.top.keys
      /\ \A n \in names : changed.profiles[n] = was.profiles[n]
  <2> HIDE DEF was
  <2>1. QED
    BY <1>1, <1>2, ChangeAddsItsName DEF was
<1> HIDE DEF changed, was
<1>4. Multi(changed) /\ Current(changed) = cur
  BY <1>1, <1>3 DEF Multi, Current
<1>5. /\ DOMAIN saved.profiles = DOMAIN changed.profiles
      /\ saved.current = cur
      /\ \A n \in names \ {cur} : saved.profiles[n] = changed.profiles[n]
      /\ saved.profiles[cur] = ApplyDefaults(Overlay(changed.profiles[cur], changed.top))
  BY <1>1, <1>3, <1>4 DEF Save
<1> HIDE DEF saved
<1>6. Multi(saved) /\ Current(saved) = cur
  BY <1>1, <1>3, <1>5 DEF Multi, Current
<1>7. /\ is.current = cur
      /\ DOMAIN is.profiles = DOMAIN saved.profiles
      /\ \A n \in DOMAIN saved.profiles : is.profiles[n] = ApplyDefaults(saved.profiles[n])
      /\ is.top = is.profiles[cur]
  BY <1>1, <1>3, <1>5, <1>6 DEF Load
<1> HIDE DEF is
<1>8. \A n \in names \ {cur} : n \in DOMAIN is.profiles /\ is.profiles[n] = was.profiles[n]
  BY <1>1, <1>3, <1>5, <1>7, DefaultsAreFinal
<1>9. is.top.keys = was.top.keys
  <2>1. \A q : ApplyDefaults(q).keys = q.keys
    BY DEF ApplyDefaults
  <2>2. \A q, t : Overlay(q, t).keys = Or(t.keys, q.keys)
    BY DEF Overlay
  <2>3. \A k : Or(k, k) = k
    BY DEF Or
  <2>4. is.top = ApplyDefaults(saved.profiles[cur])
    BY <1>1, <1>3, <1>5, <1>7
  <2>5. is.top.keys = Or(changed.top.keys, changed.profiles[cur].keys)
    BY <1>5, <2>1, <2>2, <2>4
  <2>6. QED
    BY <1>1, <1>3, <2>3, <2>5
<1>10. QED
  BY <1>1, <1>7, <1>8, <1>9 DEF is, saved, changed, was

(***************************************************************************)
(* What the file holds, whatever happens: a configuration, in which the    *)
(* names of the profiles yet to be added are still free.                   *)
(***************************************************************************)
NamesAreFree ==
  \A p \in Procs : pc[p] \in {"start", "locked", "prepared", "written"} =>
    NewNames(UpdateOf[p]) \cap (DOMAIN file.cfg.profiles \cup DOMAIN disk.cfg.profiles) = {}

ConfigsAreKnown == IsConfig(file.cfg) /\ IsConfig(disk.cfg) /\ NamesAreFree

LEMMA NothingIsAConfig == IsConfig(NoConfig) /\ DOMAIN NoConfig.profiles = {}
  BY Profiles DEF IsConfig, NoConfig

LEMMA ConfigsInit == Init => ConfigsAreKnown
<1> SUFFICES ASSUME Init  PROVE ConfigsAreKnown
  OBVIOUS
<1>1. CASE file = Absent
  BY <1>1, NothingIsAConfig DEF Init, ConfigsAreKnown, NamesAreFree, Absent
<1>2. ASSUME NEW cfg \in Starts, file = Whole(cfg)  PROVE ConfigsAreKnown
  <2>1. \A p \in Procs : NewNames(UpdateOf[p]) \cap DOMAIN cfg.profiles = {}
    BY ConfigAssumption DEF NewNames
  <2>2. file.cfg = cfg /\ disk.cfg = cfg /\ IsConfig(cfg)
    BY <1>2, ConfigAssumption DEF Init, Whole
  <2>3. QED
    BY <2>1, <2>2 DEF ConfigsAreKnown, NamesAreFree
<1> QED
  BY <1>1, <1>2 DEF Init

\* What a command puts in place is a configuration; new is its own name only.
LEMMA WrittenIsAConfig ==
  ASSUME NEW p \in Procs, IsConfig(file.cfg), Accepts(UpdateOf[p], Loaded)
  PROVE  LET new == Save(Changed(UpdateOf[p], Loaded))
         IN  /\ IsConfig(new)
             /\ DOMAIN new.profiles \subseteq DOMAIN file.cfg.profiles \cup NewNames(UpdateOf[p])
<1>1. IsConfig(Loaded) /\ DOMAIN Loaded.profiles \subseteq DOMAIN file.cfg.profiles
  BY LoadedIsAConfig, NothingIsAConfig DEF Loaded
<1>2. /\ IsConfig(Changed(UpdateOf[p], Loaded))
      /\ DOMAIN Changed(UpdateOf[p], Loaded).profiles
           = DOMAIN Loaded.profiles \cup NewNames(UpdateOf[p])
  BY <1>1, ChangeAddsItsName
<1>3. QED
  BY <1>1, <1>2, SavedIsAConfig

LEMMA ConfigsNext ==
  LockCoversTheWrite /\ UpToDate /\ ConfigsAreKnown /\ [Next]_vars => ConfigsAreKnown'
<1> SUFFICES ASSUME LockCoversTheWrite, UpToDate, ConfigsAreKnown, [Next]_vars
             PROVE  ConfigsAreKnown'
  OBVIOUS
<1> DEFINE Early == {"start", "locked", "prepared", "written"}
\* Nobody goes back to where the name was still to be added.
<1>0. ASSUME file' \in {file, disk}, disk' \in {disk, file, Torn},
             \A p \in Procs : pc'[p] \in Early => pc[p] \in Early
      PROVE  ConfigsAreKnown'
  <2>1. /\ file'.cfg \in {file.cfg, disk.cfg}
        /\ disk'.cfg \in {disk.cfg, file.cfg, NoConfig}
    BY <1>0 DEF Torn
  <2>2. QED
    BY <1>0, <2>1, NothingIsAConfig DEF ConfigsAreKnown, NamesAreFree
<1>1. ASSUME NEW p \in Procs, Step(p)  PROVE ConfigsAreKnown'
  <2> USE DEF LockCoversTheWrite, TypeOK
  <2>1. CASE Lock(p)
    BY <1>0, <2>1 DEF Lock, Move
  <2>2. CASE Prepare(p)
    BY <1>0, <2>2 DEF Prepare, Move
  <2>3. CASE PrepareError(p)
    BY <1>0, <2>3 DEF PrepareError, Move
  <2>4. CASE Flush(p)
    BY <1>0, <2>4 DEF Flush, Move
  <2>5. CASE Rename(p)
    <3> DEFINE new == Save(Changed(UpdateOf[p], Loaded))
    <3>1. /\ pc[p] = "written" /\ pc' = [pc EXCEPT ![p] = "renamed"]
          /\ file' = Whole(temp[p]) /\ disk' = disk
      BY <2>5 DEF Rename, Move
    <3>2. temp[p] = new /\ Accepts(UpdateOf[p], Loaded)
      BY <3>1 DEF UpToDate
    <3>3. /\ IsConfig(new)
          /\ DOMAIN new.profiles \subseteq DOMAIN file.cfg.profiles \cup NewNames(UpdateOf[p])
      BY <3>2, WrittenIsAConfig DEF ConfigsAreKnown
    <3> HIDE DEF new
    <3>4. file'.cfg = new /\ disk'.cfg = disk.cfg
      BY <3>1, <3>2 DEF Whole
    <3>5. \A q \in Procs : pc'[q] \in Early =>
            q # p /\ NewNames(UpdateOf[q]) \cap NewNames(UpdateOf[p]) = {}
      BY <3>1, ConfigAssumption DEF NewNames
    <3>6. NamesAreFree'
      BY <3>1, <3>3, <3>4, <3>5 DEF ConfigsAreKnown, NamesAreFree
    <3>7. QED
      BY <3>3, <3>4, <3>6 DEF ConfigsAreKnown
  <2>6. CASE WriteError(p)
    BY <1>0, <2>6 DEF WriteError
  <2>7. CASE Finish(p)
    BY <1>0, <2>7 DEF Finish, Move, OnDisk
  <2>8. CASE Kill(p)
    BY <1>0, <2>8 DEF Kill
  <2> QED
    BY <1>1, <2>1, <2>2, <2>3, <2>4, <2>5, <2>6, <2>7, <2>8 DEF Step
<1>2. CASE WriteBack
  BY <1>0, <1>2 DEF WriteBack, OnDisk
<1>3. CASE PowerLoss
  BY <1>0, <1>3 DEF PowerLoss
<1>4. CASE UNCHANGED vars
  BY <1>0, <1>4 DEF vars
<1> QED
  BY <1>1, <1>2, <1>3, <1>4 DEF Next

LEMMA RenameKeepsOthers ==
  ASSUME LockCoversTheWrite, UpToDate, ConfigsAreKnown, Next, NEW p \in Procs,
         pc[p] = "written", pc'[p] = "renamed", file.kind = "whole", Multi(file.cfg)
  PROVE  LET was == Load(file.cfg)
             is  == Load(file'.cfg)
         IN  /\ is.current = was.current
             /\ is.top.keys = was.top.keys
             /\ \A n \in DOMAIN was.profiles \ {was.current} :
                  n \in DOMAIN is.profiles /\ is.profiles[n] = was.profiles[n]
<1>1. Loaded = Load(file.cfg)
  BY DEF Loaded
<1>2. temp[p] = Save(Changed(UpdateOf[p], Load(file.cfg))) /\ Accepts(UpdateOf[p], Load(file.cfg))
  BY <1>1 DEF UpToDate
<1>3. file'.cfg = Save(Changed(UpdateOf[p], Load(file.cfg)))
  BY <1>2, OnlyRenameReplaces DEF Rename, Whole
<1>4. IsConfig(file.cfg) /\ NewNames(UpdateOf[p]) \cap DOMAIN file.cfg.profiles = {}
  BY DEF ConfigsAreKnown, NamesAreFree
<1>5. QED
  BY <1>2, <1>3, <1>4, RoundKeepsOthers

\* Whatever a command changes, whoever loads the file it has put in place finds
\* every profile but the current one as it was, and that one's credentials.
THEOREM OthersAreKept == Spec => OtherProfilesAreKept
<1> DEFINE Keeps(p) ==
      (pc[p] = "written" /\ pc'[p] = "renamed" /\ file.kind = "whole" /\ Multi(file.cfg)) =>
        LET was == Load(file.cfg)
            is  == Load(file'.cfg)
        IN  /\ is.current = was.current
            /\ is.top.keys = was.top.keys
            /\ \A n \in DOMAIN was.profiles \ {was.current} :
                 n \in DOMAIN is.profiles /\ is.profiles[n] = was.profiles[n]
<1>1. LockCoversTheWrite /\ UpToDate /\ ConfigsAreKnown /\ [Next]_vars
        => [\A p \in Procs : Keeps(p)]_vars
  BY RenameKeepsOthers
<1>2. Spec => [](LockCoversTheWrite /\ UpToDate)
  BY UpToDateInit, UpToDateNext, LockHolds, PTL DEF Spec
<1>3. Spec => [](LockCoversTheWrite /\ UpToDate /\ ConfigsAreKnown)
  BY ConfigsInit, ConfigsNext, <1>2, PTL DEF Spec
<1> QED
  BY <1>1, <1>3, PTL DEF Spec, OtherProfilesAreKept

(***************************************************************************)
(* Sessions: whose they are, and who has read the file as it is.           *)
(***************************************************************************)
\* A session with tokens is of the profile whose entry it is.
OfProfile(s, n) == s.has = {} \/ s.of = n

SessionType ==
  /\ task \in [Users -> Tasks]
  /\ DOMAIN at = Users
  /\ DOMAIN held = Users
  /\ DOMAIN loaded = Users
  /\ DOMAIN used = Users
  /\ DOMAIN overtaken = Users
  /\ DOMAIN sessions = SProfiles
  /\ \A c \in Users : DOMAIN loaded[c] = SProfiles

EntriesAreOwn ==
  /\ \A n \in SProfiles : OfProfile(sessions[n], n)
  /\ \A c \in Users, n \in SProfiles : OfProfile(loaded[c][n], n)
  /\ \A c \in Users : OfProfile(held[c], ProfileOf(c))

\* Who signs in for tokens needs some.
NeedsSome ==
  \A c \in Users :
    task[c].kind = "use" /\ at[c] \in {"signin", "signed", "loaded", "saved"} =>
      task[c].needs # {}

NotOvertaken ==
  \A c \in Users : at[c] = "loaded" /\ ~overtaken[c] => loaded[c] = sessions

SessionInv == SessionType /\ EntriesAreOwn /\ NeedsSome /\ NotOvertaken

LEMMA SessionInvInit == SessionInit => SessionInv
<1> SUFFICES ASSUME SessionInit  PROVE SessionInv
  OBVIOUS
<1> USE DEF SessionInit
<1>1. PICK S \in SUBSET SProfiles, t \in TokenSets : sessions = StoreOf(S, t)
  BY DEF Stores
<1>2. DOMAIN sessions = SProfiles /\ \A n \in SProfiles : OfProfile(sessions[n], n)
  BY <1>1 DEF StoreOf, OfProfile, Session, None
<1>3. SessionType
  BY <1>2 DEF SessionType
<1>4. EntriesAreOwn
  BY <1>2 DEF EntriesAreOwn, OfProfile, None
<1>5. NeedsSome /\ NotOvertaken
  BY DEF NeedsSome, NotOvertaken
<1> QED
  BY <1>3, <1>4, <1>5 DEF SessionInv

LEMMA SessionInvNext == SessionInv /\ [SessionNext]_sessionVars => SessionInv'
<1> SUFFICES ASSUME SessionInv, [SessionNext]_sessionVars
             PROVE  SessionInv'
  OBVIOUS
<1> USE DEF SessionInv, SessionType, EntriesAreOwn, NeedsSome, NotOvertaken, ProfileOf
<1>1. ASSUME NEW c \in Users, UserStep(c)  PROVE SessionInv'
  <2>0. task[c].profile \in SProfiles
    BY SessionAssumption
  <2>1. CASE FindTokens(c)
    BY <2>1 DEF FindTokens, Go
  <2>2. CASE Begin(c)
    BY <2>2 DEF Begin, Go, Session, OfProfile
  <2>3. CASE SignIn(c)
    BY <2>3 DEF SignIn, Go, Session, OfProfile
  <2>4. CASE LoadSessions(c)
    BY <2>4 DEF LoadSessions, Go
  <2>5. CASE Replace(c)
    BY <2>0, <2>5 DEF Replace, Go, Edited
  <2>6. CASE TakeTokens(c)
    BY <2>6 DEF TakeTokens, Go
  <2>7. CASE StopUser(c)
    BY <2>7 DEF StopUser
  <2> QED
    BY <1>1, <2>1, <2>2, <2>3, <2>4, <2>5, <2>6, <2>7 DEF UserStep
<1>2. ASSUME NEW who \in Users \cup {Nobody}, Expire(who)  PROVE SessionInv'
  BY <1>2 DEF Expire
<1>3. CASE UNCHANGED sessionVars
  BY <1>3 DEF sessionVars
<1> QED
  BY <1>1, <1>2, <1>3 DEF SessionNext

LEMMA SessionInvHolds == SessionSpec => []SessionInv
  BY SessionInvInit, SessionInvNext, PTL DEF SessionSpec

LEMMA FoundIsOwn ==
  ASSUME SessionInv, NEW c \in Users, NEW token, TokenFrom(ProfileOf(c), token) # None
  PROVE  LET s == TokenFrom(ProfileOf(c), token)
         IN  /\ \/ s.of = ProfileOf(c)
                \/ ProfileOf(c) \in DOMAIN Paired /\ s.of = Paired[ProfileOf(c)]
             /\ s.by \notin expired
<1> DEFINE n == ProfileOf(c)
           s == TokenFrom(n, token)
<1>1. n \in SProfiles
  BY SessionAssumption DEF SessionInv, SessionType, ProfileOf
<1>2. s \in Serving(n) /\ Valid(s, token)
  BY DEF TokenFrom, Serving
<1>3. PICK m \in {n} \cup {Paired[k] : k \in DOMAIN Paired \cap {n}} : s = sessions[m]
  BY <1>2 DEF Serving
<1>4. m \in SProfiles
  BY <1>1, <1>3, SessionAssumption
<1> HIDE DEF s
<1>5. s.of = m /\ s.by \notin expired
  BY <1>2, <1>3, <1>4 DEF Valid, SessionInv, EntriesAreOwn, OfProfile
<1> QED
  BY <1>3, <1>5 DEF s

\* A command acts with tokens of its own profile or of the profile paired with
\* it, never with one it could see to have expired.
THEOREM TokensAreOwn == SessionSpec => TokensAreItsOwn
<1> DEFINE Own(c) == \A s \in used'[c] \ used[c] :
             /\ \/ s.of = ProfileOf(c)
                \/ ProfileOf(c) \in DOMAIN Paired /\ s.of = Paired[ProfileOf(c)]
             /\ s.by \notin expired
<1>1. SessionInv /\ [SessionNext]_sessionVars => [\A c \in Users : Own(c)]_sessionVars
  <2> SUFFICES ASSUME SessionInv, SessionNext, NEW d \in Users  PROVE Own(d)
    OBVIOUS
  <2>0. ASSUME used'[d] = used[d]  PROVE Own(d)
    BY <2>0
  <2>1. ASSUME NEW c \in Users, UserStep(c)  PROVE Own(d)
    <3>1. CASE FindTokens(c)
      <4> DEFINE found == {TokenFrom(ProfileOf(c), token) : token \in task[c].needs}
      <4>1. CASE None \notin found
        <5>1. used' = [used EXCEPT ![c] = found]
          BY <3>1, <4>1 DEF FindTokens
        <5>2. CASE c = d
          <6>1. used'[d] = found
            BY <5>1, <5>2 DEF SessionInv, SessionType
          <6> QED
            BY <4>1, <5>2, <6>1, FoundIsOwn
        <5> QED
          BY <2>0, <5>1, <5>2
      <4>2. CASE None \in found
        BY <2>0, <3>1, <4>2 DEF FindTokens
      <4> QED
        BY <4>1, <4>2
    <3>2. CASE TakeTokens(c)
      <4> DEFINE refused == /\ task[c].kind = "use"
                            /\ \E token \in task[c].needs : ~Valid(held[c], token)
      <4>1. CASE refused
        BY <2>0, <3>2, <4>1 DEF TakeTokens
      <4>2. CASE ~refused
        <5>1. at[c] = "saved"
          BY <3>2, <4>2 DEF TakeTokens, Go
        <5>2. used' = IF task[c].kind = "use" THEN [used EXCEPT ![c] = {held[c]}] ELSE used
          BY <3>2, <4>2 DEF TakeTokens
        <5>3. CASE task[c].kind # "use" \/ c # d
          BY <2>0, <5>2, <5>3
        <5>4. CASE task[c].kind = "use" /\ c = d
          <6>1. task[c].needs # {} /\ \A token \in task[c].needs : Valid(held[c], token)
            BY <4>2, <5>1, <5>4 DEF SessionInv, NeedsSome
          <6>2. held[c].has # {} /\ held[c].by \notin expired
            BY <6>1 DEF Valid
          <6>3. held[c].of = ProfileOf(c)
            BY <6>2 DEF SessionInv, EntriesAreOwn, OfProfile
          <6>4. used'[d] = {held[c]}
            BY <5>2, <5>4 DEF SessionInv, SessionType
          <6> QED
            BY <5>4, <6>2, <6>3, <6>4
        <5> QED
          BY <5>3, <5>4
      <4> QED
        BY <4>1, <4>2
    <3>3. ASSUME used' = used  PROVE Own(d)
      BY <2>0, <3>3
    <3> QED
      BY <2>1, <3>1, <3>2, <3>3
         DEF UserStep, Begin, SignIn, LoadSessions, Replace, StopUser
  <2>2. ASSUME NEW who \in Users \cup {Nobody}, Expire(who)  PROVE Own(d)
    BY <2>0, <2>2 DEF Expire
  <2> QED
    BY <2>1, <2>2 DEF SessionNext
<1> QED
  BY <1>1, SessionInvHolds, PTL DEF SessionSpec, TokensAreItsOwn

\* Nobody's session is lost but to a command that had read the file before
\* somebody else replaced it.
THEOREM LostOnlyInOverlap == SessionSpec => LostOnlyByOverlap
<1> DEFINE Kept(c) == at[c] = "loaded" /\ at'[c] = "saved" /\ ~overtaken[c] =>
             \A n \in SProfiles \ {ProfileOf(c)} : sessions'[n] = sessions[n]
<1>1. SessionInv /\ [SessionNext]_sessionVars => [\A c \in Users : Kept(c)]_sessionVars
  <2> SUFFICES ASSUME SessionInv, SessionNext, NEW d \in Users,
                      at[d] = "loaded", at'[d] = "saved", ~overtaken[d]
               PROVE  \A n \in SProfiles \ {ProfileOf(d)} : sessions'[n] = sessions[n]
    OBVIOUS
  <2> USE DEF SessionInv, SessionType
  <2>1. ASSUME NEW c \in Users, UserStep(c)  PROVE Replace(d)
    BY <2>1 DEF UserStep, FindTokens, Begin, SignIn, LoadSessions, Replace,
                TakeTokens, StopUser, Go
  <2>2. ASSUME NEW who \in Users \cup {Nobody}  PROVE ~ Expire(who)
    BY DEF Expire
  <2>3. Replace(d)
    BY <2>1, <2>2 DEF SessionNext
  <2>4. loaded[d] = sessions
    BY DEF NotOvertaken
  <2> QED
    BY <2>3, <2>4 DEF Replace, Edited
<1> QED
  BY <1>1, SessionInvHolds, PTL DEF SessionSpec, LostOnlyByOverlap

(***************************************************************************)
(* The two files beside each other.                                        *)
(***************************************************************************)
\* Every behaviour of the two files is one of each: what is proved of either
\* holds of what the run checks.
THEOREM EachFileIsItself == FilesSpec => Spec /\ SessionSpec
<1>1. FilesInit => Init /\ SessionInit
  BY DEF FilesInit
<1>2. [FilesNext]_filesVars => [Next]_vars /\ [SessionNext]_sessionVars
  BY DEF FilesNext, filesVars
<1> QED
  BY <1>1, <1>2, PTL DEF FilesSpec, Spec, SessionSpec

\* So the files of a rayctl configuration are safe in all these ways at once.
THEOREM FilesAreSafe ==
  FilesSpec => /\ []LockCoversTheWrite
               /\ []ReaderSeesAWholeFile
               /\ ReplacesWhatItRead
               /\ OtherProfilesAreKept
               /\ TokensAreItsOwn
               /\ LostOnlyByOverlap
  BY EachFileIsItself, LockHolds, ReadsWhole, NoUpdateIsLost, OthersAreKept,
     TokensAreOwn, LostOnlyInOverlap, PTL
=============================================================================
