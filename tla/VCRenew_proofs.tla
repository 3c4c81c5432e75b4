--------------------------- MODULE VCRenew_proofs ---------------------------
(***************************************************************************)
(* Theorems about VCRenew, for any runs, paths, references, edits and      *)
(* changes of the platform: the lock admits one writer, nothing is         *)
(* overwritten, and what is added, removed and written into the manifest   *)
(* is what the run has found, shown and confirmed.                         *)
(***************************************************************************)
EXTENDS VCRenew, FiniteSetTheorems, TLAPS

Places == {"idle", "manifest", "inventory", "list", "add", "download", "credential",
           "publish", "select", "confirm", "check", "remove", "write", "done", "killed"}

TypeOK ==
  /\ file \in [Paths -> Contents \cup {None, Odd}]
  /\ lock \in Runs \cup {None}
  /\ manifest \in {None, Broken} \cup Partial(Paths, Refs)
  /\ live \subseteq Refs
  /\ edits \in 0 .. MaxEdits /\ churn \in 0 .. MaxChurn
  /\ pc \in [Runs -> Places]
  /\ cancelled \in [Runs -> BOOLEAN] /\ dry \in [Runs -> BOOLEAN]
  /\ scope \in [Runs -> Scopes]
  /\ entries \in [Runs -> Partial(Paths, Refs)]
  /\ refs \in [Runs -> SUBSET {v \in Refs : PathOf[v] # Unsafe}]
  /\ complete \in [Runs -> BOOLEAN]
  /\ missing \in [Runs -> SUBSET Paths] /\ todo \in [Runs -> SUBSET Paths]
  /\ cur \in [Runs -> Paths \cup {None}]
  /\ config \in [Runs -> Refs \cup {None}] /\ met \in [Runs -> SUBSET Refs]
  /\ hashes \in [Runs -> Partial(Paths, Contents)]
  /\ added \in [Runs -> SUBSET Paths] /\ removed \in [Runs -> SUBSET (Paths \cup {None})]
  /\ answered \in [Runs -> Partial(Paths, Contents \cup {None, Odd})]

\* Where a run is, it has what the steps before it have left.
Searched(r) ==
  /\ pc[r] \in {"idle", "manifest", "inventory", "list"} => missing[r] = {}
  /\ \A p \in missing[r] : EnvOf[p] \in scope[r] /\ RefsAt(r, p) = {}

Downloading(r) ==
  pc[r] \in {"download", "credential", "publish"} =>
    cur[r] \in Paths /\ Cardinality(RefsAt(r, cur[r])) = 1

\* What is downloaded is of VCs that were there at the UID check or since.
Loaded(r) ==
  /\ pc[r] \in {"credential", "publish"} => live \cup RefsAt(r, cur[r]) \subseteq met[r]
  /\ pc[r] = "publish" =>
       /\ config[r] \in met[r]
       /\ \A v \in RefsAt(r, cur[r]) : AddressOf[config[r]] = AddressOf[v]

Chosen(r) ==
  /\ pc[r] \in {"idle", "manifest", "inventory", "list", "add", "download",
                "credential", "publish"} => DOMAIN hashes[r] = {}
  /\ pc[r] = "select" => todo[r] \subseteq missing[r]
  /\ DOMAIN hashes[r] \subseteq missing[r]
  /\ DOMAIN hashes[r] # {} => complete[r]

Confirmed(r) ==
  /\ pc[r] = "confirm" => ~dry[r] /\ DOMAIN hashes[r] # {}
  /\ pc[r] \in {"check", "remove"} =>
       ~dry[r] /\ answered[r] # Empty /\ todo[r] \subseteq DOMAIN hashes[r]
  /\ pc[r] = "remove" => cur[r] \in DOMAIN hashes[r]

\* The copy of the manifest differs from the manifest by what the run has done.
Copied(r) ==
  Working(r) /\ pc[r] # "manifest" /\ ~dry[r] =>
    \/ manifest = None
    \/ \A p \in Paths \ (added[r] \cup removed[r]) :
         /\ p \in DOMAIN entries[r] <=> p \in DOMAIN manifest
         /\ p \in DOMAIN manifest => entries[r][p] = manifest[p]

RunInv(r) ==
  /\ Searched(r) /\ Downloading(r) /\ Loaded(r)
  /\ Chosen(r) /\ Confirmed(r) /\ Copied(r)

IInv == TypeOK /\ OneWriter /\ \A r \in Runs : RunInv(r)

(***************************************************************************)
(* Functions that grow and shrink.                                         *)
(***************************************************************************)
LEMMA PartialType ==
  ASSUME NEW S, NEW T
  PROVE  /\ Empty \in Partial(S, T)
         /\ \A f \in [S -> T] : f \in Partial(S, T)
         /\ \A f \in Partial(S, T), p \in S, x \in T : Put(f, p, x) \in Partial(S, T)
         /\ \A f \in Partial(S, T) : \A p : Drop(f, p) \in Partial(S, T)
         /\ \A f \in Partial(S, T) : DOMAIN f \subseteq S
<1>1. Empty \in Partial(S, T)
  <2>1. Empty \in [{} -> T]
    BY DEF Empty
  <2> QED
    BY <2>1 DEF Partial
<1>2. \A f \in [S -> T] : f \in Partial(S, T)
  BY DEF Partial
<1>3. ASSUME NEW f \in Partial(S, T), NEW p \in S, NEW x \in T
      PROVE  Put(f, p, x) \in Partial(S, T)
  <2>1. PICK D \in SUBSET S : f \in [D -> T]
    BY DEF Partial
  <2>2. Put(f, p, x) \in [D \cup {p} -> T]
    BY <2>1 DEF Put
  <2> QED
    BY <2>2 DEF Partial
<1>4. ASSUME NEW f \in Partial(S, T), NEW p  PROVE Drop(f, p) \in Partial(S, T)
  <2>1. PICK D \in SUBSET S : f \in [D -> T]
    BY DEF Partial
  <2>2. Drop(f, p) \in [D \ {p} -> T]
    BY <2>1 DEF Drop
  <2>3. D \ {p} \in SUBSET S
    BY <2>1
  <2> QED
    BY <2>2, <2>3 DEF Partial
<1>5. \A f \in Partial(S, T) : DOMAIN f \subseteq S
  BY DEF Partial
<1> QED
  BY <1>1, <1>2, <1>3, <1>4, <1>5

(***************************************************************************)
(* Types.                                                                  *)
(***************************************************************************)
LEMMA TypeInit == Init => TypeOK
<1> SUFFICES ASSUME Init  PROVE TypeOK
  OBVIOUS
<1>1. \A T : Empty \in Partial(Paths, T)
  BY PartialType
<1> QED
  BY <1>1, RenewAssumption DEF Init, TypeOK, Contents, Places

\* What a run that returns, or goes on, makes of its place and of the lock.
LEMMA PlaceType ==
  ASSUME TypeOK, NEW r \in Runs
  PROVE  /\ Leave(r, lock) => pc' \in [Runs -> Places] /\ lock' \in Runs \cup {None}
         /\ \A l \in Places : [pc EXCEPT ![r] = l] \in [Runs -> Places]
<1>1. pc \in [Runs -> Places] /\ lock \in Runs \cup {None}
  BY DEF TypeOK
<1>2. \A l \in Places : [pc EXCEPT ![r] = l] \in [Runs -> Places]
  BY <1>1
<1>3. "done" \in Places
  BY DEF Places
<1> QED
  BY <1>1, <1>2, <1>3 DEF Leave

LEMMA TypeNext == TypeOK /\ [Next]_vars => TypeOK'
<1> SUFFICES ASSUME TypeOK, [Next]_vars  PROVE TypeOK'
  OBVIOUS
<1> USE RenewAssumption DEF outside, plan, loading
<1>p. \A l \in {"idle", "manifest", "inventory", "list", "add", "download", "credential",
                 "publish", "select", "confirm", "check", "remove", "write", "done", "killed"} : l \in Places
  BY DEF Places
<1>1. ASSUME NEW r \in Runs, RunStep(r)  PROVE TypeOK'
  <2>p. pc' \in [Runs -> Places] /\ lock' \in Runs \cup {None}
    <3>1. lock \in Runs \cup {None} /\ pc \in [Runs -> Places]
      BY DEF TypeOK
    <3>2. CASE Start(r)
      <4>1. CASE ~cancelled[r] /\ ~dry[r] /\ LockFree
        <5>1. lock' = r /\ pc' = [pc EXCEPT ![r] = "manifest"]
          BY <3>2, <4>1 DEF Start
        <5> QED
          BY <1>p, <5>1, PlaceType
      <4>2. CASE ~cancelled[r] /\ dry[r]
        <5>1. lock' = lock /\ pc' = [pc EXCEPT ![r] = "manifest"]
          BY <3>2, <4>2 DEF Start
        <5> QED
          BY <1>p, <3>1, <5>1, PlaceType
      <4>3. CASE cancelled[r] \/ (~cancelled[r] /\ ~dry[r] /\ ~LockFree)
        <5>1. Leave(r, lock)
          BY <3>2, <4>3 DEF Start
        <5> QED
          BY <5>1, PlaceType
      <4> QED
        BY <4>1, <4>2, <4>3
    <3>3. CASE ReadManifest(r) \/ AddNext(r) \/ Prompt(r) \/ Check(r) \/ WriteManifest(r)
      BY <1>p, <3>1, <3>3, PlaceType
         DEF ReadManifest, AddNext, Prompt, Check, WriteManifest
    <3>4. CASE \/ ReadInventory(r) \/ ListFiles(r) \/ CheckUID(r) \/ Credential(r) \/ Publish(r) \/ AddFails(r) \/ AddsDone(r)
               \/ Select(r) \/ Answer(r) \/ Remove(r) \/ ChecksDone(r)
      BY <1>p, <3>1, <3>4, PlaceType
         DEF ReadInventory, ListFiles, CheckUID, Credential, Publish, AddFails, AddsDone, Select, Answer, Remove, ChecksDone
    <3> QED
      BY <1>1, <3>2, <3>3, <3>4 DEF RunStep
  <2>1. CASE Start(r) \/ Prompt(r) \/ AddFails(r) \/ ChecksDone(r)
    <3>1. cur' \in [Runs -> Paths \cup {None}]
      BY <2>1 DEF TypeOK, Start, Prompt, AddFails, ChecksDone
    <3>2. config' \in [Runs -> Refs \cup {None}] /\ met' \in [Runs -> SUBSET Refs]
      BY <2>1 DEF TypeOK, Start, Prompt, AddFails, ChecksDone
    <3> QED
      BY <2>1, <2>p, <3>1, <3>2 DEF TypeOK, Start, Prompt, AddFails, ChecksDone
  <2>2. CASE ReadManifest(r)
    <3>1. manifest # None /\ manifest # Broken => manifest \in Partial(Paths, Refs)
      BY DEF TypeOK
    <3>2. entries' \in [Runs -> Partial(Paths, Refs)]
      <4>1. Empty \in Partial(Paths, Refs) /\ entries \in [Runs -> Partial(Paths, Refs)]
        BY PartialType DEF TypeOK
      <4>2. CASE manifest = Broken
        BY <2>2, <4>1, <4>2 DEF ReadManifest
      <4>3. CASE manifest # Broken
        <5>1. PICK f \in Partial(Paths, Refs) : entries' = [entries EXCEPT ![r] = f]
          BY <2>2, <3>1, <4>1, <4>3 DEF ReadManifest
        <5> QED
          BY <4>1, <5>1
      <4> QED
        BY <4>2, <4>3
    <3> QED
      BY <2>2, <2>p, <3>2 DEF ReadManifest, TypeOK
  <2>3. CASE ReadInventory(r)
    <3>1. \A got \in SUBSET InScope(r) :
            {v \in got : PathOf[v] # Unsafe} \subseteq {v \in Refs : PathOf[v] # Unsafe}
      BY DEF InScope, TypeOK
    <3>2. refs' \in [Runs -> SUBSET {v \in Refs : PathOf[v] # Unsafe}]
      BY <2>3, <3>1 DEF ReadInventory, TypeOK
    <3>3. complete' \in [Runs -> BOOLEAN]
      BY <2>3 DEF ReadInventory, Complete, TypeOK
    <3> QED
      BY <2>3, <2>p, <3>2, <3>3 DEF ReadInventory, TypeOK
  <2>4. CASE ListFiles(r)
    <3>1. refs[r] \subseteq {v \in Refs : PathOf[v] # Unsafe}
      BY DEF TypeOK
    <3>2. {PathOf[v] : v \in refs[r]} \subseteq Paths
      BY <3>1
    <3>3. todo' \in [Runs -> SUBSET Paths]
      BY <2>4, <3>2 DEF ListFiles, TypeOK
    <3>4. missing' \in [Runs -> SUBSET Paths]
      BY <2>4 DEF ListFiles, TypeOK
    <3> QED
      BY <2>4, <2>p, <3>3, <3>4 DEF ListFiles, TypeOK
  <2>5. CASE AddNext(r) \/ Check(r)
    <3>1. todo' \in [Runs -> SUBSET Paths]
      BY <2>5 DEF AddNext, Check, TypeOK
    <3>2. cur' \in [Runs -> Paths \cup {None}]
      <4>1. todo[r] \subseteq Paths
        BY DEF TypeOK
      <4>2. CASE AddNext(r)
        BY <4>1, <4>2 DEF AddNext, TypeOK
      <4>3. CASE Check(r)
        BY <4>1, <4>3 DEF Check, TypeOK
      <4> QED
        BY <2>5, <4>2, <4>3
    <3> QED
      BY <2>5, <2>p, <3>1, <3>2 DEF AddNext, Check, TypeOK
  <2>6. CASE Publish(r)
    <3>1. PICK v \in RefsAt(r, cur[r]) :
            /\ file' = [file EXCEPT ![cur[r]] = config[r]]
            /\ entries' = [entries EXCEPT ![r] = Put(@, cur[r], v)]
            /\ added' = [added EXCEPT ![r] = @ \cup {cur[r]}]
      BY <2>6 DEF Publish
    <3>2. refs[r] \subseteq {w \in Refs : PathOf[w] # Unsafe}
      BY DEF TypeOK
    <3>3. v \in Refs /\ cur[r] \in Paths
      BY <3>2 DEF RefsAt
    <3>4. file' \in [Paths -> Contents \cup {None, Odd}]
      <4>1. config[r] \in Contents \cup {None, Odd}
        BY DEF TypeOK, Contents
      <4> QED
        BY <3>1, <4>1 DEF TypeOK
    <3>5. Put(entries[r], cur[r], v) \in Partial(Paths, Refs)
      BY <3>3, PartialType DEF TypeOK
    <3>6. entries' \in [Runs -> Partial(Paths, Refs)]
      BY <3>1, <3>5 DEF TypeOK
    <3>7. added' \in [Runs -> SUBSET Paths]
      BY <3>1, <3>3 DEF TypeOK
    <3>8. cur' \in [Runs -> Paths \cup {None}]
      BY <2>6 DEF Publish, TypeOK
    <3>9. config' \in [Runs -> Refs \cup {None}] /\ met' \in [Runs -> SUBSET Refs]
      BY <2>6 DEF Publish, TypeOK
    <3> QED
      BY <2>6, <2>p, <3>4, <3>6, <3>7, <3>8, <3>9 DEF Publish, TypeOK
  <2>12. CASE CheckUID(r) \/ Credential(r)
    <3>1. config' \in [Runs -> Refs \cup {None}] /\ met' \in [Runs -> SUBSET Refs]
      BY <2>12 DEF CheckUID, Credential, TypeOK
    <3> QED
      BY <2>12, <2>p, <3>1 DEF CheckUID, Credential, TypeOK
  <2>7. CASE AddsDone(r)
    <3>1. todo' \in [Runs -> SUBSET Paths]
      BY <2>7 DEF AddsDone, TypeOK
    <3> QED
      BY <2>7, <2>p, <3>1 DEF AddsDone, TypeOK
  <2>8. CASE Select(r)
    <3>1. todo[r] \subseteq Paths /\ hashes[r] \in Partial(Paths, Contents)
      BY DEF TypeOK
    <3>2. \A p \in Paths : file[p] \in Contents =>
            Put(hashes[r], p, file[p]) \in Partial(Paths, Contents)
      BY <3>1, PartialType
    <3>3. todo' \in [Runs -> SUBSET Paths]
      BY <2>8 DEF Select, TypeOK
    <3>4. hashes' \in [Runs -> Partial(Paths, Contents)]
      BY <2>8, <3>1, <3>2 DEF Select, Candidate, TypeOK
    <3> QED
      BY <2>8, <2>p, <3>3, <3>4 DEF Select, TypeOK
  <2>9. CASE Answer(r)
    <3>1. DOMAIN hashes[r] \subseteq Paths /\ file \in Partial(Paths, Contents \cup {None, Odd})
      BY PartialType DEF TypeOK
    <3>2. todo' \in [Runs -> SUBSET Paths]
      BY <2>9, <3>1 DEF Answer, TypeOK
    <3>3. answered' \in [Runs -> Partial(Paths, Contents \cup {None, Odd})]
      BY <2>9, <3>1 DEF Answer, TypeOK
    <3> QED
      BY <2>9, <2>p, <3>2, <3>3 DEF Answer, TypeOK
  <2>10. CASE Remove(r)
    <3>1. Drop(entries[r], cur[r]) \in Partial(Paths, Refs)
      BY PartialType DEF TypeOK
    <3>2. entries' \in [Runs -> Partial(Paths, Refs)]
      BY <2>10, <3>1 DEF Remove, TypeOK
    <3>3. file' \in [Paths -> Contents \cup {None, Odd}]
      BY <2>10 DEF Remove, TypeOK
    <3>4. cur' \in [Runs -> Paths \cup {None}]
      BY <2>10 DEF Remove, TypeOK
    <3>5. removed' \in [Runs -> SUBSET (Paths \cup {None})]
      <4>1. cur[r] \in Paths \cup {None}
        BY DEF TypeOK
      <4> QED
        BY <2>10, <4>1 DEF Remove, TypeOK
    <3> QED
      BY <2>10, <2>p, <3>2, <3>3, <3>4, <3>5 DEF Remove, TypeOK
  <2>11. CASE WriteManifest(r)
    <3>1. manifest' \in {None, Broken} \cup Partial(Paths, Refs)
      BY <2>11 DEF WriteManifest, TypeOK
    <3> QED
      BY <2>11, <2>p, <3>1 DEF WriteManifest, TypeOK
  <2> QED
    BY <1>1, <2>1, <2>2, <2>3, <2>4, <2>5, <2>6, <2>7, <2>8, <2>9, <2>10, <2>11,
       <2>12 DEF RunStep
<1>2. ASSUME NEW r \in Runs, Cancel(r) \/ Kill(r)  PROVE TypeOK'
  <2>1. pc' \in [Runs -> Places] /\ cancelled' \in [Runs -> BOOLEAN]
    <3>1. CASE Cancel(r)
      BY <3>1 DEF Cancel, TypeOK
    <3>2. CASE Kill(r)
      <4>1. pc' = [pc EXCEPT ![r] = "killed"] /\ cancelled' = cancelled
        BY <3>2 DEF Kill
      <4>2. [pc EXCEPT ![r] = "killed"] \in [Runs -> Places]
        BY <1>p, PlaceType
      <4>3. cancelled \in [Runs -> BOOLEAN]
        BY DEF TypeOK
      <4> QED
        BY <4>1, <4>2, <4>3
    <3> QED
      BY <1>2, <3>1, <3>2
  <2> QED
    BY <1>2, <2>1 DEF Cancel, Kill, TypeOK
<1>3. CASE RemoveStaleLock
  BY <1>3 DEF RemoveStaleLock, TypeOK
<1>4. ASSUME NEW p \in Paths, Edit(p)  PROVE TypeOK'
  <2>1. file' \in [Paths -> Contents \cup {None, Odd}]
    BY <1>4 DEF Edit, Contents, TypeOK
  <2>2. edits' \in 0 .. MaxEdits
    BY <1>4 DEF Edit, TypeOK
  <2> QED
    BY <1>4, <2>1, <2>2 DEF Edit, TypeOK
<1>5. ASSUME NEW v \in Refs, Churn(v)  PROVE TypeOK'
  <2>1. live' \subseteq Refs
    BY <1>5 DEF Churn, TypeOK
  <2>2. churn' \in 0 .. MaxChurn
    BY <1>5 DEF Churn, TypeOK
  <2>3. met' \in [Runs -> SUBSET Refs]
    <3>1. \A r \in Runs : met[r] \subseteq Refs
      BY DEF TypeOK
    <3> QED
      BY <1>5, <2>1, <3>1 DEF Churn
  <2> QED
    BY <1>5, <2>1, <2>2, <2>3 DEF Churn, TypeOK
<1>6. CASE UNCHANGED vars
  BY <1>6 DEF vars, TypeOK
<1> QED
  BY <1>1, <1>2, <1>3, <1>4, <1>5, <1>6 DEF Next

\* Every variable keeps its type.
THEOREM RenewTypes == Spec => []TypeOK
  BY TypeInit, TypeNext, PTL DEF Spec

(***************************************************************************)
(* What a step of one run leaves alone.                                    *)
(***************************************************************************)
LEMMA Domains ==
  ASSUME TypeOK
  PROVE  /\ DOMAIN pc = Runs /\ DOMAIN cancelled = Runs /\ DOMAIN dry = Runs
         /\ DOMAIN scope = Runs /\ DOMAIN entries = Runs /\ DOMAIN refs = Runs
         /\ DOMAIN complete = Runs /\ DOMAIN missing = Runs /\ DOMAIN todo = Runs
         /\ DOMAIN cur = Runs /\ DOMAIN hashes = Runs /\ DOMAIN added = Runs
         /\ DOMAIN removed = Runs /\ DOMAIN config = Runs /\ DOMAIN met = Runs
         /\ DOMAIN answered = Runs /\ DOMAIN file = Paths
  BY DEF TypeOK

SameFor(s) ==
  /\ pc'[s] = pc[s] /\ dry'[s] = dry[s] /\ scope'[s] = scope[s]
  /\ entries'[s] = entries[s] /\ refs'[s] = refs[s] /\ complete'[s] = complete[s]
  /\ missing'[s] = missing[s] /\ todo'[s] = todo[s] /\ cur'[s] = cur[s]
  /\ hashes'[s] = hashes[s] /\ added'[s] = added[s] /\ removed'[s] = removed[s]
  /\ answered'[s] = answered[s] /\ config'[s] = config[s]

LEMMA Frame ==
  ASSUME TypeOK, NEW r \in Runs, NEW s \in Runs, s # r, RunStep(r)
  PROVE  SameFor(s) /\ met'[s] = met[s] /\ live' = live
<1> USE Domains DEF SameFor, outside, plan, loading, Leave
<1>1. CASE Start(r)
  BY <1>1 DEF Start
<1>2. CASE ReadManifest(r)
  BY <1>2 DEF ReadManifest
<1>3. CASE ReadInventory(r) \/ ListFiles(r)
  BY <1>3 DEF ReadInventory, ListFiles
<1>4. CASE AddNext(r)
  BY <1>4 DEF AddNext
<1>5. CASE CheckUID(r) \/ Credential(r) \/ Publish(r) \/ AddFails(r) \/ AddsDone(r)
  BY <1>5 DEF CheckUID, Credential, Publish, AddFails, AddsDone
<1>6. CASE Select(r) \/ Prompt(r) \/ Answer(r)
  BY <1>6 DEF Select, Prompt, Answer
<1>7. CASE Check(r) \/ Remove(r) \/ ChecksDone(r)
  BY <1>7 DEF Check, Remove, ChecksDone
<1>8. CASE WriteManifest(r)
  BY <1>8 DEF WriteManifest
<1> QED
  BY <1>1, <1>2, <1>3, <1>4, <1>5, <1>6, <1>7, <1>8 DEF RunStep

\* Only a writing run, as its last step, replaces the manifest.
LEMMA OneManifestStep ==
  ASSUME TypeOK, NEW r \in Runs, RunStep(r), manifest' # manifest
  PROVE  pc[r] = "write" /\ ~dry[r] /\ manifest' = entries[r] /\ pc'[r] = "done"
<1> USE Domains DEF outside, plan, loading
<1>1. WriteManifest(r)
  BY DEF RunStep, Start, ReadManifest, ReadInventory, ListFiles, AddNext, CheckUID, Credential, Publish, AddFails, AddsDone,
         Select, Prompt, Answer, Check, Remove, ChecksDone
<1> QED
  BY <1>1 DEF WriteManifest, Writes, Leave

(***************************************************************************)
(* The lock.                                                               *)
(***************************************************************************)
LEMMA LockMoves ==
  ASSUME TypeOK, NEW r \in Runs, RunStep(r)
  PROVE  \/ lock' = lock /\ Working(r) /\ Working(r)'
         \/ lock' = lock /\ pc[r] = "idle" /\ dry[r] /\ pc'[r] = "manifest"
         \/ lock = None /\ lock' = r /\ pc'[r] = "manifest"
         \/ pc'[r] = "done" /\ lock' = IF lock = r THEN None ELSE lock
<1> USE Domains DEF outside, plan, loading, Leave, Working
<1>1. CASE Start(r)
  BY <1>1 DEF Start, LockFree
<1>2. CASE ReadManifest(r)
  BY <1>2 DEF ReadManifest
<1>3. CASE ReadInventory(r) \/ ListFiles(r)
  BY <1>3 DEF ReadInventory, ListFiles
<1>4. CASE AddNext(r)
  BY <1>4 DEF AddNext
<1>5. CASE CheckUID(r) \/ Credential(r) \/ Publish(r) \/ AddFails(r) \/ AddsDone(r)
  BY <1>5 DEF CheckUID, Credential, Publish, AddFails, AddsDone
<1>6. CASE Select(r)
  BY <1>6 DEF Select
<1>7. CASE Prompt(r)
  BY <1>7 DEF Prompt
<1>8. CASE Answer(r)
  BY <1>8 DEF Answer
<1>9. CASE Check(r)
  BY <1>9 DEF Check
<1>10. CASE Remove(r) \/ ChecksDone(r)
  BY <1>10 DEF Remove, ChecksDone
<1>11. CASE WriteManifest(r)
  BY <1>11 DEF WriteManifest
<1> QED
  BY <1>1, <1>2, <1>3, <1>4, <1>5, <1>6, <1>7, <1>8, <1>9, <1>10, <1>11 DEF RunStep

LEMMA OneWriterNext == TypeOK /\ OneWriter /\ [Next]_vars => OneWriter'
<1> SUFFICES ASSUME TypeOK, OneWriter, [Next]_vars  PROVE OneWriter'
  OBVIOUS
<1> USE RenewAssumption DEF outside, plan, loading
<1>1. ASSUME NEW r \in Runs, RunStep(r)  PROVE OneWriter'
  <2>1. \A s \in Runs \ {r} : pc'[s] = pc[s] /\ dry'[s] = dry[s]
    BY <1>1, Frame DEF SameFor
  <2>2. dry'[r] = dry[r]
    BY <1>1 DEF RunStep, Start, ReadManifest, ReadInventory, ListFiles, AddNext, CheckUID, Credential, Publish, AddFails,
                AddsDone, Select, Prompt, Answer, Check, Remove, ChecksDone, WriteManifest
  <2>3. \/ lock' = lock /\ Working(r) /\ Working(r)'
        \/ lock' = lock /\ pc[r] = "idle" /\ dry[r] /\ pc'[r] = "manifest"
        \/ lock = None /\ lock' = r /\ pc'[r] = "manifest"
        \/ pc'[r] = "done" /\ lock' = IF lock = r THEN None ELSE lock
    BY <1>1, LockMoves
  <2> QED
    BY <2>1, <2>2, <2>3 DEF OneWriter, Working
<1>2. ASSUME NEW r \in Runs, Cancel(r)  PROVE OneWriter'
  BY <1>2 DEF Cancel, OneWriter, Working
<1>3. ASSUME NEW r \in Runs, Kill(r)  PROVE OneWriter'
  <2>1. /\ lock' = lock /\ dry' = dry /\ pc'[r] = "killed"
        /\ \A s \in Runs \ {r} : pc'[s] = pc[s]
    BY <1>3, Domains DEF Kill
  <2> QED
    BY <2>1 DEF OneWriter, Working
<1>4. CASE RemoveStaleLock
  BY <1>4 DEF RemoveStaleLock, OneWriter, Working
<1>5. CASE (\E p \in Paths : Edit(p)) \/ (\E v \in Refs : Churn(v)) \/ UNCHANGED vars
  BY <1>5 DEF Edit, Churn, vars, OneWriter, Working
<1> QED
  BY <1>1, <1>2, <1>3, <1>4, <1>5 DEF Next

\* At most one run that may write is at work, and its lock file exists.
THEOREM RenewOneWriter == Spec => []OneWriter
<1>1. Init => OneWriter
  BY RenewAssumption DEF Init, OneWriter, Working
<1> QED
  BY <1>1, OneWriterNext, RenewTypes, PTL DEF Spec

(***************************************************************************)
(* What a run has at each place, after a step of its own.                  *)
(***************************************************************************)
LEMMA SearchedNext ==
  ASSUME TypeOK, NEW r \in Runs, RunStep(r), Searched(r)
  PROVE  Searched(r)'
<1> USE Domains DEF outside, plan, loading, Leave, Searched, RefsAt
<1>1. CASE ListFiles(r)
  <2>1. pc'[r] = "add"
    BY <1>1 DEF ListFiles
  <2>2. \A p \in missing'[r] : EnvOf[p] \in scope[r] /\ RefsAt(r, p) = {}
    <3> HIDE DEF RefsAt
    <3>1. PICK readable \in SUBSET Selected(r) : missing' = [missing EXCEPT
            ![r] = {p \in Paths : /\ file[p] # None
                                  /\ EnvOf[p] \in readable
                                  /\ RefsAt(r, p) = {}}]
      BY <1>1 DEF ListFiles
    <3> QED
      BY <3>1 DEF Selected
  <2> QED
    BY <1>1, <2>1, <2>2 DEF ListFiles
<1>2. CASE ReadInventory(r)
  BY <1>2 DEF ReadInventory
<1>3. CASE Start(r)
  BY <1>3 DEF Start
<1>4. CASE ReadManifest(r)
  BY <1>4 DEF ReadManifest
<1>5. CASE AddNext(r)
  BY <1>5 DEF AddNext
<1>6. CASE CheckUID(r) \/ Credential(r) \/ Publish(r) \/ AddFails(r) \/ AddsDone(r)
  BY <1>6 DEF CheckUID, Credential, Publish, AddFails, AddsDone
<1>7. CASE Select(r) \/ Prompt(r) \/ Answer(r)
  BY <1>7 DEF Select, Prompt, Answer
<1>8. CASE Check(r) \/ Remove(r) \/ ChecksDone(r) \/ WriteManifest(r)
  BY <1>8 DEF Check, Remove, ChecksDone, WriteManifest
<1> QED
  BY <1>1, <1>2, <1>3, <1>4, <1>5, <1>6, <1>7, <1>8 DEF RunStep

LEMMA DownloadingNext ==
  ASSUME TypeOK, NEW r \in Runs, RunStep(r), Downloading(r)
  PROVE  Downloading(r)'
<1> USE Domains DEF outside, plan, loading, Leave, Downloading, RefsAt
<1>1. CASE AddNext(r)
  <2>1. todo[r] \subseteq Paths
    BY DEF TypeOK
  <2>2. \A p : RefsAt(r, p)' = RefsAt(r, p)
    BY <1>1 DEF AddNext
  <2> HIDE DEF RefsAt
  <2>3. CASE pc'[r] # "download"
    BY <1>1, <2>3 DEF AddNext
  <2>4. CASE pc'[r] = "download"
    <3>1. PICK p \in todo[r] : ~Ambiguous(r, p) /\ cur' = [cur EXCEPT ![r] = p]
      BY <1>1, <2>4 DEF AddNext
    <3> QED
      BY <2>1, <2>2, <3>1 DEF Ambiguous
  <2> QED
    BY <2>3, <2>4
<1>2. ASSUME pc'[r] \notin {"download", "credential", "publish"}  PROVE Downloading(r)'
  BY <1>2
<1>7. CASE CheckUID(r) \/ Credential(r)
  BY <1>7 DEF CheckUID, Credential
<1>3. CASE Start(r) \/ ReadManifest(r) \/ ReadInventory(r) \/ ListFiles(r)
  BY <1>2, <1>3 DEF Start, ReadManifest, ReadInventory, ListFiles
<1>4. CASE Publish(r) \/ AddFails(r) \/ AddsDone(r)
  BY <1>2, <1>4 DEF Publish, AddFails, AddsDone
<1>5. CASE Select(r) \/ Prompt(r) \/ Answer(r)
  BY <1>2, <1>5 DEF Select, Prompt, Answer
<1>6. CASE Check(r) \/ Remove(r) \/ ChecksDone(r) \/ WriteManifest(r)
  BY <1>2, <1>6 DEF Check, Remove, ChecksDone, WriteManifest
<1> QED
  BY <1>1, <1>3, <1>4, <1>5, <1>6, <1>7 DEF RunStep

\* The path a run downloads for has one reference.
LEMMA OneRef ==
  ASSUME TypeOK, NEW r \in Runs, Downloading(r), pc[r] \in {"download", "credential", "publish"}
  PROVE  \E v \in Refs : RefsAt(r, cur[r]) = {v}
<1>1. RefsAt(r, cur[r]) \subseteq Refs /\ IsFiniteSet(RefsAt(r, cur[r]))
  <2>1. RefsAt(r, cur[r]) \subseteq Refs
    BY DEF TypeOK, RefsAt
  <2> QED
    BY <2>1, FS_Subset, RenewAssumption
<1>2. Cardinality(RefsAt(r, cur[r])) = 1
  BY DEF Downloading
<1>3. PICK w : RefsAt(r, cur[r]) = {w}
  BY <1>1, <1>2, FS_Singleton
<1> QED
  BY <1>1, <1>3

LEMMA LoadedNext ==
  ASSUME TypeOK, NEW r \in Runs, RunStep(r), Downloading(r), Loaded(r)
  PROVE  Loaded(r)'
<1> USE Domains DEF outside, plan, loading, Leave, Loaded
<1>1. CASE CheckUID(r)
  <2>1. PICK v \in RefsAt(r, cur[r]) : v \in live
    BY <1>1 DEF CheckUID, SameUID
  <2>2. RefsAt(r, cur[r]) = {v}
    BY <1>1, <2>1, OneRef DEF CheckUID
  <2>3. RefsAt(r, cur[r])' = RefsAt(r, cur[r])
    BY <1>1 DEF CheckUID, RefsAt
  <2> QED
    BY <1>1, <2>1, <2>2, <2>3 DEF CheckUID
<1>2. CASE Credential(r)
  <2>1. PICK v \in RefsAt(r, cur[r]), w \in live :
          AddressOf[w] = AddressOf[v] /\ config' = [config EXCEPT ![r] = w]
    BY <1>2 DEF Credential
  <2>2. RefsAt(r, cur[r]) = {v}
    BY <1>2, <2>1, OneRef DEF Credential
  <2>3. RefsAt(r, cur[r])' = RefsAt(r, cur[r])
    BY <1>2 DEF Credential, RefsAt
  <2> QED
    BY <1>2, <2>1, <2>2, <2>3 DEF Credential
<1>3. ASSUME pc'[r] \notin {"credential", "publish"}  PROVE Loaded(r)'
  BY <1>3
<1>4. CASE Start(r) \/ ReadManifest(r) \/ ReadInventory(r) \/ ListFiles(r)
  BY <1>3, <1>4 DEF Start, ReadManifest, ReadInventory, ListFiles
<1>5. CASE AddNext(r) \/ Publish(r) \/ AddFails(r) \/ AddsDone(r)
  BY <1>3, <1>5 DEF AddNext, Publish, AddFails, AddsDone
<1>6. CASE Select(r) \/ Prompt(r) \/ Answer(r)
  BY <1>3, <1>6 DEF Select, Prompt, Answer
<1>7. CASE Check(r) \/ Remove(r) \/ ChecksDone(r) \/ WriteManifest(r)
  BY <1>3, <1>7 DEF Check, Remove, ChecksDone, WriteManifest
<1> QED
  BY <1>1, <1>2, <1>4, <1>5, <1>6, <1>7 DEF RunStep

LEMMA ChosenNext ==
  ASSUME TypeOK, NEW r \in Runs, RunStep(r), Searched(r), Chosen(r)
  PROVE  Chosen(r)'
<1> USE Domains DEF outside, plan, loading, Leave, Chosen
<1>1. CASE Select(r)
  <2>1. CASE UNCHANGED hashes
    BY <1>1, <2>1 DEF Select
  <2>2. ASSUME NEW p \in todo[r], Candidate(r, p), todo' = [todo EXCEPT ![r] = @ \ {p}],
               hashes' = [hashes EXCEPT ![r] = Put(@, p, file[p])]
        PROVE  Chosen(r)'
    <3>1. DOMAIN hashes'[r] = DOMAIN hashes[r] \cup {p}
      BY <2>2 DEF Put
    <3> QED
      BY <1>1, <2>2, <3>1 DEF Select, Candidate
  <2> QED
    BY <1>1, <2>1, <2>2 DEF Select
<1>2. CASE AddsDone(r)
  BY <1>2 DEF AddsDone
<1>3. CASE ReadInventory(r) \/ ListFiles(r)
  BY <1>3 DEF ReadInventory, ListFiles, Searched
<1>4. CASE Start(r)
  BY <1>4 DEF Start
<1>5. CASE ReadManifest(r)
  BY <1>5 DEF ReadManifest
<1>6. CASE AddNext(r)
  BY <1>6 DEF AddNext
<1>7. CASE CheckUID(r) \/ Credential(r) \/ Publish(r) \/ AddFails(r)
  BY <1>7 DEF CheckUID, Credential, Publish, AddFails
<1>8. CASE Prompt(r) \/ Answer(r)
  BY <1>8 DEF Prompt, Answer
<1>9. CASE Check(r) \/ Remove(r) \/ ChecksDone(r) \/ WriteManifest(r)
  BY <1>9 DEF Check, Remove, ChecksDone, WriteManifest
<1> QED
  BY <1>1, <1>2, <1>3, <1>4, <1>5, <1>6, <1>7, <1>8, <1>9 DEF RunStep

LEMMA ConfirmedNext ==
  ASSUME TypeOK, NEW r \in Runs, RunStep(r), Chosen(r), Confirmed(r)
  PROVE  Confirmed(r)'
<1> USE Domains DEF outside, plan, loading, Leave, Confirmed
<1>1. CASE Answer(r)
  <2>1. ~dry[r] /\ DOMAIN hashes[r] # {}
    BY <1>1 DEF Answer
  <2>2. DOMAIN hashes[r] \subseteq Paths
    BY PartialType DEF TypeOK
  <2>3. file # Empty
    BY <2>1, <2>2 DEF Empty
  <2> QED
    BY <1>1, <2>1, <2>3 DEF Answer
<1>2. CASE Check(r)
  BY <1>2 DEF Check
<1>3. CASE Prompt(r)
  BY <1>3 DEF Prompt
<1>4. CASE Remove(r) \/ ChecksDone(r) \/ WriteManifest(r)
  BY <1>4 DEF Remove, ChecksDone, WriteManifest
<1>5. CASE Select(r)
  BY <1>5 DEF Select
<1>6. CASE Start(r) \/ ReadManifest(r) \/ ReadInventory(r) \/ ListFiles(r)
  BY <1>6 DEF Start, ReadManifest, ReadInventory, ListFiles
<1>7. CASE AddNext(r)
  BY <1>7 DEF AddNext
<1>8. CASE CheckUID(r) \/ Credential(r) \/ Publish(r) \/ AddFails(r) \/ AddsDone(r)
  BY <1>8 DEF CheckUID, Credential, Publish, AddFails, AddsDone
<1> QED
  BY <1>1, <1>2, <1>3, <1>4, <1>5, <1>6, <1>7, <1>8 DEF RunStep

LEMMA CopiedNext ==
  ASSUME TypeOK, NEW r \in Runs, RunStep(r), Copied(r)
  PROVE  Copied(r)'
<1> USE Domains DEF outside, plan, loading, Leave, Copied, Working
<1>1. CASE ReadManifest(r)
  BY <1>1 DEF ReadManifest
<1>2. CASE Publish(r)
  <2>1. PICK v : /\ entries'[r] = Put(entries[r], cur[r], v)
                 /\ added'[r] = added[r] \cup {cur[r]}
    BY <1>2 DEF Publish
  <2>2. \A p \in Paths \ {cur[r]} :
          /\ p \in DOMAIN entries'[r] <=> p \in DOMAIN entries[r]
          /\ p \in DOMAIN entries[r] => entries'[r][p] = entries[r][p]
    BY <2>1 DEF Put
  <2> QED
    BY <1>2, <2>1, <2>2 DEF Publish
<1>3. CASE Remove(r)
  <2>1. CASE UNCHANGED <<file, entries, removed>>
    BY <1>3, <2>1 DEF Remove
  <2>2. CASE entries'[r] = Drop(entries[r], cur[r]) /\ removed'[r] = removed[r] \cup {cur[r]}
    <3>1. \A p \in Paths \ {cur[r]} :
            /\ p \in DOMAIN entries'[r] <=> p \in DOMAIN entries[r]
            /\ p \in DOMAIN entries[r] => entries'[r][p] = entries[r][p]
      BY <2>2 DEF Drop
    <3> QED
      BY <1>3, <2>2, <3>1 DEF Remove
  <2> QED
    BY <1>3, <2>1, <2>2 DEF Remove
<1>4. CASE Start(r)
  BY <1>4 DEF Start
<1>5. CASE ReadInventory(r) \/ ListFiles(r)
  BY <1>5 DEF ReadInventory, ListFiles
<1>6. CASE AddNext(r)
  BY <1>6 DEF AddNext
<1>7. CASE CheckUID(r) \/ Credential(r) \/ AddFails(r) \/ AddsDone(r)
  BY <1>7 DEF CheckUID, Credential, AddFails, AddsDone
<1>8. CASE Select(r)
  BY <1>8 DEF Select
<1>9. CASE Prompt(r)
  BY <1>9 DEF Prompt
<1>10. CASE Answer(r) \/ ChecksDone(r)
  BY <1>10 DEF Answer, ChecksDone
<1>11. CASE Check(r)
  BY <1>11 DEF Check
<1>12. CASE WriteManifest(r)
  BY <1>12 DEF WriteManifest
<1> QED
  BY <1>1, <1>2, <1>3, <1>4, <1>5, <1>6, <1>7, <1>8, <1>9, <1>10, <1>11, <1>12 DEF RunStep

LEMMA Unmoved ==
  ASSUME NEW s \in Runs, RunInv(s), SameFor(s),
         (met'[s] = met[s] /\ live' = live) \/ met[s] \cup live' \subseteq met'[s],
         manifest' = manifest \/ ~(Working(s) /\ ~dry[s])
  PROVE  RunInv(s)'
<1>1. Searched(s)' /\ Downloading(s)'
  BY DEF SameFor, RunInv, Searched, Downloading, RefsAt
<1>4. Loaded(s)'
  <2>1. RefsAt(s, cur[s])' = RefsAt(s, cur[s])
    BY DEF SameFor, RefsAt
  <2> QED
    BY <2>1 DEF SameFor, RunInv, Loaded
<1>2. Chosen(s)' /\ Confirmed(s)'
  BY DEF SameFor, RunInv, Chosen, Confirmed
<1>3. Copied(s)'
  BY DEF SameFor, RunInv, Copied, Working
<1> QED
  BY <1>1, <1>2, <1>3, <1>4 DEF RunInv

\* A step of one run does not disturb what another one has.
LEMMA OthersKeepTheirs ==
  ASSUME TypeOK, OneWriter, NEW r \in Runs, NEW s \in Runs, s # r, RunStep(r), RunInv(s)
  PROVE  RunInv(s)'
<1>1. SameFor(s) /\ met'[s] = met[s] /\ live' = live
  BY Frame
<1>2. manifest' = manifest \/ ~(Working(s) /\ ~dry[s])
  BY OneManifestStep DEF OneWriter, Working
<1> QED
  BY <1>1, <1>2, Unmoved

LEMMA IInvInit == Init => IInv
<1> SUFFICES ASSUME Init  PROVE IInv
  OBVIOUS
<1>1. TypeOK
  BY TypeInit
<1>2. OneWriter
  BY RenewAssumption DEF Init, OneWriter, Working
<1>3. ASSUME NEW r \in Runs  PROVE RunInv(r)
  BY DEF Init, RunInv, Searched, Downloading, Loaded, Chosen, Confirmed, Copied, Working, Empty
<1> QED
  BY <1>1, <1>2, <1>3 DEF IInv

LEMMA IInvNext == IInv /\ [Next]_vars => IInv'
<1> SUFFICES ASSUME IInv, [Next]_vars  PROVE IInv'
  OBVIOUS
<1>t. TypeOK /\ OneWriter /\ \A r \in Runs : RunInv(r)
  BY DEF IInv
<1>u. TypeOK' /\ OneWriter'
  BY <1>t, TypeNext, OneWriterNext
<1> USE DEF outside, plan, loading
<1>1. ASSUME NEW r \in Runs, RunStep(r), NEW s \in Runs  PROVE RunInv(s)'
  <2>1. CASE s = r
    BY <1>1, <1>t, <2>1, SearchedNext, DownloadingNext, LoadedNext, ChosenNext,
       ConfirmedNext, CopiedNext DEF RunInv
  <2>2. CASE s # r
    BY <1>1, <1>t, <2>2, OthersKeepTheirs
  <2> QED
    BY <2>1, <2>2
<1>2. ASSUME NEW r \in Runs, Cancel(r), NEW s \in Runs  PROVE RunInv(s)'
  <2>1. SameFor(s) /\ met'[s] = met[s] /\ live' = live /\ manifest' = manifest
    BY <1>2 DEF Cancel, SameFor
  <2> QED
    BY <1>t, <2>1, Unmoved
<1>3. ASSUME NEW r \in Runs, Kill(r), NEW s \in Runs  PROVE RunInv(s)'
  <2>1. CASE s # r
    <3>1. SameFor(s) /\ met'[s] = met[s] /\ live' = live /\ manifest' = manifest
      BY <1>3, <1>t, <2>1, Domains DEF Kill, SameFor
    <3> QED
      BY <1>t, <3>1, Unmoved
  <2>2. CASE s = r
    <3>1. /\ pc'[s] = "killed" /\ UNCHANGED <<scope, refs, complete, missing, hashes>>
      BY <1>3, <1>t, <2>2, Domains DEF Kill
    <3>2. Searched(s)' /\ Downloading(s)' /\ Loaded(s)'
      BY <1>t, <3>1 DEF RunInv, Searched, Downloading, Loaded, RefsAt
    <3>3. Chosen(s)' /\ Confirmed(s)' /\ Copied(s)'
      BY <1>t, <3>1 DEF RunInv, Chosen, Confirmed, Copied, Working
    <3> QED
      BY <3>2, <3>3 DEF RunInv
  <2> QED
    BY <2>1, <2>2
<1>4. ASSUME RemoveStaleLock \/ (\E p \in Paths : Edit(p)) \/ UNCHANGED vars, NEW s \in Runs
      PROVE  RunInv(s)'
  <2>1. SameFor(s) /\ met'[s] = met[s] /\ live' = live /\ manifest' = manifest
    BY <1>4 DEF RemoveStaleLock, Edit, vars, SameFor
  <2> QED
    BY <1>t, <2>1, Unmoved
<1>5. ASSUME NEW v \in Refs, Churn(v), NEW s \in Runs  PROVE RunInv(s)'
  <2>1. SameFor(s) /\ manifest' = manifest
    BY <1>5 DEF Churn, SameFor
  <2>2. CASE pc[s] \in {"credential", "publish"}
    <3>1. met[s] \cup live' \subseteq met'[s]
      BY <1>5, <2>2 DEF Churn
    <3> QED
      BY <1>t, <2>1, <3>1, Unmoved
  <2>3. CASE pc[s] \notin {"credential", "publish"}
    <3>1. Loaded(s)'
      BY <2>1, <2>3 DEF SameFor, Loaded
    <3>2. Searched(s)' /\ Downloading(s)'
      <4>1. \A p : RefsAt(s, p)' = RefsAt(s, p)
        BY <2>1 DEF SameFor, RefsAt
      <4> QED
        BY <1>t, <2>1, <4>1 DEF SameFor, RunInv, Searched, Downloading
    <3>3. Chosen(s)' /\ Confirmed(s)' /\ Copied(s)'
      BY <1>t, <2>1 DEF SameFor, RunInv, Chosen, Confirmed, Copied, Working
    <3> QED
      BY <3>1, <3>2, <3>3 DEF RunInv
  <2> QED
    BY <2>2, <2>3
<1> QED
  BY <1>u, <1>1, <1>2, <1>3, <1>4, <1>5 DEF Next, IInv

LEMMA RenewInvariant == Spec => []IInv
  BY IInvInit, IInvNext, PTL DEF Spec

(***************************************************************************)
(* The files.                                                              *)
(***************************************************************************)
\* Only the publication of a new file and a removal change a file.
LEMMA TwoFileSteps ==
  ASSUME TypeOK, NEW r \in Runs, RunStep(r), file' # file
  PROVE  \/ Publish(r)
         \/ /\ Remove(r) /\ pc[r] = "remove" /\ file[cur[r]] # None
            /\ file' = [file EXCEPT ![cur[r]] = None]
  BY DEF RunStep, Start, ReadManifest, ReadInventory, ListFiles, AddNext, CheckUID, Credential,
         AddFails, AddsDone, Select, Prompt, Answer, Check, Remove, ChecksDone, WriteManifest, outside, plan, loading

\* Existing files are never overwritten: what a run finds at a path, whenever it
\* appeared there, is kept or removed, never replaced.
THEOREM RenewNeverOverwrites == Spec => NeverOverwrites
<1>1. ASSUME TypeOK, NEW r \in Runs, RunStep(r), NEW p \in Paths, file[p] # None
      PROVE  file'[p] \in {file[p], None}
  <2>1. DOMAIN file = Paths
    BY <1>1, Domains
  <2>2. CASE file' = file
    BY <2>2
  <2>3. CASE Publish(r)
    BY <1>1, <2>1, <2>3 DEF Publish, CanLink
  <2>4. CASE file' = [file EXCEPT ![cur[r]] = None]
    BY <1>1, <2>1, <2>4
  <2> QED
    BY <1>1, <2>2, <2>3, <2>4, TwoFileSteps
<1>2. TypeOK => \A r \in Runs : RunStep(r) =>
                  \A p \in Paths : file[p] # None => file'[p] \in {file[p], None}
  BY <1>1
<1> QED
  BY <1>2, RenewTypes, PTL DEF NeverOverwrites

\* A file disappears only at the hand of a run that is not dry, that was
\* confirmed, whose inventory was complete, and that saw no VC for the file in an
\* environment it selected.
THEOREM RenewRemovalsAreJustified == Spec => RemovalsAreJustified
<1>1. ASSUME IInv, NEW r \in Runs, NEW p \in Paths, RunStep(r), file[p] # None, file'[p] = None
      PROVE  /\ ~dry[r] /\ answered[r] # Empty
             /\ complete[r] /\ RefsAt(r, p) = {} /\ EnvOf[p] \in scope[r]
  <2>1. TypeOK /\ RunInv(r)
    BY <1>1 DEF IInv
  <2>2. DOMAIN file = Paths
    BY <2>1, Domains
  <2>3. ~Publish(r)
    <3>1. SUFFICES ASSUME Publish(r)  PROVE FALSE
      OBVIOUS
    <3>2. file' = [file EXCEPT ![cur[r]] = config[r]] /\ pc[r] = "publish"
      BY <3>1 DEF Publish
    <3>3. config[r] # None
      BY <2>1, <3>2, RenewAssumption DEF TypeOK, RunInv, Loaded
    <3> QED
      BY <1>1, <2>2, <3>2, <3>3
  <2>4. pc[r] = "remove" /\ file' = [file EXCEPT ![cur[r]] = None]
    BY <1>1, <2>1, <2>3, TwoFileSteps
  <2>5. p = cur[r]
    BY <1>1, <2>2, <2>4
  <2>6. ~dry[r] /\ answered[r] # Empty /\ p \in DOMAIN hashes[r]
    BY <2>1, <2>4, <2>5 DEF RunInv, Confirmed
  <2> QED
    BY <2>1, <2>6 DEF RunInv, Chosen, Searched
<1>2. IInv => \A r \in Runs, p \in Paths : RunStep(r) /\ file[p] # None /\ file'[p] = None =>
                /\ ~dry[r] /\ answered[r] # Empty
                /\ complete[r] /\ RefsAt(r, p) = {} /\ EnvOf[p] \in scope[r]
  BY <1>1
<1> QED
  BY <1>2, RenewInvariant, PTL DEF RemovalsAreJustified

\* What goes to removal was confirmed, has the content it was selected with, and
\* the run was not cancelled when it checked.
THEOREM RenewRemovedAsConfirmed == Spec => RemovedAsConfirmed
<1>1. ASSUME IInv, [Next]_vars, NEW r \in Runs, pc[r] # "remove", pc'[r] = "remove"
      PROVE  /\ answered[r] # Empty /\ ~cancelled[r]
             /\ file[cur'[r]] = hashes[r][cur'[r]]
  <2>1. TypeOK /\ RunInv(r)
    BY <1>1 DEF IInv
  <2>2. RunStep(r)
    <3>1. ASSUME NEW s \in Runs, RunStep(s), s # r  PROVE FALSE
      BY <1>1, <2>1, <3>1, Frame DEF SameFor
    <3>2. ~(\E s \in Runs : Cancel(s)) /\ ~RemoveStaleLock /\ ~(UNCHANGED vars)
      BY <1>1 DEF Cancel, RemoveStaleLock, vars
    <3>3. ~(\E p \in Paths : Edit(p)) /\ ~(\E v \in Refs : Churn(v))
      BY <1>1 DEF Edit, Churn
    <3>4. ASSUME NEW s \in Runs, Kill(s)  PROVE FALSE
      BY <1>1, <2>1, <3>4, Domains DEF Kill
    <3> QED
      BY <1>1, <3>1, <3>2, <3>3, <3>4 DEF Next
  <2>3. Check(r)
    <3> USE <1>1, <2>1, Domains DEF Leave
    <3>1. ~Start(r) /\ ~ReadManifest(r) /\ ~ReadInventory(r) /\ ~ListFiles(r)
      BY DEF Start, ReadManifest, ReadInventory, ListFiles
    <3>2. ~AddNext(r) /\ ~CheckUID(r) /\ ~Credential(r) /\ ~Publish(r) /\ ~AddFails(r) /\ ~AddsDone(r)
      BY DEF AddNext, CheckUID, Credential, Publish, AddFails, AddsDone
    <3>3. ~Select(r) /\ ~Prompt(r) /\ ~Answer(r)
      BY DEF Select, Prompt, Answer
    <3>4. ~Remove(r) /\ ~ChecksDone(r) /\ ~WriteManifest(r)
      BY DEF Remove, ChecksDone, WriteManifest
    <3> QED
      BY <2>2, <3>1, <3>2, <3>3, <3>4 DEF RunStep
  <2>4. answered[r] # Empty
    BY <2>1, <2>3 DEF Check, RunInv, Confirmed
  <2>5. ~Stopped(r)
    BY <1>1, <2>1, <2>3, Domains DEF Check, Leave
  <2>6. PICK p \in todo[r] : StillAsSelected(r, p) /\ cur' = [cur EXCEPT ![r] = p]
    BY <1>1, <2>3, <2>5 DEF Check
  <2> QED
    BY <2>1, <2>4, <2>5, <2>6, Domains DEF Stopped, StillAsSelected
<1>2. IInv /\ [Next]_vars => \A r \in Runs : pc[r] # "remove" /\ pc'[r] = "remove" =>
                /\ answered[r] # Empty /\ ~cancelled[r]
                /\ file[cur'[r]] = hashes[r][cur'[r]]
  BY <1>1
<1> QED
  BY <1>2, RenewInvariant, PTL DEF Spec, RemovedAsConfirmed

\* What a run writes to a path is the credential of the only VC of its inventory
\* that claims the path, or of a VC that took its name after the UID check.
THEOREM RenewAddedFilesAreUnambiguous == Spec => AddedFilesAreUnambiguous
<1> DEFINE v(r) == entries'[r][cur[r]]
           w(r) == file'[cur[r]]
           Named(r) == /\ RefsAt(r, cur[r]) = {v(r)}
                       /\ {v(r), w(r)} \subseteq met[r] /\ AddressOf[w(r)] = AddressOf[v(r)]
<1>1. ASSUME IInv, NEW r \in Runs, RunStep(r), added'[r] # added[r]
      PROVE  Named(r)
  <2>1. TypeOK /\ Downloading(r) /\ Loaded(r)
    BY <1>1 DEF IInv, RunInv
  <2>2. Publish(r)
    BY <1>1 DEF RunStep, Start, ReadManifest, ReadInventory, ListFiles, AddNext, CheckUID,
                Credential, AddFails, AddsDone, Select, Prompt, Answer, Check, Remove, ChecksDone,
                WriteManifest, outside, plan, loading
  <2>3. PICK u \in RefsAt(r, cur[r]) :
          /\ file' = [file EXCEPT ![cur[r]] = config[r]]
          /\ entries' = [entries EXCEPT ![r] = Put(@, cur[r], u)]
    BY <2>2 DEF Publish
  <2>4. pc[r] = "publish" /\ cur[r] \in Paths
    BY <2>1, <2>2 DEF Publish, Downloading
  <2>5. w(r) = config[r]
    BY <2>1, <2>3, <2>4, Domains
  <2>6. v(r) = u
    BY <2>1, <2>3, Domains DEF Put
  <2>7. RefsAt(r, cur[r]) = {u}
    BY <2>1, <2>3, <2>4, OneRef
  <2> QED
    BY <2>1, <2>4, <2>5, <2>6, <2>7 DEF Loaded
<1>2. IInv => \A r \in Runs : RunStep(r) /\ added'[r] # added[r] => Named(r)
  BY <1>1
<1> QED
  BY <1>2, RenewInvariant, PTL DEF AddedFilesAreUnambiguous

\* No run loses another one's entries: the manifest it writes differs from the
\* one it replaces only at the files it added and removed itself.
THEOREM RenewManifestKeepsTheRest == Spec => ManifestKeepsTheRest
<1>1. ASSUME IInv  PROVE \A r \in Runs :
        RunStep(r) /\ manifest' # manifest /\ manifest # None =>
          \A p \in Paths \ (added[r] \cup removed[r]) :
            /\ (p \in DOMAIN manifest) <=> (p \in DOMAIN manifest')
            /\ p \in DOMAIN manifest => manifest'[p] = manifest[p]
  <2> TAKE r \in Runs
  <2> HAVE RunStep(r) /\ manifest' # manifest /\ manifest # None
  <2>1. TypeOK /\ Copied(r)
    BY <1>1 DEF IInv, RunInv
  <2>2. pc[r] = "write" /\ ~dry[r] /\ manifest' = entries[r]
    BY <2>1, OneManifestStep
  <2> QED
    BY <2>1, <2>2 DEF Copied, Working
<1> QED
  BY <1>1, RenewInvariant, PTL DEF ManifestKeepsTheRest
=============================================================================
