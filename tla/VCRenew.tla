------------------------------ MODULE VCRenew ------------------------------
(***************************************************************************)
(* rayctl vc renew (internal/service/vc_renew.go): runs that synchronize   *)
(* the kubeconfig files below one output root with the VCs the platform    *)
(* lists.  Several runs may be started on the same root; the user edits    *)
(* the files, VCs come and go on the platform, a run is cancelled with     *)
(* Ctrl-C or killed, all of it between any two steps of a run.             *)
(*                                                                         *)
(* A VC reference stands for its UID, scope and credential: a kubeconfig   *)
(* with the credential of ref has the content ref.  Contents are compared  *)
(* by their SHA-256 in the code; here a content is its own hash.  What is  *)
(* asked of a VC is asked at its address, which has its scope and its name *)
(* but not its UID: a VC of the same name may have taken its place.        *)
(***************************************************************************)
EXTENDS Naturals, FiniteSets

CONSTANTS
  Runs,         \* executions of the command
  Envs,         \* the platform environments d, pt and dcloud
  Paths,        \* the possible vc-* files below the output root
  Refs,         \* VC references (one per platform UID)
  Written,      \* contents a user writes into a file
  Odd,          \* what is not a regular file: a symlink, a directory
  None,         \* no file, no lock, no manifest, no path
  Broken,       \* a manifest that is invalid JSON or null
  Unsafe,       \* the path of a reference with an unsafe name
  EnvOf,        \* the environment directory of a path
  PathOf,       \* renewPath: the file of a reference, or Unsafe
  AddressOf,    \* vcCredentialBase: where a reference is asked for
  Scopes,       \* the environments an -e option selects
  MaxEdits,     \* bound on the changes users make
  MaxChurn      \* bound on the changes of the platform

ASSUME RenewAssumption ==
  /\ EnvOf \in [Paths -> Envs]
  /\ PathOf \in [Refs -> Paths \cup {Unsafe}]
  /\ \A v, w \in Refs : AddressOf[v] = AddressOf[w] => PathOf[v] = PathOf[w]
  /\ Scopes \subseteq SUBSET Envs /\ IsFiniteSet(Refs)
  /\ MaxEdits \in Nat /\ MaxChurn \in Nat
  /\ Unsafe \notin Paths /\ None \notin Paths \cup Runs
  /\ {None, Odd} \cap (Refs \cup Written) = {} /\ None # Odd

VARIABLES
  file,       \* the content at each path
  lock,       \* the run whose lock file exists
  manifest,   \* .rayctl-vc-renew.json: path -> reference (the hash that is
              \* written beside it is never read)
  live,       \* the VCs the platform has
  edits, churn,
  pc, cancelled,
  scope, dry, \* the options of a run
  entries,    \* its copy of the manifest
  refs,       \* the inventory it received
  complete,   \* inventoryComplete
  missing,    \* missingPaths
  todo, cur,  \* the rest of the loop it is in, and the path it works on
  config,     \* the kubeconfig it has downloaded
  hashes,     \* removalHashes: candidate -> content when it was selected
  added, removed,
  answered,   \* the files as they were when the user answered (observer)
  met         \* the VCs there were at its UID check or since (observer)

outside == <<file, lock, manifest, live, edits, churn>>
plan == <<scope, dry, refs, complete, missing>>
loading == <<config, met>>
vars == <<outside, plan, loading, pc, cancelled, entries, todo, cur, hashes,
          added, removed, answered>>

Contents == Refs \cup Written
Empty == [p \in {} |-> None]
Partial(S, T) == UNION {[D -> T] : D \in SUBSET S}
Put(f, p, x) == [q \in DOMAIN f \cup {p} |-> IF q = p THEN x ELSE f[q]]
Drop(f, p) == [q \in DOMAIN f \ {p} |-> f[q]]

\* The references the inventory gave a path.
RefsAt(r, p) == {v \in refs[r] : PathOf[v] = p}

\* A name is used by one VC at a time.
Apart(S) == \A v, w \in S : AddressOf[v] = AddressOf[w] => v = w

\* From the lock to its deferred removal.
Working(r) == pc[r] \in {"manifest", "inventory", "list", "add", "download",
                         "credential", "publish", "select", "prompt", "confirm", "check", "remove",
                         "write"}

Init ==
  /\ file \in [Paths -> {None, Odd} \cup Written]
  /\ lock = None
  /\ manifest \in {None, Broken}
  /\ live \in {S \in SUBSET Refs : Apart(S)}
  /\ edits \in 0 .. MaxEdits /\ churn \in 0 .. MaxChurn
  /\ pc \in [Runs -> {"idle", "done"}]   \* some may be over
  /\ cancelled = [r \in Runs |-> FALSE]
  /\ scope \in [Runs -> Scopes]
  /\ dry \in [Runs -> BOOLEAN]
  /\ entries = [r \in Runs |-> Empty]
  /\ refs = [r \in Runs |-> {}]
  /\ complete = [r \in Runs |-> FALSE]
  /\ missing = [r \in Runs |-> {}]
  /\ todo = [r \in Runs |-> {}]
  /\ cur = [r \in Runs |-> None]
  /\ config = [r \in Runs |-> None]
  /\ hashes = [r \in Runs |-> Empty]
  /\ added = [r \in Runs |-> {}]
  /\ removed = [r \in Runs |-> {}]
  /\ answered = [r \in Runs |-> Empty]
  /\ met = [r \in Runs |-> {}]
-----------------------------------------------------------------------------
(***************************************************************************)
(* Start and end of a run.                                                 *)
(***************************************************************************)
\* Leave(r, l): run r returns; its deferred calls remove the lock it took.
LeaveLocked(r, l) ==                          \* mutant: without the defer
  /\ pc' = [pc EXCEPT ![r] = "done"]
  /\ lock' = l
Leave(r, l) ==
  /\ pc' = [pc EXCEPT ![r] = "done"]
  /\ lock' = IF l = r THEN None ELSE l

\* O_CREATE|O_EXCL: a lock file that exists refuses the run.
LockIgnored == TRUE                           \* mutant: without O_EXCL
LockFree == lock = None

Start(r) ==
  /\ pc[r] = "idle"
  /\ CASE cancelled[r] -> Leave(r, lock)
       [] ~cancelled[r] /\ dry[r] ->
            /\ pc' = [pc EXCEPT ![r] = "manifest"]
            /\ UNCHANGED lock
       [] ~cancelled[r] /\ ~dry[r] /\ LockFree ->
            /\ pc' = [pc EXCEPT ![r] = "manifest"]
            /\ lock' = r
       [] ~cancelled[r] /\ ~dry[r] /\ ~LockFree -> Leave(r, lock)
  /\ UNCHANGED <<file, manifest, live, edits, churn, plan, loading, cancelled,
                 entries, todo, cur, hashes, added, removed, answered>>

\* A manifest that cannot be read refuses the run before it changes anything.
ReadManifest(r) ==
  /\ pc[r] = "manifest"
  /\ IF manifest = Broken
       THEN /\ Leave(r, lock)
            /\ UNCHANGED entries
       ELSE /\ pc' = [pc EXCEPT ![r] = "inventory"]
            /\ entries' = [entries EXCEPT
                             ![r] = IF manifest = None THEN Empty ELSE manifest]
            /\ UNCHANGED lock
  /\ UNCHANGED <<file, manifest, live, edits, churn, plan, loading, cancelled,
                 todo, cur, hashes, added, removed, answered>>

(***************************************************************************)
(* VCKubeconfigInventory: the VCs of the selected environments; a profile  *)
(* that fails, or a reference without a safe path, leaves the inventory    *)
(* incomplete.  A cancelled run only collects failures.                    *)
(***************************************************************************)
InScope(r) ==
  {v \in live : PathOf[v] = Unsafe \/ EnvOf[PathOf[v]] \in scope[r]}

Complete(r, got, ok) == ok /\ \A v \in got : PathOf[v] # Unsafe

ReadInventory(r) ==
  /\ pc[r] = "inventory"
  /\ \E got \in SUBSET InScope(r), ok \in BOOLEAN :
       /\ ok => got = InScope(r)
       /\ cancelled[r] => ~ok /\ got = {}
       /\ refs' = [refs EXCEPT ![r] = {v \in got : PathOf[v] # Unsafe}]
       /\ complete' = [complete EXCEPT ![r] = Complete(r, got, ok)]
  /\ pc' = [pc EXCEPT ![r] = "list"]
  /\ UNCHANGED <<outside, scope, dry, missing, loading, cancelled, entries,
                 todo, cur, hashes, added, removed, answered>>

\* The vc-* files without a reference in the selected directories; a directory
\* that is a symlink or cannot be read contributes nothing.
Selected(r) == scope[r]

ListFiles(r) ==
  /\ pc[r] = "list"
  /\ \E readable \in SUBSET Selected(r) :
       missing' = [missing EXCEPT
         ![r] = {p \in Paths : /\ file[p] # None
                               /\ EnvOf[p] \in readable
                               /\ RefsAt(r, p) = {}}]
  /\ todo' = [todo EXCEPT ![r] = {PathOf[v] : v \in refs[r]}]
  /\ pc' = [pc EXCEPT ![r] = "add"]
  /\ UNCHANGED <<outside, scope, dry, refs, complete, loading, cancelled,
                 entries, cur, hashes, added, removed, answered>>
-----------------------------------------------------------------------------
(***************************************************************************)
(* Additions: one loop iteration per path of the inventory.  The code      *)
(* visits the paths in sorted order; no property depends on the order.     *)
(***************************************************************************)
Ambiguous(r, p) == Cardinality(RefsAt(r, p)) # 1

AddNext(r) ==
  /\ pc[r] = "add" /\ todo[r] # {}
  /\ IF cancelled[r]
       THEN /\ Leave(r, lock)
            /\ UNCHANGED <<todo, cur>>
       ELSE \E p \in todo[r] :
              /\ todo' = [todo EXCEPT ![r] = @ \ {p}]
              /\ UNCHANGED lock
              /\ IF file[p] # None \/ Ambiguous(r, p) \/ dry[r]
                   THEN UNCHANGED <<pc, cur>>
                   ELSE /\ pc' = [pc EXCEPT ![r] = "download"]
                        /\ cur' = [cur EXCEPT ![r] = p]
  /\ UNCHANGED <<file, manifest, live, edits, churn, plan, loading, cancelled,
                 entries, hashes, added, removed, answered>>

\* createRenewFile: os.Link fails when the path exists by now.
CanReplace(p) == file[p] # Odd                \* mutant: os.Rename
CanLink(p) == file[p] = None

\* DownloadVCKubeconfig asks for the VC's details: it still has the UID of the
\* inventory.
Answers(v) == \E w \in live : AddressOf[w] = AddressOf[v]   \* mutant: any UID
SameUID(v) == v \in live

CheckUID(r) ==
  /\ pc[r] = "download" /\ ~cancelled[r]
  /\ \E v \in RefsAt(r, cur[r]) : SameUID(v)
  /\ pc' = [pc EXCEPT ![r] = "credential"]
  /\ met' = [met EXCEPT ![r] = live]
  /\ UNCHANGED <<outside, plan, config, cancelled, entries, todo, cur, hashes,
                 added, removed, answered>>

\* The list of credentials, and a valid one of them: requests of their own, at
\* the same address.  Who is there when the last one is served gives the
\* credential (one that came between the two does not know what was listed).
Credential(r) ==
  /\ pc[r] = "credential" /\ ~cancelled[r]
  /\ \E v \in RefsAt(r, cur[r]), w \in live :
       /\ AddressOf[w] = AddressOf[v]
       /\ config' = [config EXCEPT ![r] = w]
  /\ pc' = [pc EXCEPT ![r] = "publish"]
  /\ UNCHANGED <<outside, plan, met, cancelled, entries, todo, cur, hashes,
                 added, removed, answered>>

\* The link, after a validation that asks neither the platform nor the context:
\* the VC may be gone by now, and the run cancelled.
Publish(r) ==
  /\ pc[r] = "publish"
  /\ \E v \in RefsAt(r, cur[r]) :
       /\ CanLink(cur[r])
       /\ file' = [file EXCEPT ![cur[r]] = config[r]]
       /\ entries' = [entries EXCEPT ![r] = Put(@, cur[r], v)]
       /\ added' = [added EXCEPT ![r] = @ \cup {cur[r]}]
  /\ pc' = [pc EXCEPT ![r] = "add"]
  /\ cur' = [cur EXCEPT ![r] = None]
  /\ config' = [config EXCEPT ![r] = None]
  /\ met' = [met EXCEPT ![r] = {}]
  /\ UNCHANGED <<lock, manifest, live, edits, churn, plan, cancelled, todo,
                 hashes, removed, answered>>

\* A request, the validation, the directory or the link fails.
AddFails(r) ==
  /\ pc[r] \in {"download", "credential", "publish"}
  /\ pc' = [pc EXCEPT ![r] = "add"]
  /\ cur' = [cur EXCEPT ![r] = None]
  /\ config' = [config EXCEPT ![r] = None]
  /\ met' = [met EXCEPT ![r] = {}]
  /\ UNCHANGED <<outside, plan, cancelled, entries, todo, hashes, added,
                 removed, answered>>
-----------------------------------------------------------------------------
(***************************************************************************)
(* Cleanup: select the candidates, ask, check each one again, remove it.   *)
(***************************************************************************)
AddsDone(r) ==
  /\ pc[r] = "add" /\ todo[r] = {}
  /\ pc' = [pc EXCEPT ![r] = "select"]
  /\ todo' = [todo EXCEPT ![r] = missing[r]]
  /\ UNCHANGED <<outside, plan, loading, cancelled, entries, cur, hashes,
                 added, removed, answered>>

\* Only a complete inventory makes candidates, only regular files are some; a
\* file may be unreadable.
CandidateAnyway(r, p) == file[p] \in Contents \* mutant: complete not asked
Candidate(r, p) == complete[r] /\ file[p] \in Contents

Select(r) ==
  /\ pc[r] = "select"
  /\ \E p \in todo[r] :
       /\ todo' = [todo EXCEPT ![r] = @ \ {p}]
       /\ \/ /\ Candidate(r, p)
             /\ hashes' = [hashes EXCEPT ![r] = Put(@, p, file[p])]
          \/ UNCHANGED hashes
  /\ UNCHANGED <<outside, plan, loading, pc, cancelled, entries, cur, added,
                 removed, answered>>

Prompt(r) ==
  /\ pc[r] = "select" /\ todo[r] = {}
  /\ IF cancelled[r]
       THEN Leave(r, lock)
       ELSE /\ pc' = [pc EXCEPT
                        ![r] = IF dry[r] \/ DOMAIN hashes[r] = {}
                                 THEN "write" ELSE "confirm"]
            /\ UNCHANGED lock
  /\ UNCHANGED <<file, manifest, live, edits, churn, plan, loading, cancelled,
                 entries, todo, cur, hashes, added, removed, answered>>

\* The user answers, however long the question has been on the screen.
Answer(r) ==
  /\ pc[r] = "confirm"
  /\ \E yes \in BOOLEAN :
       /\ pc' = [pc EXCEPT ![r] = IF yes THEN "check" ELSE "write"]
       /\ todo' = [todo EXCEPT ![r] = IF yes THEN DOMAIN hashes[r] ELSE {}]
  /\ answered' = [answered EXCEPT ![r] = file]
  /\ UNCHANGED <<outside, plan, loading, cancelled, entries, cur, hashes,
                 added, removed>>

\* The check before each removal: the run is not cancelled, the file is regular
\* and has the content it had when it was selected.
StillThere(r, p) == file[p] \in Contents      \* mutant: hash not compared
StillAsSelected(r, p) == file[p] = hashes[r][p]

Stopped(r) == cancelled[r]

Check(r) ==
  /\ pc[r] = "check" /\ todo[r] # {}
  /\ IF Stopped(r)
       THEN /\ Leave(r, lock)
            /\ UNCHANGED <<todo, cur>>
       ELSE \E p \in todo[r] :
              /\ todo' = [todo EXCEPT ![r] = @ \ {p}]
              /\ UNCHANGED lock
              /\ \/ /\ StillAsSelected(r, p)
                    /\ pc' = [pc EXCEPT ![r] = "remove"]
                    /\ cur' = [cur EXCEPT ![r] = p]
                 \/ UNCHANGED <<pc, cur>>     \* changed, or not readable
  /\ UNCHANGED <<file, manifest, live, edits, churn, plan, loading, cancelled,
                 entries, hashes, added, removed, answered>>

\* os.Remove; it fails when the file is gone or is now a full directory.
Remove(r) ==
  /\ pc[r] = "remove"
  /\ \/ /\ file[cur[r]] # None
        /\ file' = [file EXCEPT ![cur[r]] = None]
        /\ entries' = [entries EXCEPT ![r] = Drop(@, cur[r])]
        /\ removed' = [removed EXCEPT ![r] = @ \cup {cur[r]}]
     \/ UNCHANGED <<file, entries, removed>>
  /\ pc' = [pc EXCEPT ![r] = "check"]
  /\ cur' = [cur EXCEPT ![r] = None]
  /\ UNCHANGED <<lock, manifest, live, edits, churn, plan, loading, cancelled,
                 todo, hashes, added, answered>>

ChecksDone(r) ==
  /\ pc[r] = "check" /\ todo[r] = {}
  /\ pc' = [pc EXCEPT ![r] = "write"]
  /\ UNCHANGED <<outside, plan, loading, cancelled, entries, todo, cur, hashes,
                 added, removed, answered>>

\* The manifest is replaced by a rename, unless this is a dry run, the run was
\* cancelled or a write failed.
Writes(r) == ~dry[r]

WriteManifest(r) ==
  /\ pc[r] = "write"
  /\ \/ /\ Writes(r) /\ ~cancelled[r]
        /\ manifest' = entries[r]
     \/ UNCHANGED manifest
  /\ Leave(r, lock)
  /\ UNCHANGED <<file, live, edits, churn, plan, loading, cancelled, entries,
                 todo, cur, hashes, added, removed, answered>>
-----------------------------------------------------------------------------
(***************************************************************************)
(* Around the runs.                                                        *)
(***************************************************************************)
\* Ctrl-C: main.go cancels the context the command runs with.
Cancel(r) ==
  /\ pc[r] # "done" /\ pc[r] # "killed" /\ ~cancelled[r]
  /\ cancelled' = [cancelled EXCEPT ![r] = TRUE]
  /\ UNCHANGED <<outside, plan, loading, pc, entries, todo, cur, hashes, added,
                 removed, answered>>

\* SIGKILL: no deferred call runs, a lock stays behind.
Kill(r) ==
  /\ Working(r)
  /\ pc' = [pc EXCEPT ![r] = "killed"]
  /\ UNCHANGED <<outside, plan, loading, cancelled, entries, todo, cur, hashes,
                 added, removed, answered>>

\* docs/vc-renew.md: a user removes a stale lock when no renewal remains.
RemoveStaleLock ==
  /\ lock # None
  /\ \A r \in Runs : ~dry[r] => ~Working(r)
  /\ lock' = None
  /\ UNCHANGED <<file, manifest, live, edits, churn, plan, loading, pc,
                 cancelled, entries, todo, cur, hashes, added, removed,
                 answered>>

Edit(p) ==
  /\ edits < MaxEdits
  /\ \E c \in Written \cup {None, Odd} :
       /\ c # file[p]
       /\ file' = [file EXCEPT ![p] = c]
  /\ edits' = edits + 1
  /\ UNCHANGED <<lock, manifest, live, churn, plan, loading, pc, cancelled,
                 entries, todo, cur, hashes, added, removed, answered>>

\* A VC is deleted on the platform, or created, perhaps in the place of one of
\* its name.
Churn(v) ==
  /\ churn < MaxChurn
  /\ live' = IF v \in live THEN live \ {v}
             ELSE {w \in live : AddressOf[w] # AddressOf[v]} \cup {v}
  /\ churn' = churn + 1
  /\ met' = [r \in Runs |-> IF pc[r] \in {"credential", "publish"}
                              THEN met[r] \cup live' ELSE met[r]]
  /\ UNCHANGED <<file, lock, manifest, edits, plan, config, pc, cancelled,
                 entries, todo, cur, hashes, added, removed, answered>>

RunStep(r) ==
  \/ Start(r) \/ ReadManifest(r) \/ ReadInventory(r) \/ ListFiles(r)
  \/ AddNext(r) \/ CheckUID(r) \/ Credential(r) \/ Publish(r)
  \/ AddFails(r) \/ AddsDone(r)
  \/ Select(r) \/ Prompt(r) \/ Answer(r)
  \/ Check(r) \/ Remove(r) \/ ChecksDone(r) \/ WriteManifest(r)

Next ==
  \/ \E r \in Runs : RunStep(r) \/ Cancel(r) \/ Kill(r)
  \/ RemoveStaleLock
  \/ \E p \in Paths : Edit(p)
  \/ \E v \in Refs : Churn(v)

Spec == Init /\ [][Next]_vars
-----------------------------------------------------------------------------
\* At most one run that may write is at work, it is the one whose lock file
\* exists, and a lock outlives only a run that was killed, whatever way it left.
OneWriter ==
  /\ \A r \in Runs : Working(r) /\ ~dry[r] => lock = r
  /\ \A r \in Runs : lock = r => Working(r) \/ pc[r] = "killed"

\* "Existing files are never overwritten": whatever appears at a path between
\* the check and the publication, a run only removes files or adds new ones.
NeverOverwrites ==
  [][\A r \in Runs : RunStep(r) =>
       \A p \in Paths : file[p] # None => file'[p] \in {file[p], None}]_vars

\* A file is removed only by a run that was confirmed, whose inventory was
\* complete, and which saw no VC for the file in an environment it selected.
RemovalsAreJustified ==
  [][\A r \in Runs, p \in Paths :
       RunStep(r) /\ file[p] # None /\ file'[p] = None =>
         /\ ~dry[r] /\ answered[r] # Empty
         /\ complete[r] /\ RefsAt(r, p) = {} /\ EnvOf[p] \in scope[r]]_vars

\* A file changed while the question was on the screen is preserved: what goes
\* to removal was confirmed, and has the content it was selected with, however
\* often it was edited since the selection, the question and the answer.  After
\* Ctrl-C, at the question or between two files, at most the removal under way
\* still happens.
RemovedAsConfirmed ==
  [][\A r \in Runs : pc[r] # "remove" /\ pc'[r] = "remove" =>
       /\ answered[r] # Empty /\ ~cancelled[r]
       /\ file[cur'[r]] = hashes[r][cur'[r]]]_vars

\* The manifest a run writes differs from the one it replaces only in what that
\* run added and removed: no run loses another one's entries.
ManifestKeepsTheRest ==
  [][\A r \in Runs :
       RunStep(r) /\ manifest' # manifest /\ manifest # None =>
         \A p \in Paths \ (added[r] \cup removed[r]) :
           /\ (p \in DOMAIN manifest) <=> (p \in DOMAIN manifest')
           /\ p \in DOMAIN manifest => manifest'[p] = manifest[p]]_vars

\* The credential a run writes to a path, and the VC it enters in the manifest,
\* are those of the only VC of its inventory that claims the path, which had its
\* UID when it was asked: whatever happens between that check, the credential
\* and the link, the only other VC whose credential may be written is one that
\* took its name since the check.
AddedFilesAreUnambiguous ==
  [][\A r \in Runs : RunStep(r) /\ added'[r] # added[r] =>
       LET v == entries'[r][cur[r]]
           w == file'[cur[r]]
       IN  /\ RefsAt(r, cur[r]) = {v}
           /\ {v, w} \subseteq met[r] /\ AddressOf[w] = AddressOf[v]]_vars
=============================================================================
