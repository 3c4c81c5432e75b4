--------------------------- MODULE ProfileQueries ---------------------------
(***************************************************************************)
(* Questions that are put to several profiles (internal/platform: profile_ *)
(* inventory.go, resource_lookup_client.go, vc_client.go, ssp_client.go,   *)
(* ai_compute_node_client.go, ssp_node_client.go, ssp_queue_auth_client.   *)
(* go; internal/service: network_service.go, ecs_service.go): each profile *)
(* reads its own pages, some of them fail, and every operation has its own *)
(* rule for what it then says.  Profile 1 is the current one.              *)
(*                                                                         *)
(* What is asked for is one resource, or all of them; a profile has it on  *)
(* the first of its pages, on a later one, or not at all.                  *)
(***************************************************************************)
EXTENDS Naturals, FiniteSets

CONSTANT NProfiles

ASSUME NProfilesAssumption == NProfiles \in Nat \ {0}

Profiles == 1 .. NProfiles

VARIABLES
  query,      \* the operation
  elsewhere,  \* profiles of another environment
  place,      \* where a profile has it: 0 nowhere, 1 the first page, 2 a later one
  near,       \* where the name is a part of another's; or the question is a name
  question,   \* an operation asks once or twice
  asked,      \* how far each profile has been read
  unread,     \* observer: who was not read to the end the first time
  over,       \* the command's context
  said        \* the answer

queryVars == <<query, elsewhere, place, near, question, asked, unread, over, said>>

\* Lists of several pages, kept when a later page fails: those of VPCs, subnets,
\* NAT gateways and file systems are alike, and so are their gets.
Inventories == {"ListNetwork", "ListECS"}
Gets == {"GetNetwork"}

\* Lists that any profile's answer suffices for, and lists that none may miss.
Lenient == {"ListVirtualClusters", "ListStorageVolumes", "ListAIComputeNodes",
            "ResolveUsernames", "ListSSPClusters", "ListSSPQueueResources"}
Strict == {"ListSSPQueues", "FindSSPQueues", "ListSSPClustersForNodeUsage"}

Lookups == {"FindResourceByName", "FindResourceByUID", "FindStorageVolume",
            "FindExactVC", "FindVCResource", "FindAIComputeNodes",
            "FindSSPQueueResource", "FindQueueForAuth", "CheckECS"}

Queries == Inventories \cup Gets \cup Lenient \cup Strict \cup Lookups

\* currentEnvironmentProfiles; the others ask every profile there is.
EnvironmentWide ==
  Queries \ {"ListStorageVolumes", "ListAIComputeNodes", "ResolveUsernames",
             "FindResourceByName", "FindResourceByUID", "FindStorageVolume",
             "FindExactVC"}

Scope == IF query \in EnvironmentWide THEN Profiles \ elsewhere ELSE Profiles

\* One profile after the other; elsewhere all at once.
InTurn == Strict \cup {"ListSSPClusters", "FindResourceByUID", "FindAIComputeNodes",
                       "FindSSPQueueResource"}

\* The current profile is asked first, and the others only if it does not do.
CurrentFirst == {"FindVCResource", "FindQueueForAuth"}

\* One request, and no pages.
Single == {"FindSSPQueueResource", "FindVCResource", "ResolveUsernames",
           "FindSSPQueues"}

\* Pages that are asked for by the token of the page before; the others by number.
ByToken == {"ListNetwork", "ListStorageVolumes", "ListSSPQueueResources",
            "ListSSPClustersForNodeUsage", "FindResourceByName",
            "FindResourceByUID", "FindStorageVolume", "FindQueueForAuth"} \cup Gets

QueryInit ==
  /\ query \in Queries
  /\ elsewhere \in SUBSET ({NProfiles} \ {1})
  /\ query \notin EnvironmentWide => elsewhere = {}
  /\ place \in [Profiles -> 0 .. 2]
  /\ near \in (CASE query = "FindQueueForAuth" -> SUBSET {p \in Profiles : place[p] = 0}
                [] query = "FindStorageVolume" -> {{}, Profiles}
                [] OTHER -> {{}})
  /\ query \in Single => \A p \in Profiles : place[p] # 2
  /\ question = 1
  /\ asked = [p \in Profiles |-> "open"] /\ unread = {}
  /\ over = FALSE /\ said = "open"
-----------------------------------------------------------------------------
\* "part": a page was read and the next one failed; "cut": the server repeated a
\* token, which ends a list like its last page.
Failed == {p \in Scope : asked[p] \in {"part", "none"}}
Whole == {p \in Scope : asked[p] = "all"}
Seen == {p \in Scope : \/ asked[p] = "all" /\ place[p] > 0
                       \/ asked[p] \in {"part", "cut"} /\ place[p] = 1}
Read == {p \in Scope : asked[p] \in {"all", "cut"}}
AllAsked == \A p \in Scope : asked[p] # "open"

LastAsked == CHOOSE p \in Scope : \A q \in Scope : q <= p

\* listProfileInventory: what was read is kept, and so is every error.
ProfileInventory ==
  CASE ~AllAsked -> "open"
    [] AllAsked /\ (over \/ Failed # {}) -> "partial"
    [] AllAsked /\ ~over /\ Failed = {} -> "list"

\* findResourceIndex, on a list without errors.
Picked(found) ==
  CASE Cardinality(found) = 1 -> "found"
    [] Cardinality(found) > 1 -> "ambiguous"
    [] found = {} -> "missing"

Get ==
  CASE ProfileInventory = "partial" -> "error"
    [] ProfileInventory = "list" -> Picked(Seen)
    [] ProfileInventory = "open" -> "open"

\* listVirtualClustersForProfiles: one profile's list will do.
ListVirtualClusters ==
  IF ~AllAsked THEN "open" ELSE IF Read # {} THEN "list" ELSE "error"

ListAIComputeNodes ==
  IF AllAsked /\ over THEN "error" ELSE ListVirtualClusters
ListStorageVolumes == ListAIComputeNodes
ResolveUsernames == ListAIComputeNodes

\* One page of one profile will do.
ListSSPClusters ==
  IF ~AllAsked THEN "open"
  ELSE IF \E p \in Scope : asked[p] # "none" THEN "list" ELSE "error"

\* An error is reported only when there is nothing else to show.
ListSSPQueueResources ==
  IF ~AllAsked THEN "open"
  ELSE IF Failed # {} /\ (\A p \in Read : place[p] = 0) THEN "error" ELSE "list"

\* The first failure is the answer.
ListSSPQueues ==
  IF Failed # {} THEN "error" ELSE IF AllAsked THEN "list" ELSE "open"

FindSSPQueues == ListSSPQueues

\* Node classification must not use a partial list: nor one that was cut.
ListSSPClustersForNodeUsage ==
  IF \E p \in Scope : asked[p] = "cut" THEN "error"
  ELSE IF AllAsked /\ over THEN "error" ELSE ListSSPQueues
-----------------------------------------------------------------------------
\* findResourceByUIDWithProfiles: the first that has it; else what went wrong.
FindResourceByUID ==
  IF Seen # {} THEN "found"
  ELSE IF ~AllAsked THEN "open"
  ELSE IF Failed # {} THEN "error" ELSE "missing"

\* All at once, and whoever answers first.
FindResourceByName == FindResourceByUID

\* By UID, where an error is no different from nothing, and then by name.
FindStorageVolume ==
  IF Seen # {} /\ (question = 1 <=> near = {}) THEN "found"
  ELSE IF ~AllAsked THEN "open"
  ELSE IF question = 1 THEN "again"
  ELSE IF Failed # {} THEN "error" ELSE "missing"

\* The detail of the current profile's VC, and then all profiles by name.
FindExactVC ==
  IF question = 2 THEN FindResourceByName
  ELSE IF asked[1] = "open" THEN "open"
  ELSE IF 1 \in Seen THEN "found"
  ELSE IF over THEN "error" ELSE "again"

\* One profile that answers nothing excuses those that fail.
FindAIComputeNodes ==
  IF Seen \cap Whole # {} THEN "found"
  ELSE IF ~AllAsked THEN "open"
  ELSE IF Whole # {} THEN "missing" ELSE "error"

\* A profile without it has failed too, and the last failure is reported.
FindSSPQueueResource ==
  IF Seen # {} THEN "found"
  ELSE IF ~AllAsked THEN "open"
  ELSE IF asked[LastAsked] = "none" THEN "error" ELSE "missing"

\* A profile that may not see the VC gives its scope, if nobody can see it.
ForbiddenIsEnough ==    \* mutant: the fallback is used as soon as there is one
  \E p \in Scope : asked[p] = "denied"
Forbidden == AllAsked /\ \E p \in Scope : asked[p] = "denied"

FindVCResource ==
  IF asked[1] = "open" THEN "open"
  ELSE IF Seen # {} THEN "found"
  ELSE IF question = 1 /\ over THEN "error"
  ELSE IF Forbidden THEN "scope"
  ELSE IF AllAsked THEN "error"
  ELSE IF question = 1 THEN "again" ELSE "open"

\* The current profile's exact match, or the only one of a search without errors.
FindQueueForAuth ==
  LET exact == Seen \cap Whole
      parts == near \cap Whole
  IN IF asked[1] = "open" THEN "open"
     ELSE IF 1 \in exact THEN "found"
     ELSE IF question = 1 /\ ~AllAsked THEN "again"
     ELSE IF ~AllAsked THEN "open"
     ELSE IF over \/ Whole # Scope THEN "error"
     ELSE Picked(IF exact # {} THEN exact ELSE parts)

\* The exact search of both kinds, whose errors do not count, and then the lists.
CheckECS ==
  CASE ~AllAsked -> "open"
    [] AllAsked /\ Seen # {} /\ question = 1 -> "found"
    [] AllAsked /\ Seen = {} /\ question = 1 -> "again"
    [] AllAsked /\ question = 2 /\ (Failed # {} \/ over) -> "error"
    [] AllAsked /\ question = 2 /\ Failed = {} /\ ~over ->
         IF Seen # {} THEN "found" ELSE "missing"
-----------------------------------------------------------------------------
Answer ==
  CASE query \in Inventories -> ProfileInventory
    [] query \in Gets -> Get
    [] query = "ListStorageVolumes" -> ListStorageVolumes
    [] query = "ListAIComputeNodes" -> ListAIComputeNodes
    [] query = "ResolveUsernames" -> ResolveUsernames
    [] query = "ListVirtualClusters" -> ListVirtualClusters
    [] query = "ListSSPClusters" -> ListSSPClusters
    [] query = "ListSSPQueueResources" -> ListSSPQueueResources
    [] query = "ListSSPQueues" -> ListSSPQueues
    [] query = "FindSSPQueues" -> FindSSPQueues
    [] query = "ListSSPClustersForNodeUsage" -> ListSSPClustersForNodeUsage
    [] query = "FindResourceByUID" -> FindResourceByUID
    [] query = "FindResourceByName" -> FindResourceByName
    [] query = "FindStorageVolume" -> FindStorageVolume
    [] query = "FindExactVC" -> FindExactVC
    [] query = "FindAIComputeNodes" -> FindAIComputeNodes
    [] query = "FindSSPQueueResource" -> FindSSPQueueResource
    [] query = "FindVCResource" -> FindVCResource
    [] query = "FindQueueForAuth" -> FindQueueForAuth
    [] query = "CheckECS" -> CheckECS

Due(p) ==
  /\ p \in Scope /\ asked[p] = "open"
  /\ query \in InTurn => \A q \in Scope : q < p => asked[q] # "open"
  /\ question = 1 /\ (query \in CurrentFirst \/ query = "FindExactVC") => p = 1

Detail == query = "FindExactVC" /\ question = 1

Replies ==
  IF over THEN {"none"}
  ELSE {"all", "none"}
       \cup (IF query = "FindVCResource" THEN {"denied"} ELSE {})
       \cup (IF query \in Single \/ Detail THEN {} ELSE {"part"})
       \cup (IF query \in ByToken \/ (query = "FindExactVC" /\ ~Detail)
               THEN {"cut"} ELSE {})

AskProfile(p) ==
  /\ said = "open" /\ Answer = "open" /\ Due(p)
  /\ \E reply \in Replies : asked' = [asked EXCEPT ![p] = reply]
  /\ UNCHANGED <<query, elsewhere, place, near, question, unread, over, said>>

\* The second question, of the profiles that have not been asked or of all.
AskAgain ==
  /\ said = "open" /\ question = 1 /\ Answer = "again"
  /\ question' = 2
  /\ unread' = IF query = "FindStorageVolume" THEN Scope \ Whole ELSE {}
  /\ asked' = IF query \in CurrentFirst THEN asked
              ELSE [p \in Profiles |-> "open"]
  /\ UNCHANGED <<query, elsewhere, place, near, over, said>>

Say ==
  /\ said = "open" /\ Answer \notin {"open", "again"}
  /\ said' = Answer
  /\ UNCHANGED <<query, elsewhere, place, near, question, asked, unread, over>>

QueryOver ==
  /\ said = "open" /\ ~over /\ over' = TRUE
  /\ UNCHANGED <<query, elsewhere, place, near, question, asked, unread, said>>

QueryNext == (\E p \in Profiles : AskProfile(p)) \/ AskAgain \/ Say \/ QueryOver

QuerySpec == QueryInit /\ [][QueryNext]_queryVars
-----------------------------------------------------------------------------
Has == {p \in Scope : place[p] > 0}
Cut == {p \in Scope : asked[p] = "cut"}
Missed == Has \ Seen

\* resource_inventory_test.go, ssp_node_client_test.go: a list that comes without
\* an error has what every profile of the environment has.  Two things excuse it:
\* a token the server repeats, and a failed profile in a list that settles for
\* any; and nothing excuses the list that decides whose nodes are whose.
ListIsWhole ==
  said = "list" =>
    \/ Missed = {}
    \/ /\ query # "ListSSPClustersForNodeUsage"
       /\ Missed \subseteq Cut \cup (IF query \in Lenient THEN Failed ELSE {})

\* "Preserve successful pages": no list that settles for any profile fails while
\* one has been read, unless the command is over.
ReadingsAreKept ==
  said = "error" /\ query \in Lenient => over \/ Has \cap Whole = {}

\* What is reported not to exist was asked for everywhere, except where a token
\* was repeated, or a failure hides behind another profile's answer or a second
\* question.
Hidden ==
  CASE query = "FindAIComputeNodes" /\ Whole # {} -> Failed
    [] query = "FindSSPQueueResource" /\ LastAsked \in Whole -> Failed
    [] query = "FindStorageVolume" /\ near = {} ->
         unread
    [] OTHER -> {}

AbsenceIsCertain ==
  said = "missing" => Has \subseteq Cut \cup Hidden

\* "must not hide a readable match in another tenant": the scope of a VC nobody
\* may see is guessed only if every profile of the environment failed to see it.
GuessIsLastResort == said = "scope" => \A p \in Has : asked[p] \in {"denied", "none"}

\* ssp_queue_auth_client.go: the scope of a grant is the current profile's queue
\* or the only one of the environment.
GrantScopeIsSure ==
  query = "FindQueueForAuth" /\ said = "found" =>
    \/ 1 \in Has
    \/ Cardinality(Has) = 1
    \/ Has = {} /\ Cardinality(near \cap Scope) = 1

QueryIsTrue ==
  ReadingsAreKept /\ AbsenceIsCertain /\ GuessIsLastResort /\ GrantScopeIsSure
=============================================================================
