------------------------------ MODULE QueueUsage ------------------------------
(***************************************************************************)
(* queue node usage (internal/service: ssp_resource_service.go, ssp_queue_ *)
(* usage.go, ssp_queue_ownership.go, vc_service.go): the queue is looked   *)
(* for twice at a time; then its quota and the usage of its nodes are      *)
(* read; and, for a queue that shares the nodes of a VC, whose each node   *)
(* is, from the labels of the nodes and from the pods, which come in pages *)
(* while pods start and stop.  One node of the VC stands for all.          *)
(***************************************************************************)
EXTENDS Naturals, FiniteSets

CONSTANT Changes    \* of the node, from the reading of the usage on

ASSUME ChangesAssumption == Changes \in Nat

VARIABLES
  request,  \* what kind of queue is asked for, and whether it has a UID
  names,    \* workspaces of the queue of that name, and of one whose name has it
  node,     \* what the node says, and whose pods, by page, run on it
  twin,     \* why the node may not be recognised
  finding,  \* of each search: what it has found
  phase,
  heard,    \* what has been read
  lasting,  \* what has been so since the usage was read
  changed

usageVars == <<request, names, node, twin, finding, phase, heard, lasting, changed>>

\* A label names this queue, or another one by its UID under this one's name, or
\* says only that there is a queue; a pod is of a queue, of none, or of the system.
Labels == {"none", "ours", "namesake", "typed"}
Pods == {"none", "ours", "other", "plain", "system"}

Theirs == {"other", "namesake"}
Unclear == {"typed", "plain"}

Searches == {"resource", "workspaces"}
OneQueue == [exact |-> 1, akin |-> 0, likely |-> FALSE]
Bare == [label |-> "none", pods |-> <<"none", "none">>]

Unread0 == [quota |-> "open", usage |-> "open", label |-> "open",
            pods |-> <<"open", "open">>, rest |-> "none"]

UsageInit ==
  /\ request \in [elastic : BOOLEAN, uid : BOOLEAN]
  /\ names \in [exact : 0 .. 2, akin : 0 .. 2, likely : BOOLEAN]
  /\ node \in [label : Labels, pods : Pods \X {"none", "ours", "other"}]
  /\ twin \in {"none", "sameUID", "otherVC", "unlisted"}
  \* bound: one thing at a time
  /\ ~request.elastic => node = Bare /\ request.uid
  /\ ~request.uid => node = Bare
  /\ names # OneQueue => ~request.elastic
  /\ twin # "none" => /\ request.elastic /\ request.uid /\ node.label = "none"
                      /\ node.pods \in {<<"other", "none">>, <<"ours", "none">>}
  /\ finding = [s \in Searches |-> "open"]
  /\ phase = "find" /\ heard = Unread0 /\ lasting = {} /\ changed = 0
-----------------------------------------------------------------------------
(***************************************************************************)
(* resolveQueueForNodes: the first search that finds a queue cancels the   *)
(* other.  The exact name comes first, but only among what was read.       *)
(***************************************************************************)
MatchQueue(read) ==
  CASE names.exact \in read -> "exact"
    [] names.exact \notin read /\ names.akin \in read -> "akin"
    [] OTHER -> "missing"

Found(s, what) ==
  /\ finding' = IF what \in {"exact", "akin"} THEN [t \in Searches |-> "ended"]
                ELSE [finding EXCEPT ![s] = what]
  /\ phase' = CASE what \in {"exact", "akin"} -> "read"
                [] \A t \in Searches : finding'[t] \in {"missing", "error"} -> "failed"
                [] OTHER -> "find"
  /\ UNCHANGED <<request, names, node, twin, heard, lasting, changed>>

\* FindSSPQueueResource: one profile after the other.
FindResource ==
  /\ phase = "find" /\ finding["resource"] = "open"
  /\ \E failed \in SUBSET {1, 2} :
       LET first == MatchQueue({1} \ failed)
           then == MatchQueue({2} \ failed)
       IN Found("resource",
            IF first # "missing" THEN first
            ELSE IF then = "missing" /\ failed # {} THEN "error" ELSE then)

\* getQueue: the workspace that the name suggests, and then all that answer.
FindInWorkspaces ==
  /\ phase = "find" /\ finding["workspaces"] = "open"
  /\ \E failed \in SUBSET {1, 2} :
       LET likely == IF names.likely THEN MatchQueue({1} \ failed) ELSE "missing"
       IN Found("workspaces",
            IF likely # "missing" THEN likely
            ELSE IF failed = {1, 2} THEN "error"
            ELSE IF failed # {} /\ MatchQueue({1, 2} \ failed) = "missing" THEN "error"
            ELSE MatchQueue({1, 2} \ failed))

Stop ==
  /\ phase \in {"find", "read"} /\ phase' = "failed"
  /\ UNCHANGED <<request, names, node, twin, finding, heard, lasting, changed>>
-----------------------------------------------------------------------------
(***************************************************************************)
(* getQueueNodeUsageWithQuota: neither reading hides the other.            *)
(***************************************************************************)
Working(n) == {i \in 1 .. 2 : n.pods[i] \notin {"none", "system"}}

\* What the platform can say of the node, at this moment.
Figures == IF Working(node) = {} THEN {"zero"} ELSE {"some", "full"}

\* What holds of the node, by one kind of sign.
Facts(n) ==
  {f \in {"their label", "their pods", "our label", "our pods", "strangers", "nobody else"} :
     CASE f = "their label" -> n.label \in Theirs
       [] f = "their pods" -> \E i \in 1 .. 2 : n.pods[i] \in Theirs
       [] f = "our label" -> n.label = "ours"
       [] f = "our pods" -> \E i \in 1 .. 2 : n.pods[i] = "ours"
       [] f = "strangers" -> \E i \in 1 .. 2 : n.pods[i] = "plain"
       [] f = "nobody else" ->
            \A sign \in {n.label, n.pods[1], n.pods[2]} : sign \notin Theirs \cup Unclear}

\* getResourceUsage: a node without an answer has no figures.
ReadUsage ==
  /\ phase = "read" /\ heard.usage = "open"
  /\ \E a \in Figures \cup {"unknown", "failed"} : heard' = [heard EXCEPT !.usage = a]
  /\ lasting' = Facts(node)
  /\ UNCHANGED <<request, names, node, twin, finding, phase, changed>>

\* The quota, which is read meanwhile, depends on nothing else.  FilterQueueUsage-
\* Nodes: whose nodes these are is asked only if it matters.
ReadQuota ==
  /\ phase = "read" /\ heard.usage # "open"
  /\ \E a \in {"ok", "failed"} :
       /\ heard' = [heard EXCEPT !.quota = a]
       /\ phase' = IF a = "failed" /\ heard.usage = "failed" THEN "failed"
                   ELSE IF request.elastic /\ request.uid /\ heard.usage # "failed"
                        THEN "own" ELSE "shown"
  /\ UNCHANGED <<request, names, node, twin, finding, lasting, changed>>
-----------------------------------------------------------------------------
(***************************************************************************)
(* readQueueOwnership: nodes and pods, at the same time.                   *)
(***************************************************************************)
ReadNode ==
  /\ phase = "own" /\ heard.label = "open"
  /\ \E a \in {node.label, "failed"} : heard' = [heard EXCEPT !.label = a]
  /\ UNCHANGED <<request, names, node, twin, finding, phase, lasting, changed>>

\* The second page goes on with the version of the first.
ReadFirstPage ==
  /\ phase = "own" /\ heard.pods[1] = "open"
  /\ \/ heard' = [heard EXCEPT !.pods[1] = node.pods[1], !.rest = node.pods[2]]
     \/ heard' = [heard EXCEPT !.pods = <<"failed", "failed">>]
  /\ UNCHANGED <<request, names, node, twin, finding, phase, lasting, changed>>

\* If that is gone, it is of a newer version, which is an error, as is a token
\* that comes again or an end before the count.
PodsPageOfAnyVersion(version) ==   \* mutant: whatever there is now
  IF version = "same" THEN heard.rest ELSE node.pods[2]
PodsPage(version) == IF version = "same" THEN heard.rest ELSE "failed"

ReadSecondPage ==
  /\ phase = "own" /\ heard.pods[1] # "open" /\ heard.pods[2] = "open"
  /\ \E version \in {"same", "newer"} :
       heard' = [heard EXCEPT !.pods[2] = PodsPage(version)]
  /\ UNCHANGED <<request, names, node, twin, finding, phase, lasting, changed>>

OwnershipRead == heard.label # "open" /\ heard.pods[2] # "open"

EndOwnership ==
  /\ phase = "own" /\ OwnershipRead
  /\ phase' = "shown"
  /\ UNCHANGED <<request, names, node, twin, finding, heard, lasting, changed>>

\* A pod starts or stops, or a label is set or removed.
Change ==
  /\ phase \in {"read", "own"} /\ heard.usage # "open" /\ changed < Changes
  /\ request.elastic /\ request.uid /\ twin = "none"
  /\ \/ \E l \in Labels :
          /\ (node.label = "none") # (l = "none")
          /\ node' = [node EXCEPT !.label = l]
     \/ \E i \in 1 .. 2, p \in Pods :
          /\ (node.pods[i] = "none") # (p = "none")
          /\ node' = [node EXCEPT !.pods[i] = p]
  /\ node' # node
  /\ lasting' = lasting \cap Facts(node')
  /\ changed' = changed + 1
  /\ UNCHANGED <<request, names, twin, finding, phase, heard>>

UsageStep ==
  \/ FindResource \/ FindInWorkspaces \/ Stop
  \/ ReadQuota \/ ReadUsage
  \/ ReadNode \/ ReadFirstPage \/ ReadSecondPage \/ EndOwnership

UsageNext == UsageStep \/ Change
-----------------------------------------------------------------------------
OwnershipKnown ==
  request.uid /\ OwnershipRead /\ "failed" \notin {heard.label, heard.pods[1], heard.pods[2]}

\* addQueueOwner: a name counts only where there is no UID.
OwnerOf(sign) ==
  CASE sign = "ours" -> "owned"
    [] sign \in {"other", "namesake"} -> "other"
    [] sign \in {"typed", "plain"} -> "unknown"
    [] sign \in {"none", "system"} -> "nobody"

\* classifyQueueOwnership: another queue's sign outranks an unclear one, and that
\* this queue's; and without any, no work is on the node.
Ranked(owners) ==
  IF "other" \in owners THEN "other"
  ELSE IF "unknown" \in owners THEN "unknown"
  ELSE IF "owned" \in owners THEN "owned"
  ELSE IF heard.usage = "zero" THEN "unassigned" ELSE "unknown"

Class ==
  IF twin # "none" THEN "unknown"
  ELSE Ranked({OwnerOf(sign) : sign \in {heard.label, heard.pods[1], heard.pods[2]}})

\* An amount that is not known is not free.
Room == heard.usage \in {"zero", "some"}

Eligible(free) ==
  \/ ~request.elastic
  \/ /\ OwnershipKnown
     /\ Class \in {"owned"} \cup (IF free THEN {"unassigned"} ELSE {})

\* With --free, or without.
Listed1(free) ==
  phase = "shown" /\ heard.usage # "failed" /\ Eligible(free) /\ (free => Room)

IsQueryComplete ==
  /\ phase = "shown" /\ heard.quota = "ok" /\ heard.usage # "failed"
  /\ request.elastic => OwnershipKnown /\ Class # "unknown"

\* ssp_queue_ownership_test.go: a node of another queue, or one that somebody
\* works on, is not shown as this queue's, nor as free for it, if it was so all
\* the while: whatever starts and stops between the readings, and whatever part
\* of them fails.
NobodyElses ==
  request.elastic /\ (\E free \in BOOLEAN : Listed1(free)) =>
    lasting \cap {"their label", "their pods", "strangers"} = {}

\* A result that claims to be complete hides no node of the queue.
NoneOfOursIsHidden ==
  ( /\ request.elastic /\ IsQueryComplete
    /\ "nobody else" \in lasting /\ lasting \cap {"our label", "our pods"} # {} )
    => Listed1(FALSE)

\* A search reports a queue missing only if it has read every place.
QueueIsMissing ==
  (\E s \in Searches : finding[s] = "missing") => names.exact = 0 /\ names.akin = 0
=============================================================================
