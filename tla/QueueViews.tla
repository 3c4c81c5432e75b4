------------------------------ MODULE QueueViews ------------------------------
(***************************************************************************)
(* What rayctl shows of queues when one answer does not tell everything    *)
(* (ssp_resource_service.go, ssp_queue_list.go): queue list and queue get, *)
(* which ask for the workspaces the inventory of resources omits, and ws   *)
(* get, which joins a workspace's queues with that inventory.  Meanwhile a *)
(* queue is moved to another workspace, or deleted and created anew.       *)
(***************************************************************************)
EXTENDS Naturals, FiniteSets

VARIABLES
  viewing,   \* the command
  held,      \* the queues there are
  card,      \* what is known of each queue
  next      \* what the command does next; at the end, what it says

viewVars == <<viewing, held, card, next>>
-----------------------------------------------------------------------------
\* A queue's name and its cluster.  The first one changes.
Posts == {<<"a", 1>>, <<"b", 1>>, <<"a", 2>>}
First == <<"a", 1>>

Untold == <<>>

Age(p) == IF p = First /\ held.fate = "recreated" THEN 1 ELSE 0

\* The workspace of the queue p, and of the one that was there before.
WorkspaceOf(p, age) ==
  <<p, IF age = 1 \/ (p = First /\ held.fate = "moved") THEN 1 ELSE 0>>

\* What an answer tells: not always the workspace, nor its UID, and some servers
\* tell no UIDs of queues.
Tells == {"nothing", "name", "both"}

Entry(p, age, tells) ==
  [uid |-> IF held.uids THEN <<p, age>> ELSE Untold,
   name |-> IF tells = "nothing" THEN Untold ELSE WorkspaceOf(p, age),
   ws |-> IF tells = "both" THEN WorkspaceOf(p, age) ELSE Untold]

Incomplete(e) == Untold \in {e.name, e.ws}

Blank == [is |-> "unread", uid |-> Untold, name |-> Untold, ws |-> Untold]

Known(is, e) == [is |-> is, uid |-> e.uid, name |-> e.name, ws |-> e.ws]

\* Only what is not the same differs: the queue keeps its UID, and loses the one of
\* the workspace if that has another name.
MergeQueueWorkspace(item, e) ==
  [is |-> "done", uid |-> item.uid,
   name |-> IF e.name # Untold THEN e.name ELSE item.name,
   ws |-> IF e.ws # Untold THEN e.ws
          ELSE IF e.name \notin {Untold, item.name} THEN Untold ELSE item.ws]

Goes(s) == next' = s /\ UNCHANGED <<viewing, held, card>>

Learn(cards, s) == card' = cards /\ next' = s /\ UNCHANGED <<viewing, held>>

Ended == {"shown", "failed", "not found", "ambiguous"}

\* Other users.
ChangeQueue ==
  /\ held.fate = "same" /\ next \notin Ended
  /\ \E fate \in {"moved", "recreated"} : held' = [held EXCEPT !.fate = fate]
  /\ UNCHANGED <<viewing, card, next>>
-----------------------------------------------------------------------------
(***************************************************************************)
(* queue list: the resources, and the details of those that need them, of  *)
(* each cluster for itself.                                                *)
(***************************************************************************)
\* refreshQueueListDetails: queues that do not run, or whose workspace is missing;
\* one of a cluster is asked for alone.
Needed(cards, idle) == {p \in Posts : p \in idle \/ Incomplete(cards[p])}

ListResources ==
  /\ viewing = "queue list" /\ next = "resources"
  /\ \/ Goes("failed")
     \/ \E tells \in [Posts -> Tells], idle \in SUBSET {<<"b", 1>>} :
          LET listed == [p \in Posts |-> Entry(p, Age(p), tells[p])]
              needed == Needed(listed, idle)
              IsIn(p) == IF p \notin needed THEN "done"
                         ELSE IF \E q \in needed \ {p} : q[2] = p[2] THEN "group"
                         ELSE "get"
          IN /\ tells[<<"a", 2>>] # "name" /\ tells[<<"b", 1>>] # "name"
             /\ Learn([p \in Posts |-> Known(IsIn(p), listed[p])], "details")

\* "identity does not match": a queue of the same name is not the same queue.
SameIdentity(item, e) == item.uid = Untold \/ e.uid = Untold \/ item.uid = e.uid

\* loadQueueListDetailGroup: the one with the UID, or the only one with the name.
FromList(item, ages, entries) ==
  LET same == {g \in ages : item.uid # Untold /\ entries[g].uid = item.uid}
      chosen == IF same # {} THEN same ELSE ages
  IN IF Cardinality(chosen) = 1 THEN {entries[g] : g \in chosen} ELSE {}

\* The queues of a cluster in one request; one that was deleted may still be in it.
ReadDetailGroup ==
  LET group == {p \in Posts : card[p].is = "group"}
  IN /\ viewing = "queue list" /\ next = "details" /\ group # {}
     /\ \/ Goes("failed")
        \/ \E tells \in Tells, ages \in SUBSET (0 .. Age(First)) :
             LET Ages(p) == IF p = First THEN ages ELSE {0}
                 Found(p) == {e \in FromList(card[p], Ages(p),
                                             [g \in Ages(p) |-> Entry(p, g, tells)])
                                : ~Incomplete(e)}
             IN IF \E p \in group : \E e \in Found(p) : ~SameIdentity(card[p], e)
                THEN Goes("failed")
                ELSE Learn([p \in Posts |->
                             IF p \notin group THEN card[p]
                             ELSE IF Found(p) = {} THEN [card[p] EXCEPT !.is = "get"]
                             ELSE MergeQueueWorkspace(card[p], CHOOSE e \in Found(p) : TRUE)],
                           "details")

\* GetSSPQueue, by the name.
ReadDetail(p) ==
  /\ viewing = "queue list" /\ next = "details" /\ card[p].is = "get"
  /\ \/ Goes("failed")
     \/ \E tells \in Tells :
          LET e == Entry(p, Age(p), tells)
          IN IF SameIdentity(card[p], e)
             THEN Learn([card EXCEPT ![p] = MergeQueueWorkspace(card[p], e)], "details")
             ELSE Goes("failed")

ShowQueues ==
  /\ viewing = "queue list" /\ next = "details"
  /\ \A p \in Posts : card[p].is = "done"
  /\ Goes("shown")

CancelQueueList == viewing = "queue list" /\ next = "details" /\ Goes("failed")

QueueListStep ==
  \/ ListResources \/ ReadDetailGroup \/ ShowQueues \/ CancelQueueList
  \/ \E p \in Posts : ReadDetail(p)
-----------------------------------------------------------------------------
(***************************************************************************)
(* queue get: the resource, or the queues of all workspaces; then, if      *)
(* something is missing, its details.                                      *)
(***************************************************************************)
Namesakes == {<<"a", 1>>, <<"a", 2>>}

\* By a rule for names, a workspace may be the likely one.
FindResourceOfQueue ==
  /\ viewing = "queue get" /\ next = "resources"
  /\ \/ Goes("workspaces")
     \/ \E p \in held.there, tells \in Tells, more \in BOOLEAN :
          LET e == Entry(p, Age(p), tells)
          IN /\ Incomplete(e) => more
             /\ Learn([card EXCEPT ![p] = Known("chosen", e)],
                      IF more THEN "details" ELSE "shown")

ListQueueWorkspaces ==
  /\ viewing = "queue get" /\ next = "workspaces"
  /\ \/ Goes("failed")
     \/ Goes(IF held.likely THEN "likely" ELSE "all")

\* listQueuesForWorkspaces: a workspace that fails is left out.
ReadWorkspaceQueues(p, is) == [card EXCEPT ![p] = Known(is, Entry(p, Age(p), "both"))]

ReadLikely ==
  /\ viewing = "queue get" /\ next = "likely"
  /\ \/ Goes("all")
     \/ First \in held.there /\ Learn(ReadWorkspaceQueues(First, "chosen"), "details")

ReadAllWorkspaces ==
  /\ viewing = "queue get" /\ next = "all"
  /\ \E failing \in SUBSET Namesakes :
       LET found == held.there \ failing
           read == [p \in Posts |-> IF p \in failing THEN [Blank EXCEPT !.is = "failed"]
                                    ELSE IF p \in found THEN Known("read", Entry(p, Age(p), "both"))
                                    ELSE card[p]]
       IN CASE failing = Namesakes -> Goes("failed")
            [] failing # Namesakes /\ found = {} -> Learn(read, "not found")
            [] Cardinality(found) > 1 -> Learn(read, "ambiguous")
            [] OTHER -> LET p == CHOOSE p \in found : TRUE
                        IN Learn([read EXCEPT ![p].is = "chosen"], "details")

\* enrichQueueSchedulingSettings asks for the name in the cluster, without a look at
\* the identity of what it gets.
EnrichQueue ==
  /\ viewing = "queue get" /\ next = "details"
  /\ \/ Goes("failed")
     \/ \E tells \in Tells, p \in Namesakes :
          /\ card[p].is = "chosen"
          /\ Learn([card EXCEPT ![p] =
                     [MergeQueueWorkspace(card[p], Entry(p, Age(p), tells)) EXCEPT !.is = "chosen"]],
                   "shown")

QueueGetStep ==
  \/ FindResourceOfQueue \/ ListQueueWorkspaces \/ ReadLikely \/ ReadAllWorkspaces
  \/ EnrichQueue
-----------------------------------------------------------------------------
(***************************************************************************)
(* ws get: the queues of the workspace and, at the same time, the          *)
(* inventory of resources of all profiles.                                 *)
(***************************************************************************)
\* Of a queue: its UID here, and in "ws" the VC that the inventory gives it.  Other
\* queues with its name are in another profile and in another cluster.
ReadQueues ==
  /\ viewing = "ws get" /\ next = "reading" /\ card[First].is = "unread"
  /\ \/ Goes("failed")
     \/ Learn([card EXCEPT ![First] = Known("listed", Entry(First, Age(First), "nothing"))],
              "reading")

Stranger == <<"a", 3>>      \* of another profile

ReadInventory ==
  /\ viewing = "ws get" /\ next = "reading" /\ ~held.read
  /\ \E some \in SUBSET {<<First, Age(First)>>, <<<<"a", 2>>, 0>>, <<Stranger, 0>>} :
       held' = [held EXCEPT !.inventory = some, !.read = TRUE]   \* {} also if it fails
  /\ UNCHANGED <<viewing, card, next>>

\* Of the workspace's profile: by the UID, or else by the name, where the last wins.
DetailOfQueue(item) ==
  LET mine == {d \in held.inventory : d[1] # Stranger}
      same == {d \in mine : item.uid # Untold /\ d = item.uid}
  IN IF same # {} THEN same ELSE mine

\* resolveWorkspaceQueueNamespaces: of the VC it is in, from the platform or else
\* from the VC itself, and "-" if neither tells.
JoinInventory ==
  LET details == DetailOfQueue(card[First])
  IN /\ viewing = "ws get" /\ next = "reading"
     /\ card[First].is = "listed" /\ held.read
     /\ \E d \in (IF details = {} THEN {Untold} ELSE details), told \in BOOLEAN :
          Learn([card EXCEPT ![First].ws = d,
                             ![First].name = IF told THEN d ELSE Untold], "shown")

WorkspaceGetStep == ReadQueues \/ ReadInventory \/ JoinInventory
-----------------------------------------------------------------------------
ViewInit ==
  /\ viewing \in {"queue list", "queue get", "ws get"}
  /\ held \in [uids : BOOLEAN, fate : {"same"}, likely : BOOLEAN,
               there : SUBSET Namesakes, inventory : {{}}, read : {FALSE}]
  /\ viewing # "queue get" => ~held.likely /\ held.there = {}
  /\ card = [p \in Posts |-> Blank]
  /\ next = IF viewing = "ws get" THEN "reading" ELSE "resources"

ViewNext == ChangeQueue \/ QueueListStep \/ QueueGetStep \/ WorkspaceGetStep
-----------------------------------------------------------------------------
\* A queue that is listed is listed with its own workspace, by name and by UID,
\* never with that of a namesake in another cluster, nor with that of a queue that
\* has got its name since.
WorkspacesAreTheirs ==
  viewing = "queue list" /\ next = "shown" =>
    \A p \in Posts :
      LET c == card[p]
      IN /\ c.name # Untold =>
              /\ c.name[1] = p
              /\ c.uid = <<p, 0>> /\ held.fate = "recreated" => c.name = <<p, 0>>
              /\ c.uid = <<p, 1>> => c.name = <<p, 1>>
         /\ Untold \notin {c.name, c.ws} => c.name = c.ws

\* A queue get shows a queue that there was, with a workspace of its own; one of two
\* is taken only if it is the likely one, is the one the inventory has, or is alone
\* where the workspaces could be read; and none is missing from those.
TheQueueIsMeant ==
  viewing = "queue get" =>
    /\ next = "shown" =>
         \E p \in held.there :
           /\ card[p].is = "chosen"
           /\ card[p].name # Untold => card[p].name[1] = p
           /\ Untold \notin {card[p].name, card[p].ws} => card[p].name = card[p].ws
           /\ \A q \in held.there \ {p} : card[q].is \in {"failed", "unread"}
    /\ next = "not found" => \A p \in held.there : card[p].is = "failed"

\* The VC and the namespace of a queue of a workspace are never those of another
\* profile's queue; and if the inventory has the queue itself they are its own.
VCIsItsOwn ==
  viewing = "ws get" /\ next = "shown" =>
    /\ card[First].ws # Untold => card[First].ws[1] # Stranger
    /\ card[First].name \in {Untold, card[First].ws}
    /\ card[First].uid \in held.inventory => card[First].ws = card[First].uid

ViewsAreTrue == WorkspacesAreTheirs /\ TheQueueIsMeant /\ VCIsItsOwn
=============================================================================
