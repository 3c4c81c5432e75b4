------------------------------ MODULE UserViews ------------------------------
(***************************************************************************)
(* What rayctl shows of users (user_service.go, auth_service.go,           *)
(* logs_service.go with the clients of IAM and CMS under them): who has a  *)
(* name, what they are permitted, who administers a group, what they run,  *)
(* the logs of a pod or workload, and the events of the cloud's audit.     *)
(***************************************************************************)
EXTENDS Naturals, FiniteSets

VARIABLES
  looking,   \* what the command looks for
  people,    \* what there is of it
  seen,      \* what of it has been read
  turn       \* what is read next; at the end, the answer

userVars == <<looking, people, seen, turn>>

Users == {"u1", "u2"}

Turn(t) == turn' = t /\ UNCHANGED <<looking, people, seen>>

Saw(s, t) == seen' = s /\ turn' = t /\ UNCHANGED <<looking, people>>
-----------------------------------------------------------------------------
(***************************************************************************)
(* A user: by the exact name or ID, by a filter of the server, and, where  *)
(* that is not supported, in the list of all.                              *)
(***************************************************************************)
Likeness == {"exact", "begins", "no"}

Like(l) == {u \in Users : people.like[u] = l}

\* Deployments whose filter finds those it should, refuses, or finds nobody.
FindInit ==
  /\ people \in [like : [Users -> Likeness], filter : {"works", "refused", "blind"}]
  /\ seen = {} /\ turn = "exact"

\* matchIAMUsers: those that have the name, before those whose name begins with it.
MatchUsers == IF Like("exact") # {} THEN Like("exact") ELSE Like("begins")

\* The context, too, may be over at each request.
FindExact ==
  /\ looking = "find" /\ turn = "exact"
  /\ \/ Turn("failed")                                     \* the context is over
     \/ Turn("filtered")                                   \* or only the request
     \/ IF Like("exact") = {} THEN Turn("filtered")
        ELSE \E t \in {"details", "found"} : Saw(Like("exact"), t)

\* Best effort, by the ID or the name.
FindDetails == looking = "find" /\ turn = "details" /\ Turn("found")

FindFiltered ==
  /\ looking = "find" /\ turn = "filtered"
  /\ \/ Turn("failed")
     \/ IF people.filter = "works" /\ MatchUsers # {} THEN Saw(MatchUsers, "found")
        ELSE Turn("all")

FindAmongAll ==
  /\ looking = "find" /\ turn = "all"
  /\ \/ Turn("failed")
     \/ Saw(MatchUsers, IF MatchUsers = {} THEN "not found" ELSE "found")

FindStep == FindExact \/ FindDetails \/ FindFiltered \/ FindAmongAll
-----------------------------------------------------------------------------
(***************************************************************************)
(* The permissions of users: their groups, and the bindings of both.       *)
(***************************************************************************)
\* A policy binds one or more members to its roles; g is a group.
Bindings == {<<"p", "u1">>, <<"p", "g">>, <<"q", "u2">>, <<"q", "g">>}

PermissionsInit ==
  /\ \E bound \in SUBSET Bindings, grouped \in SUBSET Users, asked \in (SUBSET Users) \ {{}} :
       people = [bound |-> bound, was |-> bound, grouped |-> grouped, asked |-> asked]
  /\ seen = [groups |-> [u \in Users |-> "unread"], batches |-> {}, bindings |-> {}]
  /\ turn = "groups"

\* Somebody revokes a binding.
RevokeBinding ==
  /\ looking = "permissions" /\ turn \in {"groups", "bindings"}
  /\ people.bound = people.was
  /\ \E b \in people.bound : people' = [people EXCEPT !.bound = @ \ {b}]
  /\ UNCHANGED <<looking, seen, turn>>

ReadGroupsOf(u) ==
  /\ looking = "permissions" /\ turn = "groups"
  /\ u \in people.asked /\ seen.groups[u] = "unread"
  /\ \/ Turn("failed")
     \/ Saw([seen EXCEPT !.groups[u] = IF u \in people.grouped THEN "g" ELSE "none"], "groups")

GroupsRead ==
  /\ looking = "permissions" /\ turn = "groups"
  /\ \A u \in people.asked : seen.groups[u] # "unread"
  /\ Turn("bindings")

\* ListIAMBindingPoliciesForSubjectsProfile: the members in batches.  A filter is for
\* a part of the text, of the member or of the scope, so that others may match.
Batch(n) == IF n = 1 THEN people.asked
            ELSE IF \E u \in people.asked : seen.groups[u] = "g" THEN {"g"} ELSE {}

ReadBatch(n) ==
  /\ looking = "permissions" /\ turn = "bindings" /\ n \notin seen.batches
  /\ \/ Turn("failed")
     \/ \E others \in {{}, people.bound} :
          Saw([groups |-> seen.groups, batches |-> seen.batches \cup {n},
               bindings |-> seen.bindings \cup others
                              \cup {b \in people.bound : b[2] \in Batch(n)}], "bindings")

\* "A policy ID can grant the same roles to multiple members. Deduplicate repeated
\* bindings, rather than dropping other members": seen.bindings is a set of bindings.
ShowPermissions ==
  /\ looking = "permissions" /\ turn = "bindings" /\ seen.batches = {1, 2}
  /\ Turn("shown")

\* collectUserPermissions: direct, or of a group.
PermissionsOf(u) == {b \in seen.bindings : b[2] = u \/ b[2] = seen.groups[u]}

PermissionsStep ==
  \/ GroupsRead \/ ShowPermissions
  \/ \E u \in Users : ReadGroupsOf(u)
  \/ \E n \in 1 .. 2 : ReadBatch(n)
-----------------------------------------------------------------------------
(***************************************************************************)
(* The members of a group and, among them or not, its collaborators.  Both *)
(* are read at the same time, while one of them changes.                   *)
(***************************************************************************)
\* The users may have the same display name.
GroupInit ==
  /\ people \in [inside : SUBSET Users, admins : SUBSET Users, same : BOOLEAN,
                 changed : {FALSE}]
  /\ seen = [members |-> {}, admins |-> {}, read |-> {}] /\ turn = "reading"

ChangeGroup ==
  /\ looking = "group" /\ turn = "reading" /\ ~people.changed
  /\ \E u \in Users, leaves \in BOOLEAN :
       people' = [inside |-> IF leaves THEN people.inside \ {u} ELSE people.inside \cup {u},
                  admins |-> IF leaves THEN people.admins \ {u} ELSE people.admins,
                  same |-> people.same, changed |-> TRUE]
  /\ UNCHANGED <<looking, seen, turn>>

ReadMembers ==
  /\ looking = "group" /\ turn = "reading" /\ "members" \notin seen.read
  /\ \/ Turn("failed")
     \/ Saw([members |-> people.inside, admins |-> seen.admins,
             read |-> seen.read \cup {"members"}], "reading")

ReadAdmins ==
  /\ looking = "group" /\ turn = "reading" /\ "admins" \notin seen.read
  /\ \/ Turn("failed")
     \/ Saw([members |-> seen.members, admins |-> people.admins,
             read |-> seen.read \cup {"admins"}], "reading")

\* policyMatchesUser: by ID, name or display name.
MatchesUser(a, u) == a = u \/ people.same

ShowMembers ==
  /\ looking = "group" /\ turn = "reading" /\ seen.read = {"members", "admins"}
  /\ Turn("shown")

\* collectAuthGroupMembers: the members, and the collaborators that no member is.
MemberRows ==
  {[user |-> u, admin |-> \E a \in seen.admins : MatchesUser(a, u), inside |-> TRUE]
     : u \in seen.members}
  \cup {[user |-> a, admin |-> TRUE, inside |-> FALSE]
          : a \in {a \in seen.admins : \A u \in seen.members : ~MatchesUser(a, u)}}

GroupStep == ReadMembers \/ ReadAdmins \/ ShowMembers
-----------------------------------------------------------------------------
(***************************************************************************)
(* The workloads of users: of each kind, in each workspace, and, for one   *)
(* kind, of each user.                                                     *)
(***************************************************************************)
WorkspacesRead == 1 .. 2

\* "ait" is asked for by creator.
WorkloadLists == ({"ait"} \X WorkspacesRead \X Users) \cup ({"air"} \X WorkspacesRead \X {"all"})

\* Of each kind there is one workload in each workspace, of one of the two users that
\* are asked for or of another one.
Owners == Users \cup {"other"}

WorkloadsInit ==
  /\ people \in [{"ait", "air"} -> [WorkspacesRead -> Owners]]
  /\ seen = [t \in WorkloadLists |-> "unread"] /\ turn = "workspaces"

\* ListSSPWorkspaces.
ReadWorkspaces ==
  /\ looking = "workloads" /\ turn = "workspaces"
  /\ \/ Turn("failed")
     \/ Turn("reading")

\* The order of the workspaces makes no difference to what is read.
ReadTarget(t) ==
  /\ looking = "workloads" /\ turn = "reading" /\ seen[t] = "unread"
  /\ \A s \in WorkloadLists : s[1] = t[1] /\ seen[s] = "unread" => s[2] >= t[2]
  /\ \E is \in {"read", "failed"} : Saw([seen EXCEPT ![t] = is], "reading")

KindFails(kind) == \A t \in WorkloadLists : t[1] = kind => seen[t] = "failed"

\* A kind that fails in all workspaces becomes a warning, and if all do, an error.
ShowWorkloads ==
  /\ looking = "workloads" /\ turn = "reading"
  /\ \A t \in WorkloadLists : seen[t] # "unread"
  /\ Turn(IF \A kind \in {"ait", "air"} : KindFails(kind) THEN "failed" ELSE "shown")

\* matchesUserIdentity drops the others' of those that were listed.
WorkloadsOf(u) ==
  {<<t[1], t[2]>> : t \in {t \in WorkloadLists : /\ seen[t] = "read" /\ t[3] \in {u, "all"}
                                           /\ people[t[1]][t[2]] = u}}

WorkloadsStep ==
  ReadWorkspaces \/ ShowWorkloads \/ \E t \in WorkloadLists : ReadTarget(t)
-----------------------------------------------------------------------------
(***************************************************************************)
(* The logs of a pod or of a workload: from the first profile that answers.*)
(***************************************************************************)
LogProfiles == 1 .. 2

\* Which of the profiles have a VC of that name, and the one whose turn it is.
LogsInit ==
  /\ people \in SUBSET LogProfiles
  /\ seen = [p \in LogProfiles |-> "unasked"] /\ turn = "reading"

\* A profile's VC by its name; a name it does not know is taken for the VC's own.
LogsTurn(p) ==
  looking = "logs" /\ turn = "reading" /\ \A q \in LogProfiles : q < p => seen[q] = "failed"

FindLogVC(p) ==
  /\ LogsTurn(p) /\ seen[p] = "unasked"
  /\ \/ Saw([seen EXCEPT ![p] = "failed"], "reading")
     \/ Saw([seen EXCEPT ![p] = IF p \in people THEN "its VC" ELSE "the name"], "reading")

\* A token for the VC, from the station of the profile.
MakeQueryToken(p) ==
  /\ LogsTurn(p) /\ seen[p] \in {"its VC", "the name"}
  /\ \/ Saw([seen EXCEPT ![p] = "failed"], "reading")
     \/ Saw([seen EXCEPT ![p] = IF @ = "its VC" THEN "token" ELSE "token of the name"], "reading")

QueryLogs(p) ==
  /\ LogsTurn(p) /\ seen[p] \in {"token", "token of the name"}
  /\ \/ Saw([seen EXCEPT ![p] = "failed"], "reading")
     \/ Saw([seen EXCEPT ![p] = IF @ = "token" THEN "logs" ELSE "nothing"], "shown")

LogsFail ==
  /\ looking = "logs" /\ turn = "reading" /\ \A p \in LogProfiles : seen[p] = "failed"
  /\ Turn("failed")

LogsStep ==
  LogsFail \/ \E p \in LogProfiles : FindLogVC(p) \/ MakeQueryToken(p) \/ QueryLogs(p)
-----------------------------------------------------------------------------
(***************************************************************************)
(* An event of the audit of the current profile: who did it.               *)
(***************************************************************************)
\* An event tells a name, or the ID in its place, and perhaps the ID.
AuditInit ==
  /\ people \in [name : {"name", "id", ""}, id : {"id", ""}, asked : {"", "name", "id"}]
  /\ seen = [filters |-> {}, names |-> FALSE] /\ turn = "filters"

\* cloudAuditUserFilters: the name asked for, and, if it can be told, the ID.
FilterByUser ==
  /\ looking = "audit" /\ turn = "filters"
  /\ \E ids \in {{}, {"id"}} :
       Saw([seen EXCEPT !.filters = IF people.asked = "" THEN {}
                                    ELSE IF people.asked = "id" THEN {"id"}
                                    ELSE {"name"} \cup ids], "events")

ToldBy(e) == {e.name, e.id} \ {""}

QueryEvents ==
  /\ looking = "audit" /\ turn = "events"
  /\ \/ Turn("failed")
     \/ Turn(IF seen.filters = {} \/ ToldBy(people) \cap seen.filters # {}
             THEN "names" ELSE "nothing")

\* ResolveUsernames, best effort.
ResolveNames ==
  /\ looking = "audit" /\ turn = "names"
  /\ \E names \in BOOLEAN : Saw([seen EXCEPT !.names = names], "shown")

\* cloudAuditUserIdentity.
UserOfEvent ==
  LET id == IF people.id = "" /\ people.name = "id" THEN "id" ELSE people.id
      given == IF people.name = "id" THEN "" ELSE people.name
      name == IF given = "" /\ id = "id" /\ seen.names THEN "name" ELSE given
  IN [name |-> IF name = "" THEN id ELSE name, id |-> id]

AuditStep == FilterByUser \/ QueryEvents \/ ResolveNames
-----------------------------------------------------------------------------
UserInit ==
  \/ looking = "find" /\ FindInit
  \/ looking = "permissions" /\ PermissionsInit
  \/ looking = "group" /\ GroupInit
  \/ looking = "workloads" /\ WorkloadsInit
  \/ looking = "logs" /\ LogsInit
  \/ looking = "audit" /\ AuditInit

UserNext ==
  \/ FindStep \/ PermissionsStep \/ RevokeBinding \/ GroupStep \/ ChangeGroup
  \/ WorkloadsStep \/ LogsStep \/ AuditStep
-----------------------------------------------------------------------------
\* A user is not found only if nobody is like that, whatever the deployment can
\* filter and whatever failed before; and nobody whose name only begins so is found
\* in the place of one who has it.
UserIsMeant ==
  looking = "find" =>
    /\ turn = "not found" => \A u \in Users : people.like[u] = "no"
    /\ turn = "found" => seen = MatchUsers

\* The permissions that are shown are the user's, directly or by a group it was in,
\* and none that it had all the time is missing, whoever else is bound by the same
\* policy.
PermissionsAreWhole ==
  looking = "permissions" /\ turn = "shown" =>
    \A u \in people.asked :
      LET its == {b \in Bindings : b[2] = u \/ (b[2] = "g" /\ u \in people.grouped)}
      IN /\ PermissionsOf(u) \subseteq its \cap people.was
         /\ its \cap people.bound \subseteq PermissionsOf(u)

\* Every member of a group, and every collaborator whether a member or not, has one
\* row, and, as long as no two have the same display name, its own role in it.
MembersAreWhole ==
  looking = "group" /\ turn = "shown" =>
    /\ \A r \in MemberRows, s \in MemberRows : r.user = s.user => r = s
    /\ seen.members \subseteq {r.user : r \in MemberRows}
    /\ seen.admins # {} => \E r \in MemberRows : r.admin
    /\ ~people.same => \A r \in MemberRows :
         /\ r.admin <=> r.user \in seen.admins
         /\ r.user \in seen.admins \cup seen.members
    /\ ~people.same => seen.admins \subseteq {r.user : r \in MemberRows}

\* Of a kind without a warning some workspace has answered; of those that did, all
\* of the user's workloads are shown, and nobody else's.
WorkloadsAreTheirs ==
  looking = "workloads" /\ turn = "shown" =>
    /\ \E t \in WorkloadLists : seen[t] = "read"
    /\ \A u \in Users, kind \in {"ait", "air"}, w \in WorkspacesRead :
         /\ <<kind, w>> \in WorkloadsOf(u) => people[kind][w] = u
         /\ people[kind][w] = u
              /\ (\A t \in WorkloadLists : t[1] = kind /\ t[2] = w => seen[t] = "read")
            => <<kind, w>> \in WorkloadsOf(u)

\* Logs fail only if every profile did, and the logs of a VC are not replaced by
\* those of a later profile.
LogsAreIts ==
  looking = "logs" =>
    /\ turn = "failed" => \A p \in LogProfiles : seen[p] = "failed"
    /\ \A p \in LogProfiles :
         /\ seen[p] = "logs" => p \in people
         /\ seen[p] \in {"logs", "nothing"} =>
              turn = "shown" /\ \A q \in LogProfiles : q > p => seen[q] = "unasked"

\* An event that tells who did it, by name or by ID, is shown with that, and it is
\* left out only if it tells another one than was asked for.
EventHasItsUser ==
  looking = "audit" =>
    /\ turn = "shown" =>
         /\ ToldBy(people) # {} => UserOfEvent.name # ""
         /\ "id" \in ToldBy(people) => UserOfEvent.id = "id"
         /\ people.name = "name" => UserOfEvent.name = "name"
    /\ turn = "nothing" => people.asked \notin ToldBy(people)

UsersAreTrue ==
  /\ UserIsMeant /\ PermissionsAreWhole /\ MembersAreWhole
  /\ WorkloadsAreTheirs /\ LogsAreIts /\ EventHasItsUser
=============================================================================
