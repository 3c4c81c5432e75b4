----------------------------- MODULE AuthGrants -----------------------------
(***************************************************************************)
(* rayctl auth grant, auth remove and auth ssp grant (cmd/auth.go,         *)
(* internal/service/auth_service.go, auth_ssp_service.go).  Each calls its *)
(* service twice: a dry run whose result is shown, and after the answer    *)
(* the same call for real, which resolves every name again.                *)
(*                                                                         *)
(* A resource is looked up by name in all profiles at once; the first      *)
(* profile that has one decides, and with it the IAM whose policies are    *)
(* read and changed.  The policies of the model are those of the member    *)
(* the command is about.                                                   *)
(***************************************************************************)
EXTENDS Command

CONSTANTS
  Scopes,      \* resources whose name matches what the user typed
  ProfileOf,   \* the profile of each
  Policies,    \* ids of IAM policies; the lists have them in this order
  KeptBy,      \* the profile in whose IAM a policy is
  FreshPolicy, \* the id that batchCreate will give
  AuthRoles,
  RelationPage \* how many policies memberRelationPolicies returns (200)

ASSUME AuthAssumption ==
  /\ DOMAIN ProfileOf = Scopes /\ DOMAIN KeptBy = Policies
  /\ Policies \subseteq Nat /\ FreshPolicy \in Nat /\ \A p \in Policies : p < FreshPolicy
  /\ Scopes \cap (Policies \cup {FreshPolicy}) = {}
  /\ RelationPage \in Nat \ {0}

Live == [is |-> "live"]
Policy(scope, roles) == [is |-> "policy", scope |-> scope, roles |-> roles]
PolicyValues(p) ==
  {Absent} \cup {Policy(s, rs) : s \in {t \in Scopes : ProfileOf[t] = KeptBy[p]},
                               rs \in (SUBSET AuthRoles) \ {{}}}

AuthInit ==
  /\ command \in {"auth grant", "auth remove"}
  /\ \E f \in [Policies -> UNION {PolicyValues(p) : p \in Policies}], alive \in SUBSET Scopes :
       /\ \A p \in Policies : f[p] \in PolicyValues(p)
       /\ store = [x \in Policies \cup Scopes |->
                    IF x \in Policies THEN f[x] ELSE IF x \in alive THEN Live ELSE Absent]
  /\ \E r \in AuthRoles : args = [role |-> r]

\* FindResourceByName: whichever profile answers first.
Found == {s \in Scopes : store[s] = Live}
NotFound == Found = {} /\ Stop("error")

MemberPolicies == {p \in DOMAIN store \ Scopes : store[p].is = "policy"}
FirstOf(ids) == CHOOSE p \in ids : \A q \in ids : p <= q
GivingAny(ids, scope) == {p \in ids : store[p].scope = scope}  \* mutant: of any role
Giving(ids, scope) == {p \in ids : store[p].scope = scope /\ args.role \in store[p].roles}

\* The policies of the IAM that resource s belongs to.
PoliciesBeside(s) == {p \in MemberPolicies : ProfileOf[store[p].scope] = ProfileOf[s]}

\* memberRelationPolicies of that IAM: the first page only.
FirstPage(s) == {p \in PoliciesBeside(s) :
                   Cardinality({q \in PoliciesBeside(s) : q < p}) < RelationPage}

\* The policy that findRemovePolicyID takes for the one of resource s.
Removable(s) == Giving(FirstPage(s), s)

\* The requests.  Member and role are the ones the profile's IAM has under the
\* names of the arguments.
Grant(s) == [op |-> "grant", as |-> args.role, scope |-> s, profile |-> ProfileOf[s]]
Revoke(p, s) == [op |-> "revoke", as |-> args.role, policy |-> p, profile |-> ProfileOf[s]]

\* The scope a call has resolved, and what it goes on with.
Resolved(scope, id, reply) ==
  plan' = [writes |-> plan.writes, shown |-> plan.shown,
           scope |-> scope, id |-> id, reply |-> reply]

PreflightGrant ==
  /\ At("auth grant", "prepare")
  /\ \/ NotFound
     \/ \E s \in Found :
          IF Giving(MemberPolicies, s) # {} THEN Stop("already exists")
          ELSE Present({Grant(s)}, Just(s, store[s]))

\* The second GrantAFS: sign in where discovery needed no token, resolve, list,
\* and the request.
ResolveGrant ==
  /\ At("auth grant", "apply")
  /\ \/ NotFound
     \/ \E s \in Found :
          IF Giving(MemberPolicies, s) # {} THEN Stop("already exists")
          ELSE /\ Resolved(s, FreshPolicy, "")
               /\ Goto("create") /\ UNCHANGED <<input, world, consent>>

\* An item that says nothing clear, has no policy id or is missing altogether
\* has to be verified; reply is what is reported if that does not help.
Unverified(replies) ==
  /\ \E r \in replies : plan' = [plan EXCEPT !.reply = r]
  /\ Goto("verify")

BatchCreate ==
  /\ At("auth grant", "create")
  /\ LET granted == With(store, FreshPolicy, Policy(plan.scope, {args.role}))
         refused == Unverified({"accepted (unverified)", "failed"})
     IN  IF Giving(MemberPolicies, plan.scope) # {}
           THEN Send(Grant(plan.scope), store, "error",
                     refused \/ (Finish("already exists") /\ UNCHANGED plan))
           ELSE \/ Send(Grant(plan.scope), store, "error", refused)
                \/ Send(Grant(plan.scope), granted, "error",
                        \/ Finish("created") /\ UNCHANGED plan
                        \/ Unverified({"created", "accepted (unverified)", "failed"}))

Verify ==
  /\ At("auth grant", "verify")
  /\ \/ Removable(plan.scope) # {} /\ Finish("created")
     \/ Finish(plan.reply)   \* not there, or the list fails
  /\ UNCHANGED <<input, plan, world, consent>>

PreflightRemove ==
  /\ At("auth remove", "prepare")
  /\ \/ NotFound
     \/ \E s \in Found :
          LET p == FirstOf(Removable(s)) IN
          IF Removable(s) = {} THEN Stop("not found")
          ELSE Present({Revoke(p, s)}, Just(p, store[p]))

ResolveRemove ==
  /\ At("auth remove", "apply")
  /\ \/ NotFound
     \/ \E s \in Found :
          IF Removable(s) = {} THEN Stop("not found")
          ELSE /\ Resolved(s, FirstOf(Removable(s)), "")
               /\ Goto("delete") /\ UNCHANGED <<input, world, consent>>

\* The policy goes as a whole, whatever roles it holds by now.
DeletePolicy ==
  /\ At("auth remove", "delete")
  /\ IF store[plan.id] = Absent
       THEN Rejected(Revoke(plan.id, plan.scope))
       ELSE Send(Revoke(plan.id, plan.scope), [store EXCEPT ![plan.id] = Absent], "error",
                 Finish("removed") /\ UNCHANGED plan)

AuthSteps ==
  \/ PreflightGrant \/ ResolveGrant \/ BatchCreate \/ Verify
  \/ PreflightRemove \/ ResolveRemove \/ DeletePolicy

AuthOthers ==
  /\ command \in {"auth grant", "auth remove"}
  /\ \/ \E p \in Policies : \E v \in PolicyValues(p) : Touch(p, v)
     \/ \E s \in Scopes, v \in {Live, Absent} : Touch(s, v)

\* A grant that is reported as there is there, on the scope the request named,
\* however unclear the answer was; a removed policy is gone.
AuthReport ==
  /\ command = "auth grant" /\ outcome \in {"created", "already exists"} =>
       \E s \in Scopes : Giving(MemberPolicies, s) # {} /\ (sent # << >> => s = plan.scope)
  /\ command = "auth remove" /\ outcome = "removed" => store[plan.id] = Absent

\* Only policies that give the role in question are deleted, unless somebody
\* changed the policy between its look-up and the request.
OnlyThatRole ==
  [][command = "auth remove" /\ sent' # sent =>
       \A p \in Policies : store'[p] # store[p] =>
         args.role \in store[p].roles \/ p \in touched]_vars

\* profiles.go:131 says that write operations keep all subsequent look-ups and
\* requests in the environment that resource discovery has returned: what is
\* granted or deleted belongs to the profile that was found for the question.
KeepsTheEnvironment ==
  command \in {"auth grant", "auth remove"} =>
    \A v \in Range(sent), w \in agreed : v.profile = w.profile
-----------------------------------------------------------------------------
(***************************************************************************)
(* rayctl auth ssp grant: a member of an SSP workspace gets roles.         *)
(* Workspace, member, roles and priority are resolved for the question and *)
(* again for the request, in the profile of the command.                   *)
(***************************************************************************)
CONSTANTS
  Workspaces,   \* paths of workspaces of the name the user typed
  SSPRoles,
  RoleNames,    \* what --role may say: name or alias
  RolesCalled   \* the roles with that name or alias

ASSUME SSPAssumption == RolesCalled \in [RoleNames -> SUBSET SSPRoles]

\* The roles a workspace offers, and those the member has in it.
Workspace(offered, held) == [is |-> "workspace", offered |-> offered, held |-> held]
WorkspaceValues == {Absent} \cup {Workspace(o, h) : o \in SUBSET SSPRoles, h \in SUBSET SSPRoles}

SSPInit ==
  /\ command = "auth ssp grant"
  /\ \E names \in (SUBSET RoleNames) \ {{}} : args = [names |-> names]
  /\ store \in [Workspaces -> WorkspaceValues]

\* FindSSPWorkspaceForProfile: the first of the list, whatever its path.
WorkspacesFound == {w \in Workspaces : store[w].is = "workspace"}

\* Every name has to match exactly one role of the workspace.
RolesResolve(w) == \A n \in args.names : Cardinality(RolesCalled[n] \cap store[w].offered) = 1
SelectedRoles(w) == UNION {RolesCalled[n] \cap store[w].offered : n \in args.names}

AddMember(w, roles) == [op |-> "add member", as |-> args.names, workspace |-> w, roles |-> roles]

PreflightSSP ==
  /\ At("auth ssp grant", "prepare")
  /\ \/ WorkspacesFound = {} /\ Stop("error")
     \/ \E w \in WorkspacesFound :
          IF RolesResolve(w) THEN Present({AddMember(w, SelectedRoles(w))}, << >>) ELSE Stop("error")

ResolveSSP ==
  /\ At("auth ssp grant", "apply")
  /\ \/ WorkspacesFound = {} /\ Stop("error")
     \/ \E w \in WorkspacesFound :
          IF RolesResolve(w)
            THEN /\ plan' = [writes |-> plan.writes, shown |-> plan.shown,
                             workspace |-> w, roles |-> SelectedRoles(w)]
                 /\ Goto("add") /\ UNCHANGED <<input, world, consent>>
            ELSE Stop("error")

AddMembers ==
  /\ At("auth ssp grant", "add")
  /\ LET request == AddMember(plan.workspace, plan.roles)
         there == store[plan.workspace]
     IN  IF there # Absent /\ plan.roles \subseteq there.offered
           THEN Send(request,
                     [store EXCEPT ![plan.workspace] = Workspace(there.offered, there.held \cup plan.roles)],
                     "error", Finish("updated") /\ UNCHANGED plan)
           ELSE Rejected(request)

SSPSteps == PreflightSSP \/ ResolveSSP \/ AddMembers

SSPOthers ==
  /\ command = "auth ssp grant"
  /\ \E w \in Workspaces, v \in WorkspaceValues : Touch(w, v)

\* A member that is reported as updated has a role for each name of the
\* arguments, in the workspace the request named: one it offered under that
\* name.
SSPReport ==
  outcome = "updated" /\ command = "auth ssp grant" =>
    \A n \in args.names : RolesCalled[n] \cap store[plan.workspace].held # {}
=============================================================================
