----------------------------- MODULE MCCommands -----------------------------
(* Small services for Commands. *)
EXTENDS Commands, TLC

CONSTANTS alice, bob, carol,   \* members
          s1, s2,              \* resources of the typed name, in two profiles
          n1, n2, n3,          \* compute nodes
          w1, w2,              \* SSP workspaces of one name, in two regions
          r1, r2               \* their roles

MCMembers == {alice, bob, carol}
MCMemberNames == {"alice", "b", "bc"}
MCMatchesOf == ("alice" :> {alice}) @@ ("b" :> {bob}) @@ ("bc" :> {bob, carol})

MCScopes == {s1, s2}
MCProfileOf == (s1 :> "p1") @@ (s2 :> "p2")
MCKeptBy == (1 :> "p1") @@ (2 :> "p1") @@ (3 :> "p2")

MCACNs == {n1, n2, n3}
MCNodesCalled == ("n1" :> {n1}) @@ ("ip1" :> {n1}) @@ ("n23" :> {n2, n3})
MCUsable == {n1, n2}

MCWorkspaces == {w1, w2}
MCSSPRoles == {r1, r2}
MCRolesCalled == ("admin" :> {r1}) @@ ("user" :> {r1, r2})

MCClaimNamed == "x" :> "pvc-x"

MCK8sNodes == {n1, n2}
MCNodeNamed == ("h1" :> n1) @@ ("ip1" :> n1) @@ ("h2" :> n2)
=============================================================================
