---------------------------- MODULE MCCredentials ----------------------------
(* Credentials for one principal, one role and three patterns of one app.   *)
EXTENDS Credentials, FiniteSets, TLC

CONSTANT p1

MCStar   == "*"
Docs     == <<"doc", "*">>
Read     == <<"doc", "read">>
Write    == <<"doc", "write">>
Bare     == <<"doc">>
Tenant   == [type |-> "tenant", value |-> "t1"]
Team     == [type |-> "team", value |-> "t1"]

MCSegments == {"*", "doc", "read", "write", "iam", "admin"}
MCAdmin    == <<"iam", "admin">>
MCActions  == {Read, Write, Bare}
MCScopes   == {Global, Tenant, Team}
MCRoleDefs == {{}, {Read}, {AnyAction}}
MCGrantRows == {[to |-> p1, role |-> "editor", permissions |-> {}, scope |-> Global],
                [to |-> p1, role |-> "inline", permissions |-> {Read}, scope |-> Tenant]}
At(a, s) == [action |-> a, scope |-> s]
MCInlines == {{}, {At(Docs, Global)}, {At(Read, Tenant)}, {At(Read, Team), At(Read, Tenant)}}
Symmetry == Permutations(Requests) \cup Permutations(Keys)
=============================================================================
