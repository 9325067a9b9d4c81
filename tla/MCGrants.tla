------------------------------- MODULE MCGrants -------------------------------
(* Grants for one role key besides the built-in one and three schemas: a    *)
(* first release, a release that drops an action and the role, and tries   *)
(* to declare "admin", and the empty schema that withdraws the app. No      *)
(* schema has the action "doc.gone", which a caller of issueKey wants for a *)
(* service.                                                                 *)
EXTENDS Grants, TLC

CONSTANTS u1, s1

MCStar == "*"
Docs   == <<"doc", "*">>
View   == <<"doc", "read">>
Gone   == <<"doc", "gone">>
Edit   == <<"doc", "edit">>

MCSegments == {"*", "doc", "read", "edit", "gone"}
MCSchemas ==
    {[actions |-> {View, Edit}, scopes |-> {"team"}, roles |-> ("editor" :> {Docs})],
     [actions |-> {View}, scopes |-> {}, roles |-> ("admin" :> {View})],
     [actions |-> {}, scopes |-> {}, roles |-> [k \in {} |-> {}]]}
MCPatternSets == {{Edit}}
To(app, role, permissions) ==
    [to |-> u1, app |-> app, role |-> role, permissions |-> permissions, by |-> "createGrant"]
MCGrantRows == {To("this", "editor", {}), To("all", "editor", {}), To("this", "inline", {Edit}),
                To("all", "inline", {AnyAction})}
MCServiceRows == {[to |-> s1, app |-> "this", role |-> "inline", permissions |-> {Gone},
                   by |-> "issueKey"]}
=============================================================================
