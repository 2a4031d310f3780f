------------------------------- MODULE Access -------------------------------
(***************************************************************************)
(* Roles and object grants (services/role_service.py,                      *)
(* services/permissions_service.py, routes/v1/permissions.py and roles.py).*)
(* A request that changes grants first settles that its user may, then     *)
(* deletes the grant's row and inserts the new one, two statements other   *)
(* requests come between.                                                  *)
(***************************************************************************)
EXTENDS Integers, FiniteSets

CONSTANTS Users,        \* people, each also a principal
          Groups,       \* workspace groups; "users" is the group of everyone
          MemberOf,     \* the groups of each user
          AdminGroup,   \* the bootstrap group of administrators
          Objects,      \* of Table, Product and Rule, one object of each type
          Table, Product, Rule,
          Nobody,
          MaxChanges

\* Assumed: MemberOf \in [Users -> SUBSET (Groups \cup {AdminGroup})]
\*   /\ Objects \subseteq {Table, Product, Rule} /\ MaxChanges \in Nat

VARIABLES mappings,   \* dq_role_mappings: <<role, group>>
          owner,      \* the creator of each object, Nobody before it exists
          members,    \* the table is a member of the product
          share,      \* share_tables_with_workspace_users
          grants,     \* dq_object_grants, at most one per object and principal
          request,    \* the grant change each user has under way
          given,      \* history: grants of MANAGE that were asked for
          changes

accessVars == <<mappings, owner, members, share, grants, request, given, changes>>

Principals == Users \cup Groups \cup {"users"}
Concrete == {"SELECT", "MODIFY", "APPLY", "EXECUTE"}
ROLE_PRIORITY == <<"viewer", "rule_author", "rule_approver", "admin">>
_ROLE_BYPASS == {"admin", "rule_approver"}
_AUTHORS_AND_ABOVE == {"admin", "rule_approver", "rule_author"}

\* The sets of privileges that requests ask for.
Asked == {{}, {"ALL_PRIVILEGES"}, {"MANAGE", "SELECT"}}

Idle == [step |-> "idle"]

-----------------------------------------------------------------------------
(* Privileges. *)

\* A bug: whoever has all privileges may hand them on.
AllIncludesManage(privileges) ==
  IF "ALL_PRIVILEGES" \in privileges THEN Concrete \cup {"MANAGE"} ELSE privileges

\* ALL_PRIVILEGES stands for what is concrete, not for managing grants.
expand_privileges(privileges) ==
  (IF "ALL_PRIVILEGES" \in privileges THEN Concrete ELSE privileges \cap Concrete)
    \cup (privileges \cap {"MANAGE"})

normalize_privileges(privileges) ==
  (IF "ALL_PRIVILEGES" \in privileges \/ Concrete \subseteq privileges
   THEN {"ALL_PRIVILEGES"} ELSE privileges \cap Concrete)
    \cup (privileges \cap {"MANAGE"})

default_users_group_privileges_for(object) ==
  IF object = Rule THEN {"SELECT", "APPLY"} ELSE {"SELECT", "APPLY", "EXECUTE"}

\* A rule has nothing to execute.
Storable(object, privileges) ==
  normalize_privileges(IF object = Rule THEN expand_privileges(privileges) \ {"EXECUTE"} ELSE privileges)

-----------------------------------------------------------------------------
(* Decisions. *)

\* The highest role mapped to a group of the user.
resolve_role(user) ==
  LET matched == {i \in 1..4 : \E g \in MemberOf[user] \cup {user} : <<ROLE_PRIORITY[i], g>> \in mappings}
  IN IF AdminGroup \in MemberOf[user] THEN "admin"
     ELSE IF matched = {} THEN "viewer"
     ELSE ROLE_PRIORITY[CHOOSE i \in matched : \A j \in matched : j <= i]

\* A failed lookup of the user leaves the least role.
Role(user) == {resolve_role(user), "viewer"}

Matches(grant, user) == grant.principal \in MemberOf[user] \cup {user, "users"}
list_grants(object) == {g \in grants : g.object = object}

\* A table takes from its products the grants meant to be inherited, never
\* those of the users group.
Inherited(object) ==
  IF object = Table /\ members
  THEN {g \in list_grants(Product) : g.inherit /\ g.principal # "users"}
  ELSE {}

effective_privileges(object, user) ==
  UNION {expand_privileges(g.privileges) :
           g \in {h \in list_grants(object) \cup Inherited(object) : Matches(h, user)}}

has_privilege(object, privilege, user, role) ==
  role \in _ROLE_BYPASS \/ privilege \in effective_privileges(object, user)

\* The groups of the user may be unreadable: then only the bypass, ownership
\* and grants to the user or to everyone remain.
can_manage_grants(object, user, role) ==
  \/ role \in _ROLE_BYPASS
  \/ owner[object] = user
  \/ "MANAGE" \in effective_privileges(object, user)

-----------------------------------------------------------------------------
(* Requests. *)

Init ==
  /\ mappings = {<<"rule_author", g>> : g \in Groups}
  /\ owner = [o \in Objects |-> Nobody] /\ members = FALSE /\ share \in BOOLEAN
  /\ grants = {} /\ request = [u \in Users |-> Idle] /\ given = {}
  /\ changes = 0

Row(object, principal, privileges, inherit) ==
  [object |-> object, principal |-> principal, privileges |-> privileges, inherit |-> inherit]

\* The default rows of a new object: for the users group when it is shared, and
\* for its creator.
Seeded(object, user) ==
  (IF object = Rule \/ share
   THEN {Row(object, "users", Storable(object, default_users_group_privileges_for(object)), FALSE)} ELSE {})
    \cup {Row(object, user, Storable(object, {"ALL_PRIVILEGES"}), FALSE)}

\* A failure between the statements leaves any of the rows out.
CreateObject(user, object) ==
  /\ owner[object] = Nobody /\ \E role \in Role(user) : role \in _AUTHORS_AND_ABOVE
  /\ owner' = [owner EXCEPT ![object] = user]
  /\ \E seeded \in {{}, {g \in Seeded(object, user) : g.principal = "users"}, Seeded(object, user)} :
       grants' = grants \cup seeded
  /\ UNCHANGED <<mappings, members, share, request, given, changes>>

\* Membership is decided on the product.
SetMember(user) ==
  /\ {Table, Product} \subseteq {o \in Objects : owner[o] # Nobody}
  /\ \E role \in Role(user) : role # "viewer" /\ has_privilege(Product, "APPLY", user, role)
  /\ members' = ~members
  /\ UNCHANGED <<mappings, owner, share, grants, request, given, changes>>

\* Administrators map roles to groups and share tables.
MapRole(user) ==
  /\ changes < MaxChanges /\ "admin" \in Role(user)
  /\ \/ \E g \in Groups, r \in {"rule_author", "rule_approver"} :
          mappings' = mappings \cup {<<r, g>>} /\ mappings' # mappings
     \/ \E mapping \in mappings : mappings' = mappings \ {mapping}
  /\ changes' = changes + 1
  /\ UNCHANGED <<owner, members, share, grants, request, given>>

\* set_object_grant and remove_object_grant up to their decision; a set that
\* leaves no privilege is a removal.
AskForGrant(user) ==
  /\ request[user] = Idle /\ changes < MaxChanges
  /\ \E o \in Objects, p \in Principals, asked \in Asked, inherit \in BOOLEAN, role \in Role(user) :
       /\ owner[o] # Nobody /\ role \in _AUTHORS_AND_ABOVE /\ can_manage_grants(o, user, role)
       /\ inherit => o = Product
       /\ asked = {} => ~inherit
       /\ request' = [request EXCEPT ![user] =
            [step |-> "delete", row |-> Row(o, p, Storable(o, asked), inherit), role |-> role,
             because |-> IF role \in _ROLE_BYPASS \/ owner[o] = user THEN "right" ELSE "grant"]]
  /\ changes' = changes + 1
  /\ UNCHANGED <<mappings, owner, members, share, grants, given>>

_delete_row(user) ==
  LET row == request[user].row
  IN /\ request[user].step = "delete"
     /\ grants' = {g \in grants : g.object # row.object \/ g.principal # row.principal}
     /\ request' = [request EXCEPT ![user] = IF row.privileges = {} THEN Idle ELSE [@ EXCEPT !.step = "insert"]]
     /\ UNCHANGED <<mappings, owner, members, share, given, changes>>

\* One row per object and principal: the insert fails when another request was
\* faster, and may fail for any other reason.
InsertRow(user) ==
  LET row == request[user].row
      taken == \E g \in grants : g.object = row.object /\ g.principal = row.principal
  IN /\ request[user].step = "insert"
     /\ \/ UNCHANGED <<grants, given>>
        \/ /\ ~taken
           /\ grants' = grants \cup {row}
           /\ given' = IF "MANAGE" \in row.privileges THEN given \cup {row} ELSE given
     /\ request' = [request EXCEPT ![user] = Idle]
     /\ UNCHANGED <<mappings, owner, members, share, changes>>

Next ==
  \E user \in Users :
    \/ \E object \in Objects : CreateObject(user, object)
    \/ SetMember(user) \/ MapRole(user)
    \/ AskForGrant(user) \/ _delete_row(user) \/ InsertRow(user)

Spec == Init /\ [][Next]_accessVars

-----------------------------------------------------------------------------

\* Nobody changes the grants of an object on the strength of a grant unless
\* MANAGE itself was once given, on the object or, to be inherited, on the
\* product, to the user or to a group the user is in; not even the grant of
\* everything that creators receive counts.
ManageIsHandedDown ==
  \A user \in Users :
    request[user].step # "idle" /\ request[user].because = "grant" =>
      \E g \in given :
        /\ Matches(g, user)
        /\ \/ g.object = request[user].row.object
           \/ request[user].row.object = Table /\ g.object = Product /\ g.inherit /\ g.principal # "users"

=============================================================================
