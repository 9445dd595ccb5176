------------------------------- MODULE Groups -------------------------------
(***************************************************************************)
(* User groups, their members and their permissions.  Administrators      *)
(* create, patch and delete groups and replace member and permission sets *)
(* while users log in and the server restarts.  Apart from a patch, no     *)
(* operation is a transaction: every statement is a step.                  *)
(*                                                                         *)
(* The seed groups are Administrators and Members; the two template groups *)
(* of bootstrap_groups are ordinary ones.  Descriptions and timestamps are *)
(* left out.  A call may end between any two of its statements, because    *)
(* one fails, its request is dropped or the server restarts.  A route asks *)
(* its permission of `by', root or a user; the reauth it may also ask for  *)
(* is Elevation's.                                                         *)
(***************************************************************************)
EXTENDS Requests

CONSTANTS
    Group,        \* group ids, never used twice
    Administrators, Members,  \* the ids of the seeds of the first boot
    Name,         \* names administrators choose, seed names included
    User,
    Permission,   \* the manifest
    RootOnly,     \* the permissions of the manifest that groups do not imply
    Edited,       \* groups whose permissions are replaced, and by which sets
    Requested,
    Root          \* the root principal, who is no user

VARIABLES
    group,    \* groups: the row of an id, or None
    member,   \* group_members, as <<group, user>>
    perm,     \* group_permissions, as <<group, permission>>
    used,     \* ids that have been given out
    job,      \* what every handler does
    assigned, \* history: users an administrator put in an admin_scope group
    misnamed, \* history: an admin_scope group was once named Members
    unfinished \* history: a seeding ended between its two statements and no
               \* statement has cleared the other defaults since

groupVars == <<group, member, perm, used, job, assigned, misnamed, unfinished>>
ghosts == <<used, assigned, misnamed, unfinished>>

GroupRow == [name : Name \cup {"Administrators", "Members"}, admin : BOOLEAN,
             protected : BOOLEAN, default : BOOLEAN]
Row(name, admin, protected, default) ==
    [name |-> name, admin |-> admin, protected |-> protected, default |-> default]
ASSUME GroupsAssumption ==
    /\ {Administrators, Members} \subseteq Group /\ Administrators # Members
    /\ None \notin GroupRow \cup User \cup Name

Stored == {g \in Group : group[g] # None}
Named(n) == {g \in Stored : group[g].name = n}
Default == {g \in Stored : group[g].default}
Free == Group \ used

\* A first boot has created the seeds, and every user has logged in once.
GroupsInit ==
    /\ group = [g \in Group |->
          CASE g = Administrators -> Row("Administrators", TRUE, TRUE, FALSE)
            [] g = Members        -> Row("Members", FALSE, TRUE, TRUE)
            [] OTHER              -> None]
    /\ used = {Administrators, Members}
    /\ member = {Members} \X User
    /\ perm = {}
    /\ job = [h \in Handler |-> Idle]
    /\ assigned = {}
    /\ misnamed = FALSE
    /\ unfinished = FALSE

\* INSERT INTO groups
Insert(g, row) ==
    /\ g \in Free
    /\ group' = [group EXCEPT ![g] = row]
    /\ used' = used \cup {g}

Begin(h, j) == job[h] = Idle /\ job' = [job EXCEPT ![h] = j]
At(h, pc) == job[h].pc = pc
Step(h, j) == job' = [job EXCEPT ![h] = j]
Finish(h) == job' = [job EXCEPT ![h] = Idle]

\* UPDATE groups SET is_default = (id = g): also when g is gone.
OnlyDefaultToo(g) ==
    [x \in Group |-> IF x = g /\ group[x] # None THEN [group[x] EXCEPT !.default = TRUE]
                     ELSE group[x]]
OnlyDefault(g) ==
    [x \in Group |-> IF group[x] = None THEN None ELSE [group[x] EXCEPT !.default = (x = g)]]

-----------------------------------------------------------------------------
(* What a user may do.                                                     *)

non_root_only_ids == Permission \ RootOnly
permissions_for_user(u) ==
    {p \in Permission : \E g \in Stored : <<g, u>> \in member /\ <<g, p>> \in perm}
        \cup (IF \E g \in Stored : <<g, u>> \in member /\ group[g].admin
              THEN non_root_only_ids ELSE {})

Wildcard == "*:*"
permissions_for_principal(by) ==
    IF by = Root THEN {Wildcard} ELSE permissions_for_user(by)
require(by, p) == {Wildcard, p} \cap permissions_for_principal(by) # {}
validate_group_permission(p) == p # Wildcard /\ p \in Permission

-----------------------------------------------------------------------------
(* Create, patch and delete.                                               *)

\* A used name is a conflict.
CreateInsert(h, g, n, default) ==
    /\ Named(n) = {}
    /\ Insert(g, Row(n, FALSE, FALSE, FALSE))
    /\ Begin(h, IF default THEN [pc |-> "create", g |-> g] ELSE Idle)
    /\ UNCHANGED <<member, perm, assigned, misnamed, unfinished>>

create_group(by, h, g, n, default) ==
    require(by, "group:create") /\ CreateInsert(h, g, n, default)

CreateDefault(h) ==
    /\ At(h, "create")
    /\ group' = OnlyDefault(job[h].g)
    /\ unfinished' = FALSE
    /\ Finish(h)
    /\ UNCHANGED <<member, perm, used, assigned, misnamed>>

\* n = None keeps the name.
PatchRead(h, g, n, default) ==
    /\ g \in Stored
    /\ Begin(h, [pc |-> "patch", g |-> g, name |-> n, default |-> default,
                 admin |-> group[g].admin])
    /\ UNCHANGED <<group, member, perm, ghosts>>

patch_group(by, h, g, n, default) ==
    require(by, "group:edit") /\ PatchRead(h, g, n, default)

\* One transaction: a used name or an admin_scope default rolls all back.
PatchApply(h, refused) ==
    LET j == job[h]
        renamed == [x \in Group |-> IF x = j.g /\ group[x] # None /\ j.name # None
                                    THEN [group[x] EXCEPT !.name = j.name] ELSE group[x]]
    IN
    /\ At(h, "patch")
    /\ IF refused \/ (j.g \in Stored /\ Named(j.name) \ {j.g} # {})
       THEN UNCHANGED <<group, unfinished>>
       ELSE /\ group' = [x \in Group |->
                 IF j.default /\ renamed[x] # None
                 THEN [renamed[x] EXCEPT !.default = (x = j.g)] ELSE renamed[x]]
            /\ unfinished' = (unfinished /\ ~j.default)
    /\ misnamed' = (misnamed \/ \E x \in Group :
          group'[x] # None /\ group'[x].admin /\ group'[x].name = "Members")
    /\ Finish(h)
    /\ UNCHANGED <<member, perm, used, assigned>>
PatchAnyDefault(h) == PatchApply(h, FALSE)
PatchCommit(h) == PatchApply(h, job[h].default /\ job[h].admin)

\* Protected groups and the default one are refused.
DeleteRead(h, g) ==
    /\ g \in Stored
    /\ ~group[g].protected /\ ~group[g].default
    /\ Begin(h, [pc |-> "delete", g |-> g])
    /\ UNCHANGED <<group, member, perm, ghosts>>

delete_group(by, h, g) == require(by, "group:delete") /\ DeleteRead(h, g)

\* The members and permissions go with the group (ON DELETE CASCADE).
DeleteCommit(h) ==
    LET g == job[h].g IN
    /\ At(h, "delete")
    /\ group' = [group EXCEPT ![g] = None]
    /\ member' = member \ ({g} \X User)
    /\ perm' = perm \ ({g} \X Permission)
    /\ Finish(h)
    /\ UNCHANGED ghosts

-----------------------------------------------------------------------------
(* PUT /members and PUT /permissions.                                      *)

MembersRead(h, g, new) ==
    /\ g \in used
    /\ Begin(h, [pc |-> "clear", g |-> g, new |-> new,
                 old |-> {u \in User : <<g, u>> \in member}])
    /\ assigned' = IF g \in Stored /\ group[g].admin THEN assigned \cup new ELSE assigned
    /\ UNCHANGED <<group, member, perm, used, misnamed, unfinished>>

replace_members(by, h, g, new) ==
    require(by, "group:assign_user") /\ MembersRead(h, g, new)

MembersClear(h) ==
    LET j == job[h] IN
    /\ At(h, "clear")
    /\ member' = member \ ({j.g} \X User)
    /\ Step(h, [pc |-> "add", g |-> j.g, todo |-> j.new, lost |-> j.old \ j.new])
    /\ UNCHANGED <<group, perm, ghosts>>

\* One insert per user; a deleted group ends the call with an error.
MembersAdd(h) ==
    LET j == job[h] IN
    /\ At(h, "add")
    /\ IF j.todo = {} THEN Step(h, [pc |-> "ensure", lost |-> j.lost]) /\ UNCHANGED member
       ELSE \E u \in j.todo :
            IF j.g \in Stored
            THEN member' = member \cup {<<j.g, u>>} /\ Step(h, [j EXCEPT !.todo = @ \ {u}])
            ELSE Finish(h) /\ UNCHANGED member
    /\ UNCHANGED <<group, perm, ghosts>>

PermissionsClear(h, g, new) ==
    /\ g \in used
    /\ \A p \in new : validate_group_permission(p)
    /\ perm' = perm \ ({g} \X Permission)
    /\ Begin(h, [pc |-> "grant", g |-> g, todo |-> new])
    /\ UNCHANGED <<group, member, ghosts>>

replace_permissions(by, h, g, new) ==
    require(by, "group:edit") /\ PermissionsClear(h, g, new)

PermissionsAdd(h) ==
    LET j == job[h] IN
    /\ At(h, "grant")
    /\ IF j.todo = {} \/ j.g \notin Stored THEN Finish(h) /\ UNCHANGED perm
       ELSE \E p \in j.todo :
            perm' = perm \cup {<<j.g, p>>} /\ Step(h, [j EXCEPT !.todo = @ \ {p}])
    /\ UNCHANGED <<group, member, ghosts>>

-----------------------------------------------------------------------------
(* A user without a group joins the default one: after a replacement, and  *)
(* at every login.                                                         *)

Login(h, u) ==
    /\ Begin(h, [pc |-> "ensure", lost |-> {u}])
    /\ UNCHANGED <<group, member, perm, ghosts>>

\* Without a default group, the seeds are created again and Members is it.
EnsureRead(h) ==
    LET j == job[h] IN
    /\ At(h, "ensure")
    /\ IF j.lost = {} THEN Finish(h)
       ELSE \E u \in j.lost :
            IF \E g \in Group : <<g, u>> \in member
            THEN Step(h, [j EXCEPT !.lost = @ \ {u}])
            ELSE IF Default # {}
            THEN \E g \in Default : Step(h, [pc |-> "join", g |-> g, u |-> u, lost |-> j.lost])
            ELSE Step(h, [pc |-> "seed", u |-> u, lost |-> j.lost])
    /\ UNCHANGED <<group, member, perm, ghosts>>

\* A group deleted meanwhile ends the call with an error.
EnsureJoin(h) ==
    LET j == job[h] IN
    /\ At(h, "join")
    /\ IF j.g \in Stored
       THEN /\ member' = member \cup {<<j.g, j.u>>}
            /\ Step(h, [pc |-> "ensure", lost |-> j.lost \ {j.u}])
       ELSE Finish(h) /\ UNCHANGED member
    /\ UNCHANGED <<group, perm, ghosts>>

-----------------------------------------------------------------------------
(* bootstrap_groups, at start-up (no user) or for a user without a group.  *)

\* A statement fails, or the request is dropped.
Abandon(h) ==
    /\ job[h] # Idle
    /\ Finish(h)
    /\ unfinished' = (unfinished \/ At(h, "seeded"))
    /\ UNCHANGED <<group, member, perm, used, assigned, misnamed>>

\* What was under way is lost.
Restart(h) ==
    /\ job' = [x \in Handler |-> IF x = h THEN [pc |-> "seed", u |-> None, lost |-> {}] ELSE Idle]
    /\ unfinished' = (unfinished \/ \E x \in Handler : At(x, "seeded"))
    /\ UNCHANGED <<group, member, perm, used, assigned, misnamed>>

After(h, j) ==
    IF j.u = None \/ Named("Members") = {} THEN Finish(h)
    ELSE \E m \in Named("Members") :
           Step(h, [pc |-> "join", g |-> m, u |-> j.u, lost |-> j.lost])

SeedAdministrators(h) ==
    /\ At(h, "seed") /\ Named("Administrators") = {}
    /\ \E g \in Free : Insert(g, Row("Administrators", TRUE, TRUE, FALSE))
    /\ UNCHANGED <<job, member, perm, assigned, misnamed, unfinished>>

\* Only a new row clears the other defaults, with a statement of its own.
SeedMembers(h) ==
    LET j == job[h] IN
    /\ At(h, "seed") /\ Named("Administrators") # {}
    /\ IF Named("Members") # {} THEN After(h, j) /\ UNCHANGED <<group, used>>
       ELSE /\ \E g \in Free : Insert(g, Row("Members", FALSE, TRUE, TRUE))
            /\ Step(h, [j EXCEPT !.pc = "seeded"])
    /\ UNCHANGED <<member, perm, assigned, misnamed, unfinished>>

SeedDefault(h) ==
    LET j == job[h] IN
    /\ At(h, "seeded")
    /\ group' = [x \in Group |-> IF group[x] = None THEN None
                   ELSE [group[x] EXCEPT !.default = (group[x].name = "Members")]]
    /\ unfinished' = FALSE
    /\ After(h, j)
    /\ UNCHANGED <<member, perm, used, assigned, misnamed>>

-----------------------------------------------------------------------------
Request(by, h) ==
    \E g \in Group :
        \/ \E n \in Name, default \in BOOLEAN :
              create_group(by, h, g, n, default) \/ patch_group(by, h, g, n, default)
        \/ patch_group(by, h, g, None, TRUE) \/ delete_group(by, h, g)
        \/ \E new \in SUBSET User : replace_members(by, h, g, new)
        \/ g \in Edited /\ \E new \in Requested : replace_permissions(by, h, g, new)

GroupsNext ==
    \E h \in Handler :
        \/ job[h] = Idle /\ \E by \in User \cup {Root} : Request(by, h)
        \/ \E u \in User : Login(h, u)
        \/ CreateDefault(h) \/ PatchCommit(h) \/ DeleteCommit(h)
        \/ MembersClear(h) \/ MembersAdd(h) \/ PermissionsAdd(h)
        \/ EnsureRead(h) \/ EnsureJoin(h) \/ Abandon(h) \/ Restart(h)
        \/ SeedAdministrators(h) \/ SeedMembers(h) \/ SeedDefault(h)

GroupsSpec == GroupsInit /\ [][GroupsNext]_groupVars

GroupsTypeOK ==
    /\ group \in [Group -> GroupRow \cup {None}]
    /\ Stored \subseteq used /\ used \subseteq Group
    /\ member \subseteq used \X User
    /\ assigned \subseteq User
    /\ perm \subseteq Group \X Permission

(* Nobody becomes an administrator by logging in or by losing a group:     *)
(* what a user may do comes from an explicit permission of a group or from *)
(* an admin_scope group an administrator put the user in, whatever became  *)
(* of the default group meanwhile.  permissions/repo.rs:216-222, 263-267.  *)
(* (Naming an admin_scope group Members defeats this.)                     *)
AdminByAssignment ==
    ~misnamed => \A u \in User : \A p \in permissions_for_user(u) :
        \/ \E g \in Group : <<g, u>> \in member /\ <<g, p>> \in perm
        \/ u \in assigned

(* There is at most one default group, whatever creates, patches, deletes  *)
(* and restarts overlap and wherever a call ends, with one exception: the  *)
(* seeding of Members takes two statements (groups.rs:50-69), and when it  *)
(* ends between them a second default stays until the next statement that  *)
(* clears the others.  "Only one default group globally", as               *)
(* permissions/repo.rs:39 has it, holds up to that.                        *)
AtMostOneDefault ==
    ~unfinished /\ (\A h \in Handler : ~At(h, "seeded")) => \A g, x \in Default : g = x

(* Nobody holds the permissions of the administrators unless somebody      *)
(* assigned a group with admin scope, and there is at most one default     *)
(* group unless a seeding was cut short, however handlers that edit groups *)
(* overlap and wherever one of them ends.                                  *)
(* permissions/repo.rs:39-50, permissions/groups.rs.                       *)
GroupsAreSound == GroupsTypeOK /\ AdminByAssignment /\ AtMostOneDefault
=============================================================================
