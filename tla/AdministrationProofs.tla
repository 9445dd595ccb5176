------------------------ MODULE AdministrationProofs ------------------------
(***************************************************************************)
(* Proofs about what administrators and operators are trusted with, for    *)
(* any number of handlers, groups, users, sessions, rooms and files.       *)
(***************************************************************************)
EXTENDS Groups, GithubLogin, Elevation, Rooms, PmpConfig, Startup,
        FiniteSetTheorems, TLAPS

-----------------------------------------------------------------------------
(* Permission groups.                                                      *)

\* What a handler knows of the rows it read before, in terms of the tables
\* as they are now.  Ids are not used twice and admin_scope is never edited,
\* so what is known of an id stays true while its row is there.
JobOK(j, rows, ids, put, mis) ==
    /\ j.pc \in {"idle", "create", "patch", "delete", "clear", "add", "ensure", "grant",
                 "join", "seed", "seeded"}
    /\ j.pc = "create" =>
          j = [pc |-> "create", g |-> j.g] /\ j.g \in ids /\ (rows[j.g] # None => ~rows[j.g].admin)
    /\ j.pc = "patch" =>
          /\ j = [pc |-> "patch", g |-> j.g, name |-> j.name, default |-> j.default, admin |-> j.admin]
          /\ j.g \in ids /\ j.name \in Name \cup {None} /\ j.default \in BOOLEAN
          /\ rows[j.g] # None => rows[j.g].admin = j.admin
    /\ j.pc = "delete" => j = [pc |-> "delete", g |-> j.g] /\ j.g \in ids
    /\ j.pc = "clear" =>
          /\ j = [pc |-> "clear", g |-> j.g, new |-> j.new, old |-> j.old]
          /\ j.g \in ids /\ j.new \subseteq User /\ j.old \subseteq User
          /\ rows[j.g] # None /\ rows[j.g].admin => j.new \subseteq put
    /\ j.pc = "add" =>
          /\ j = [pc |-> "add", g |-> j.g, todo |-> j.todo, lost |-> j.lost]
          /\ j.g \in ids /\ j.todo \subseteq User /\ j.lost \subseteq User
          /\ rows[j.g] # None /\ rows[j.g].admin => j.todo \subseteq put
    /\ j.pc = "ensure" => j = [pc |-> "ensure", lost |-> j.lost] /\ j.lost \subseteq User
    /\ j.pc = "grant" =>
          /\ j = [pc |-> "grant", g |-> j.g, todo |-> j.todo]
          /\ j.g \in ids /\ j.todo \subseteq Permission
    /\ j.pc = "join" =>
          /\ j = [pc |-> "join", g |-> j.g, u |-> j.u, lost |-> j.lost]
          /\ j.g \in ids /\ j.u \in User /\ j.lost \subseteq User
          /\ ~mis /\ rows[j.g] # None => ~rows[j.g].admin
    /\ j.pc \in {"seed", "seeded"} =>
          /\ j = [pc |-> j.pc, u |-> j.u, lost |-> j.lost]
          /\ j.u \in User \cup {None} /\ j.lost \subseteq User

JobsInv ==
    /\ job = [h \in Handler |-> job[h]]
    /\ \A h \in Handler : JobOK(job[h], group, used, assigned, misnamed)

NamesAreUnique == \A g, x \in Stored : group[g].name = group[x].name => g = x

\* Unless an admin_scope group was named Members, no login can join one.
AdminIsNoDefault ==
    ~misnamed => \A g \in Stored : group[g].admin => ~group[g].default /\ group[g].name # "Members"

AdminsWereAssigned ==
    ~misnamed => \A g \in Stored, u \in User :
        <<g, u>> \in member /\ group[g].admin => u \in assigned

GroupsInv ==
    /\ GroupsTypeOK
    /\ misnamed \in BOOLEAN /\ unfinished \in BOOLEAN
    /\ JobsInv
    /\ NamesAreUnique
    /\ AdminIsNoDefault
    /\ AdminsWereAssigned
    /\ AtMostOneDefault

\* How the tables may change under a handler that waits.
TablesGrow(rows, ids, put, mis, rows2, ids2, put2, mis2) ==
    /\ ids \subseteq ids2 /\ put \subseteq put2 /\ (mis => mis2)
    /\ \A g \in ids : rows2[g] # None => rows[g] # None /\ rows2[g].admin = rows[g].admin

\* What a handler knows stays true.
LEMMA JobIsStable ==
    ASSUME NEW j, NEW rows, NEW ids, NEW put, NEW mis, NEW rows2, NEW ids2, NEW put2, NEW mis2,
           TablesGrow(rows, ids, put, mis, rows2, ids2, put2, mis2), JobOK(j, rows, ids, put, mis)
    PROVE  JobOK(j, rows2, ids2, put2, mis2)
BY DEF TablesGrow, JobOK

\* So a step has to be right about its own handler only.
LEMMA JobsStep ==
    ASSUME JobsInv, NEW h \in Handler, job' = [x \in Handler |-> job'[x]],
           TablesGrow(group, used, assigned, misnamed, group', used', assigned', misnamed'),
           \A x \in Handler \ {h} : job'[x] = job[x],
           JobOK(job'[h], group', used', assigned', misnamed')
    PROVE  JobsInv'
<1> SUFFICES ASSUME NEW x \in Handler PROVE JobOK(job'[x], group', used', assigned', misnamed')
  BY DEF JobsInv
<1>1. CASE x = h
  BY <1>1
<1>2. CASE x # h
  <2>1. job'[x] = job[x] /\ JobOK(job[x], group, used, assigned, misnamed)
    BY <1>2 DEF JobsInv
  <2>2. QED
    BY <2>1, JobIsStable
<1>3. QED
  BY <1>1, <1>2

\* A step that only moves its own handler on.
LEMMA JobOnly ==
    ASSUME GroupsInv, NEW h \in Handler, NEW j, job' = [job EXCEPT ![h] = j],
           JobOK(j, group, used, assigned, misnamed), job[h].pc # "seeded",
           UNCHANGED <<group, member, perm, used, assigned, misnamed, unfinished>>
    PROVE  GroupsInv'
<1>1. GroupsTypeOK' /\ NamesAreUnique' /\ AdminIsNoDefault' /\ AdminsWereAssigned' /\ misnamed' \in BOOLEAN
      /\ unfinished' \in BOOLEAN
  BY DEF ghosts, GroupsInv, GroupsTypeOK, Stored, NamesAreUnique, AdminIsNoDefault,
         AdminsWereAssigned
<1>2. job' = [x \in Handler |-> job'[x]] /\ job'[h] = j
      /\ \A x \in Handler \ {h} : job'[x] = job[x]
  BY DEF GroupsInv, JobsInv
<1>3. TablesGrow(group, used, assigned, misnamed, group', used', assigned', misnamed')
  BY DEF ghosts, TablesGrow
<1>4. JobsInv'
  BY <1>2, <1>3, JobsStep DEF GroupsInv
<1>5. AtMostOneDefault'
  BY <1>2 DEF ghosts, GroupsInv, AtMostOneDefault, Default, Stored, At
<1>6. QED
  BY <1>1, <1>4, <1>5 DEF GroupsInv

\* A step that also changes members or permissions, and no row.
LEMMA RowsKept ==
    ASSUME GroupsInv, NEW h \in Handler, NEW j, job' = [job EXCEPT ![h] = j],
           JobOK(j, group, used, assigned', misnamed), job[h].pc # "seeded",
           assigned \subseteq assigned', assigned' \subseteq User,
           UNCHANGED <<group, used, misnamed, unfinished>>,
           member' \subseteq used \X User, perm' \subseteq Group \X Permission,
           \A g \in Stored, u \in User : ~misnamed /\ <<g, u>> \in member' \ member /\ group[g].admin
                                         => u \in assigned
    PROVE  GroupsInv'
<1>1. GroupsTypeOK' /\ NamesAreUnique' /\ AdminIsNoDefault' /\ misnamed' \in BOOLEAN
      /\ unfinished' \in BOOLEAN
  BY DEF GroupsInv, GroupsTypeOK, Stored, NamesAreUnique, AdminIsNoDefault
<1>2. job' = [x \in Handler |-> job'[x]] /\ job'[h] = j
      /\ \A x \in Handler \ {h} : job'[x] = job[x]
  BY DEF GroupsInv, JobsInv
<1>3. TablesGrow(group, used, assigned, misnamed, group', used', assigned', misnamed')
  BY DEF TablesGrow
<1>4. JobsInv'
  BY <1>2, <1>3, JobsStep DEF GroupsInv
<1>5. AtMostOneDefault'
  BY <1>2 DEF GroupsInv, AtMostOneDefault, Default, Stored, At
<1>6. AdminsWereAssigned'
  BY DEF GroupsInv, AdminsWereAssigned, Stored
<1>7. QED
  BY <1>1, <1>4, <1>5, <1>6 DEF GroupsInv

\* A handler reads a row, or what a request asks for, and remembers it.
LEMMA ReadStep ==
    ASSUME GroupsInv, NEW h \in Handler,
           \/ \E g \in Group, n \in Name \cup {None}, default \in BOOLEAN : PatchRead(h, g, n, default)
           \/ \E g \in Group : DeleteRead(h, g)
           \/ \E u \in User : Login(h, u)
    PROVE  GroupsInv'
<1>0. Idle.pc # "seeded"
  BY DEF Idle
<1>1. ASSUME NEW g \in Group, NEW n \in Name \cup {None}, NEW default \in BOOLEAN,
             PatchRead(h, g, n, default)
      PROVE  GroupsInv'
  <2> DEFINE j == [pc |-> "patch", g |-> g, name |-> n, default |-> default, admin |-> group[g].admin]
  <2>1. JobOK(j, group, used, assigned, misnamed)
    BY <1>1 DEF JobOK, PatchRead, Stored, GroupsInv, GroupsTypeOK
  <2>2. job[h] = Idle /\ job' = [job EXCEPT ![h] = j]
        /\ UNCHANGED <<group, member, perm, used, assigned, misnamed, unfinished>>
    BY <1>1 DEF PatchRead, Begin, ghosts
  <2>3. QED
    BY <1>0, <2>1, <2>2, JobOnly
<1>2. ASSUME NEW g \in Group, DeleteRead(h, g) PROVE GroupsInv'
  <2> DEFINE j == [pc |-> "delete", g |-> g]
  <2>1. JobOK(j, group, used, assigned, misnamed)
    BY <1>2 DEF JobOK, DeleteRead, Stored, GroupsInv, GroupsTypeOK
  <2>2. job[h] = Idle /\ job' = [job EXCEPT ![h] = j]
        /\ UNCHANGED <<group, member, perm, used, assigned, misnamed, unfinished>>
    BY <1>2 DEF DeleteRead, Begin, ghosts
  <2>3. QED
    BY <1>0, <2>1, <2>2, JobOnly
<1>3. ASSUME NEW u \in User, Login(h, u) PROVE GroupsInv'
  <2> DEFINE j == [pc |-> "ensure", lost |-> {u}]
  <2>1. JobOK(j, group, used, assigned, misnamed)
    BY <1>3 DEF JobOK
  <2>2. job[h] = Idle /\ job' = [job EXCEPT ![h] = j]
        /\ UNCHANGED <<group, member, perm, used, assigned, misnamed, unfinished>>
    BY <1>3 DEF Login, Begin, ghosts
  <2>3. QED
    BY <1>0, <2>1, <2>2, JobOnly
<1>4. QED
  BY <1>1, <1>2, <1>3

\* A call ends before its end, or the server starts again.
LEMMA EndStep ==
    ASSUME GroupsInv, NEW h \in Handler, Abandon(h) \/ Restart(h)
    PROVE  GroupsInv'
<1> DEFINE seeding == [pc |-> "seed", u |-> None, lost |-> {}]
<1>1. /\ UNCHANGED <<group, member, perm, used, assigned, misnamed>>
      /\ job' = [x \in Handler |-> job'[x]]
      /\ \A x \in Handler : job'[x] \in {job[x], Idle, seeding}
  BY DEF Abandon, Restart, Finish, GroupsInv, JobsInv
<1>2. unfinished' \in BOOLEAN /\ (unfinished => unfinished')
      /\ \A x \in Handler : job[x].pc = "seeded" => job'[x].pc = "seeded" \/ unfinished'
  BY DEF Abandon, Restart, Finish, At, GroupsInv, JobsInv
<1>3. GroupsTypeOK' /\ NamesAreUnique' /\ AdminIsNoDefault' /\ AdminsWereAssigned'
      /\ misnamed' \in BOOLEAN
  BY <1>1 DEF GroupsInv, GroupsTypeOK, Stored, NamesAreUnique, AdminIsNoDefault, AdminsWereAssigned
<1>4. JobOK(Idle, group, used, assigned, misnamed) /\ JobOK(seeding, group, used, assigned, misnamed)
  BY DEF JobOK, Idle
<1> HIDE DEF seeding
<1>5. JobsInv'
  BY <1>1, <1>4 DEF GroupsInv, JobsInv
<1>6. AtMostOneDefault'
  BY <1>1, <1>2 DEF GroupsInv, AtMostOneDefault, Default, Stored, At
<1>7. QED
  BY <1>2, <1>3, <1>5, <1>6 DEF GroupsInv

\* PUT /members and PUT /permissions, and the users who lost their groups.
LEMMA MembershipStep ==
    ASSUME GroupsInv, NEW h \in Handler,
           \/ \E g \in Group, new \in SUBSET User : MembersRead(h, g, new)
           \/ \E g \in Group, new \in Requested : PermissionsClear(h, g, new)
           \/ MembersClear(h) \/ MembersAdd(h) \/ PermissionsAdd(h)
           \/ EnsureRead(h) \/ EnsureJoin(h)
    PROVE  GroupsInv'
<1>0. /\ Idle.pc # "seeded" /\ JobOK(Idle, group, used, assigned, misnamed)
      /\ JobOK(job[h], group, used, assigned, misnamed)
      /\ member \subseteq used \X User /\ perm \subseteq Group \X Permission
      /\ assigned \subseteq User /\ used \subseteq Group
      /\ Stored \subseteq used
  BY DEF Idle, JobOK, GroupsInv, JobsInv, GroupsTypeOK
<1>1. ASSUME NEW g \in Group, NEW new \in SUBSET User, MembersRead(h, g, new) PROVE GroupsInv'
  <2> DEFINE j == [pc |-> "clear", g |-> g, new |-> new, old |-> {u \in User : <<g, u>> \in member}]
  <2>1. /\ job[h] = Idle /\ job' = [job EXCEPT ![h] = j] /\ g \in used
        /\ UNCHANGED <<group, member, perm, used, misnamed, unfinished>>
        /\ assigned' = IF g \in Stored /\ group[g].admin THEN assigned \cup new ELSE assigned
    BY <1>1 DEF MembersRead, Begin
  <2>2. JobOK(j, group, used, assigned', misnamed)
    BY <1>0, <2>1 DEF JobOK, Stored
  <2>3. assigned \subseteq assigned' /\ assigned' \subseteq User
    BY <1>0, <2>1
  <2>4. QED
    BY <1>0, <2>1, <2>2, <2>3, RowsKept
<1>2. ASSUME NEW g \in Group, NEW new \in Requested, PermissionsClear(h, g, new) PROVE GroupsInv'
  <2> DEFINE j == [pc |-> "grant", g |-> g, todo |-> new]
  <2>1. /\ job[h] = Idle /\ job' = [job EXCEPT ![h] = j] /\ g \in used
        /\ new \subseteq Permission /\ perm' \subseteq perm
        /\ UNCHANGED <<group, member, used, assigned, misnamed, unfinished>>
    BY <1>2 DEF PermissionsClear, Begin, validate_group_permission, ghosts
  <2>2. JobOK(j, group, used, assigned, misnamed)
    BY <2>1 DEF JobOK
  <2>3. QED
    BY <1>0, <2>1, <2>2, RowsKept
<1>3. CASE MembersClear(h)
  <2> DEFINE j == [pc |-> "add", g |-> job[h].g, todo |-> job[h].new, lost |-> job[h].old \ job[h].new]
  <2>1. /\ job[h].pc = "clear" /\ job' = [job EXCEPT ![h] = j] /\ member' \subseteq member
        /\ UNCHANGED <<group, perm, used, assigned, misnamed, unfinished>>
    BY <1>3 DEF MembersClear, At, Step, ghosts
  <2>2. JobOK(j, group, used, assigned, misnamed)
    BY <1>0, <2>1 DEF JobOK
  <2>3. QED
    BY <1>0, <2>1, <2>2, RowsKept
<1>4. CASE MembersAdd(h)
  <2>0. job[h].pc = "add" /\ UNCHANGED <<group, perm, used, assigned, misnamed, unfinished>>
        /\ job[h].todo \subseteq User /\ job[h].g \in used
    BY <1>0, <1>4 DEF MembersAdd, At, ghosts, JobOK
  <2>1. CASE job[h].todo = {}
    <3> DEFINE j == [pc |-> "ensure", lost |-> job[h].lost]
    <3>1. job' = [job EXCEPT ![h] = j] /\ UNCHANGED member
      BY <1>4, <2>1 DEF MembersAdd, Step
    <3>2. JobOK(j, group, used, assigned, misnamed)
      BY <1>0, <2>0 DEF JobOK
    <3>3. QED
      BY <2>0, <3>1, <3>2, JobOnly
  <2>2. ASSUME NEW u \in job[h].todo, job[h].g \in Stored,
               member' = member \cup {<<job[h].g, u>>}, Step(h, [job[h] EXCEPT !.todo = @ \ {u}])
        PROVE  GroupsInv'
    <3> DEFINE j == [pc |-> "add", g |-> job[h].g, todo |-> job[h].todo \ {u}, lost |-> job[h].lost]
    <3>1. job[h] = [pc |-> "add", g |-> job[h].g, todo |-> job[h].todo, lost |-> job[h].lost]
      BY <1>0, <2>0 DEF JobOK
    <3>2. [job[h] EXCEPT !.todo = @ \ {u}] = j
      BY <3>1
    <3>3. job' = [job EXCEPT ![h] = j]
      BY <2>2, <3>2 DEF Step
    <3>4. JobOK(j, group, used, assigned, misnamed)
      BY <1>0, <2>0 DEF JobOK
    <3>5. group[job[h].g].admin => u \in assigned
      BY <1>0, <2>0, <2>2 DEF JobOK, Stored
    <3>6. member' \subseteq used \X User
      BY <1>0, <2>0, <2>2
    <3>7. QED
      BY <1>0, <2>0, <2>2, <3>3, <3>4, <3>5, <3>6, RowsKept
  <2>3. CASE Finish(h) /\ UNCHANGED member
    BY <1>0, <2>0, <2>3, JobOnly DEF Finish
  <2>4. QED
    BY <1>4, <2>1, <2>2, <2>3 DEF MembersAdd
<1>5. CASE PermissionsAdd(h)
  <2>0. job[h].pc = "grant" /\ UNCHANGED <<group, member, used, assigned, misnamed, unfinished>>
        /\ job[h].todo \subseteq Permission /\ job[h].g \in used
        /\ job[h] = [pc |-> "grant", g |-> job[h].g, todo |-> job[h].todo]
    BY <1>0, <1>5 DEF PermissionsAdd, At, ghosts, JobOK
  <2>1. CASE Finish(h) /\ UNCHANGED perm
    BY <1>0, <2>0, <2>1, JobOnly DEF Finish
  <2>2. ASSUME NEW p \in job[h].todo, perm' = perm \cup {<<job[h].g, p>>},
               Step(h, [job[h] EXCEPT !.todo = @ \ {p}])
        PROVE  GroupsInv'
    <3> DEFINE j == [pc |-> "grant", g |-> job[h].g, todo |-> job[h].todo \ {p}]
    <3>1. [job[h] EXCEPT !.todo = @ \ {p}] = j
      BY <2>0
    <3>2. job' = [job EXCEPT ![h] = j]
      BY <2>2, <3>1 DEF Step
    <3>3. JobOK(j, group, used, assigned, misnamed)
      BY <1>0, <2>0 DEF JobOK
    <3>4. perm' \subseteq Group \X Permission
      BY <1>0, <2>0, <2>2
    <3>5. QED
      BY <1>0, <2>0, <3>2, <3>3, <3>4, RowsKept
  <2>3. QED
    BY <1>5, <2>1, <2>2 DEF PermissionsAdd
<1>6. CASE EnsureRead(h)
  <2>0. job[h].pc = "ensure" /\ UNCHANGED <<group, member, perm, used, assigned, misnamed, unfinished>>
        /\ job[h].lost \subseteq User /\ job[h] = [pc |-> "ensure", lost |-> job[h].lost]
    BY <1>0, <1>6 DEF EnsureRead, At, ghosts, JobOK
  <2>1. CASE Finish(h)
    BY <1>0, <2>0, <2>1, JobOnly DEF Finish
  <2>2. ASSUME NEW u \in job[h].lost, Step(h, [job[h] EXCEPT !.lost = @ \ {u}]) PROVE GroupsInv'
    <3> DEFINE j == [pc |-> "ensure", lost |-> job[h].lost \ {u}]
    <3>1. [job[h] EXCEPT !.lost = @ \ {u}] = j
      BY <2>0
    <3>2. job' = [job EXCEPT ![h] = j]
      BY <2>2, <3>1 DEF Step
    <3>3. JobOK(j, group, used, assigned, misnamed)
      BY <2>0 DEF JobOK
    <3>4. QED
      BY <2>0, <3>2, <3>3, JobOnly
  <2>3. ASSUME NEW u \in job[h].lost, NEW g \in Default,
               Step(h, [pc |-> "join", g |-> g, u |-> u, lost |-> job[h].lost])
        PROVE  GroupsInv'
    <3> DEFINE j == [pc |-> "join", g |-> g, u |-> u, lost |-> job[h].lost]
    <3>1. g \in used /\ (~misnamed => ~group[g].admin)
      BY <1>0 DEF Default, GroupsInv, AdminIsNoDefault
    <3>2. JobOK(j, group, used, assigned, misnamed)
      BY <2>0, <3>1 DEF JobOK
    <3>3. QED
      BY <2>0, <2>3, <3>2, JobOnly DEF Step
  <2>4. ASSUME NEW u \in job[h].lost, Step(h, [pc |-> "seed", u |-> u, lost |-> job[h].lost])
        PROVE  GroupsInv'
    <3> DEFINE j == [pc |-> "seed", u |-> u, lost |-> job[h].lost]
    <3>1. JobOK(j, group, used, assigned, misnamed)
      BY <2>0 DEF JobOK
    <3>2. QED
      BY <2>0, <2>4, <3>1, JobOnly DEF Step
  <2>5. QED
    BY <1>6, <2>1, <2>2, <2>3, <2>4 DEF EnsureRead
<1>7. CASE EnsureJoin(h)
  <2>0. job[h].pc = "join" /\ UNCHANGED <<group, perm, used, assigned, misnamed, unfinished>>
        /\ job[h].lost \subseteq User /\ job[h].u \in User /\ job[h].g \in used
    BY <1>0, <1>7 DEF EnsureJoin, At, ghosts, JobOK
  <2>1. CASE job[h].g \in Stored
    <3> DEFINE j == [pc |-> "ensure", lost |-> job[h].lost \ {job[h].u}]
    <3>1. job' = [job EXCEPT ![h] = j] /\ member' = member \cup {<<job[h].g, job[h].u>>}
      BY <1>7, <2>1 DEF EnsureJoin, Step
    <3>2. JobOK(j, group, used, assigned, misnamed)
      BY <2>0 DEF JobOK
    <3>3. ~misnamed => ~group[job[h].g].admin
      BY <1>0, <2>0, <2>1 DEF JobOK, Stored
    <3>4. member' \subseteq used \X User
      BY <1>0, <2>0, <3>1
    <3>5. QED
      BY <1>0, <2>0, <3>1, <3>2, <3>3, <3>4, RowsKept
  <2>2. CASE job[h].g \notin Stored
    BY <1>0, <1>7, <2>0, <2>2, JobOnly DEF EnsureJoin, Finish
  <2>3. QED
    BY <2>1, <2>2
<1>8. QED
  BY <1>1, <1>2, <1>3, <1>4, <1>5, <1>6, <1>7

\* A step that changes rows: it has to keep admin_scope and the ids apart.
LEMMA RowsChange ==
    ASSUME GroupsInv, NEW h \in Handler, NEW j, job' = [job EXCEPT ![h] = j],
           JobOK(j, group', used', assigned, misnamed'),
           group' \in [Group -> GroupRow \cup {None}],
           used \subseteq used', used' \subseteq Group, Stored' \subseteq used',
           misnamed' \in BOOLEAN, misnamed => misnamed', assigned' = assigned,
           member' \subseteq member, perm' \subseteq perm,
           \A g \in used : group'[g] # None => group[g] # None /\ group'[g].admin = group[g].admin
    PROVE  /\ GroupsTypeOK' /\ JobsInv' /\ AdminsWereAssigned'
           /\ job'[h] = j /\ \A x \in Handler \ {h} : job'[x] = job[x]
<1>1. GroupsTypeOK'
  BY DEF GroupsInv, GroupsTypeOK
<1>2. job' = [x \in Handler |-> job'[x]] /\ job'[h] = j
      /\ \A x \in Handler \ {h} : job'[x] = job[x]
  BY DEF GroupsInv, JobsInv
<1>3. TablesGrow(group, used, assigned, misnamed, group', used', assigned', misnamed')
  BY DEF TablesGrow
<1>4. JobsInv'
  BY <1>2, <1>3, JobsStep DEF GroupsInv
<1>5. AdminsWereAssigned'
  BY DEF GroupsInv, GroupsTypeOK, AdminsWereAssigned, Stored
<1>6. QED
  BY <1>1, <1>2, <1>4, <1>5

\* INSERT INTO groups, of a row that is new and whose name is free.
LEMMA InsertStep ==
    ASSUME GroupsInv, NEW h \in Handler, NEW j, job' = [job EXCEPT ![h] = j],
           NEW g \in Group, NEW row \in GroupRow, Insert(g, row), Named(row.name) = {},
           row.admin => ~row.default /\ row.name # "Members",
           row.default => j.pc = "seeded", job[h].pc # "seeded",
           JobOK(j, group', used', assigned, misnamed),
           UNCHANGED <<member, perm, assigned, misnamed, unfinished>>
    PROVE  GroupsInv'
<1>0. /\ group' = [group EXCEPT ![g] = row] /\ used' = used \cup {g} /\ g \notin used
      /\ group \in [Group -> GroupRow \cup {None}] /\ Stored \subseteq used /\ used \subseteq Group
      /\ misnamed \in BOOLEAN /\ None \notin GroupRow
  BY GroupsAssumption DEF Insert, Free, GroupsInv, GroupsTypeOK
<1>1. Stored' = Stored \cup {g} /\ g \notin Stored /\ group'[g] = row
      /\ \A x \in Stored : group'[x] = group[x]
  BY <1>0 DEF Stored
<1>2. group' \in [Group -> GroupRow \cup {None}] /\ Stored' \subseteq used'
      /\ \A x \in used : group'[x] # None => group[x] # None /\ group'[x].admin = group[x].admin
  BY <1>0, <1>1
<1>3. /\ GroupsTypeOK' /\ JobsInv' /\ AdminsWereAssigned'
      /\ job'[h] = j /\ \A x \in Handler \ {h} : job'[x] = job[x]
  BY <1>0, <1>2, RowsChange
<1>4. NamesAreUnique'
  BY <1>1 DEF GroupsInv, NamesAreUnique, Named
<1>5. AdminIsNoDefault'
  BY <1>1 DEF GroupsInv, AdminIsNoDefault
<1>6. AtMostOneDefault'
  <2> SUFFICES ASSUME ~unfinished', \A x \in Handler : job'[x].pc # "seeded", NEW y \in Default', NEW z \in Default'
               PROVE  y = z
    BY DEF AtMostOneDefault, At
  <2>1. \A x \in Handler : job[x].pc # "seeded"
    BY <1>3
  <2>2. ~row.default
    BY <1>3
  <2>3. y \in Default /\ z \in Default
    BY <1>1, <2>2 DEF Default
  <2>4. QED
    BY <2>1, <2>3 DEF GroupsInv, AtMostOneDefault, At
<1>7. QED
  BY <1>0, <1>3, <1>4, <1>5, <1>6 DEF GroupsInv

\* POST /groups and the seeds of bootstrap_groups insert rows.
LEMMA InsertingStep ==
    ASSUME GroupsInv, NEW h \in Handler,
           \/ \E g \in Group, n \in Name, default \in BOOLEAN : CreateInsert(h, g, n, default)
           \/ SeedAdministrators(h) \/ SeedMembers(h)
    PROVE  GroupsInv'
<1>0. /\ Idle.pc = "idle" /\ JobOK(job[h], group, used, assigned, misnamed)
      /\ Stored \subseteq used /\ used \subseteq Group
  BY DEF Idle, GroupsInv, JobsInv, GroupsTypeOK
<1>1. ASSUME NEW g \in Group, NEW n \in Name, NEW default \in BOOLEAN, CreateInsert(h, g, n, default)
      PROVE  GroupsInv'
  <2> DEFINE row == Row(n, FALSE, FALSE, FALSE)
             j == IF default THEN [pc |-> "create", g |-> g] ELSE Idle
  <2>1. /\ Insert(g, row) /\ Named(n) = {} /\ job[h] = Idle /\ job' = [job EXCEPT ![h] = j]
        /\ UNCHANGED <<member, perm, assigned, misnamed, unfinished>>
    BY <1>1 DEF CreateInsert, Begin
  <2>2. row \in GroupRow /\ row.name = n /\ ~row.admin /\ ~row.default
    BY DEF GroupRow, Row
  <2>3. g \in used' /\ group'[g] = row
    BY <2>1 DEF Insert, GroupsInv, GroupsTypeOK
  <2>4. JobOK(j, group', used', assigned, misnamed)
    BY <1>0, <2>2, <2>3 DEF JobOK
  <2> HIDE DEF row, j
  <2>5. QED
    BY <1>0, <2>1, <2>2, <2>4, InsertStep
<1>2. CASE SeedAdministrators(h)
  <2>0. job[h].pc = "seed" /\ Named("Administrators") = {} /\ UNCHANGED <<job, member, perm, assigned, misnamed, unfinished>>
    BY <1>2 DEF SeedAdministrators, At
  <2>1. ASSUME NEW g \in Free, Insert(g, Row("Administrators", TRUE, TRUE, FALSE))
        PROVE  GroupsInv'
    <3> DEFINE row == Row("Administrators", TRUE, TRUE, FALSE)
    <3>1. row \in GroupRow /\ row.name = "Administrators" /\ row.admin /\ ~row.default
      BY DEF GroupRow, Row
    <3>2. g \in Group /\ job' = [job EXCEPT ![h] = job[h]]
      BY <2>0 DEF Free, GroupsInv, JobsInv
    <3>3. JobOK(job[h], group', used', assigned, misnamed)
      BY <1>0, <2>0 DEF JobOK
    <3> HIDE DEF row
    <3>4. QED
      BY <2>0, <2>1, <3>1, <3>2, <3>3, InsertStep DEF row
  <2>2. QED
    BY <1>2, <2>1 DEF SeedAdministrators
<1>3. CASE SeedMembers(h)
  <2>0. /\ job[h].pc = "seed" /\ UNCHANGED <<member, perm, assigned, misnamed, unfinished>>
        /\ job[h].u \in User \cup {None} /\ job[h].lost \subseteq User
        /\ job[h] = [pc |-> "seed", u |-> job[h].u, lost |-> job[h].lost]
    BY <1>0, <1>3 DEF SeedMembers, At, JobOK
  <2>1. CASE Finish(h) /\ UNCHANGED <<group, used>>
    BY <1>0, <2>0, <2>1, JobOnly DEF Finish, JobOK, ghosts
  <2>2. ASSUME NEW m \in Named("Members"), UNCHANGED <<group, used>>, job[h].u # None,
               Step(h, [pc |-> "join", g |-> m, u |-> job[h].u, lost |-> job[h].lost])
        PROVE  GroupsInv'
    <3> DEFINE j == [pc |-> "join", g |-> m, u |-> job[h].u, lost |-> job[h].lost]
    <3>1. m \in used /\ (~misnamed => ~group[m].admin)
      BY <1>0 DEF Named, GroupsInv, AdminIsNoDefault
    <3>2. JobOK(j, group, used, assigned, misnamed)
      BY <2>0, <2>2, <3>1 DEF JobOK
    <3>3. QED
      BY <2>0, <2>2, <3>2, JobOnly DEF Step, ghosts
  <2>3. ASSUME NEW g \in Free, Insert(g, Row("Members", FALSE, TRUE, TRUE)), Named("Members") = {},
               Step(h, [job[h] EXCEPT !.pc = "seeded"])
        PROVE  GroupsInv'
    <3> DEFINE row == Row("Members", FALSE, TRUE, TRUE)
               j == [pc |-> "seeded", u |-> job[h].u, lost |-> job[h].lost]
    <3>1. row \in GroupRow /\ row.name = "Members" /\ ~row.admin
      BY DEF GroupRow, Row
    <3>2. [job[h] EXCEPT !.pc = "seeded"] = j
      BY <2>0
    <3>3. g \in Group /\ job' = [job EXCEPT ![h] = j]
      BY <2>3, <3>2 DEF Free, Step
    <3>4. JobOK(j, group', used', assigned, misnamed) /\ j.pc = "seeded"
      BY <2>0 DEF JobOK
    <3> HIDE DEF row, j
    <3>5. QED
      BY <2>0, <2>3, <3>1, <3>3, <3>4, InsertStep DEF row
  <2>4. QED
    BY <1>3, <2>1, <2>2, <2>3 DEF SeedMembers, After
<1>4. QED
  BY <1>1, <1>2, <1>3

\* An UPDATE that rewrites rows and may end them, but adds none: whoever
\* keeps names unique, leaves at most one default and makes no admin_scope
\* group one keeps the invariant.
LEMMA UpdateStep ==
    ASSUME GroupsInv, NEW h \in Handler, NEW j, job' = [job EXCEPT ![h] = j],
           JobOK(j, group', used, assigned, misnamed'), j.pc # "seeded",
           group' \in [Group -> GroupRow \cup {None}],
           \A g \in Group : group'[g] # None => group[g] # None /\ group'[g].admin = group[g].admin,
           misnamed' \in BOOLEAN, misnamed => misnamed', unfinished' \in BOOLEAN,
           member' \subseteq member, perm' \subseteq perm, UNCHANGED <<used, assigned>>,
           NamesAreUnique', AdminIsNoDefault',
           ~unfinished' /\ (\A x \in Handler \ {h} : job[x].pc # "seeded")
               => \A y, z \in Default' : y = z
    PROVE  GroupsInv'
<1>1. Stored' \subseteq used' /\ used \subseteq Group
  BY DEF GroupsInv, GroupsTypeOK, Stored
<1>2. /\ GroupsTypeOK' /\ JobsInv' /\ AdminsWereAssigned'
      /\ job'[h] = j /\ \A x \in Handler \ {h} : job'[x] = job[x]
  BY <1>1, RowsChange
<1>3. AtMostOneDefault'
  BY <1>2 DEF AtMostOneDefault, At
<1>4. QED
  BY <1>2, <1>3 DEF GroupsInv

\* What an UPDATE of one column leaves of a row.
LEMMA RowDefault ==
    ASSUME NEW r \in GroupRow, NEW d \in BOOLEAN
    PROVE  /\ [r EXCEPT !.default = d] \in GroupRow
           /\ [r EXCEPT !.default = d].name = r.name
           /\ [r EXCEPT !.default = d].admin = r.admin
           /\ [r EXCEPT !.default = d].default = d
BY DEF GroupRow

LEMMA RowName ==
    ASSUME NEW r \in GroupRow, NEW n \in Name
    PROVE  /\ [r EXCEPT !.name = n] \in GroupRow
           /\ [r EXCEPT !.name = n].name = n
           /\ [r EXCEPT !.name = n].admin = r.admin
           /\ [r EXCEPT !.name = n].default = r.default
BY DEF GroupRow

\* The statements of create, patch and delete, and the last of the seeds.
LEMMA CreateDefaultStep == ASSUME GroupsInv, NEW h \in Handler, CreateDefault(h) PROVE GroupsInv'
<1> DEFINE g == job[h].g
<1>0. /\ job[h].pc = "create" /\ group' = OnlyDefault(g) /\ job' = [job EXCEPT ![h] = Idle]
      /\ UNCHANGED <<member, perm, used, assigned, misnamed>> /\ unfinished' = FALSE
      /\ group \in [Group -> GroupRow \cup {None}] /\ None \notin GroupRow
      /\ group[g] # None => ~group[g].admin
      /\ misnamed \in BOOLEAN
  BY GroupsAssumption DEF CreateDefault, At, Finish, ghosts, GroupsInv, GroupsTypeOK, JobsInv, JobOK
<1>1. ASSUME NEW x \in Group, group[x] # None
      PROVE  /\ group'[x] \in GroupRow /\ group'[x].name = group[x].name
             /\ group'[x].admin = group[x].admin /\ group'[x].default = (x = g)
  <2>1. group[x] \in GroupRow /\ (x = g) \in BOOLEAN
    BY <1>0, <1>1
  <2>2. group'[x] = [group[x] EXCEPT !.default = (x = g)]
    BY <1>0, <1>1 DEF OnlyDefault
  <2>3. QED
    BY <2>1, <2>2, RowDefault
<1>2. ASSUME NEW x \in Group, group[x] = None PROVE group'[x] = None
  BY <1>0, <1>2 DEF OnlyDefault
<1>3. group' \in [Group -> GroupRow \cup {None}]
  <2>1. \A x \in Group : group'[x] \in GroupRow \cup {None}
    BY <1>1, <1>2
  <2>2. group' = [x \in Group |-> group'[x]]
    BY <1>0 DEF OnlyDefault
  <2>3. QED
    BY <2>1, <2>2
<1>4. Stored' = Stored
  BY <1>0, <1>1, <1>2 DEF Stored
<1>5. NamesAreUnique'
  BY <1>1, <1>4 DEF GroupsInv, NamesAreUnique, Stored
<1>6. AdminIsNoDefault'
  BY <1>0, <1>1, <1>4 DEF GroupsInv, AdminIsNoDefault, Stored
<1>7. \A y, z \in Default' : y = z
  BY <1>1, <1>4 DEF Default, Stored
<1>8. JobOK(Idle, group', used, assigned, misnamed') /\ Idle.pc # "seeded"
  BY DEF JobOK, Idle
<1>9. \A x \in Group : group'[x] # None => group[x] # None /\ group'[x].admin = group[x].admin
  BY <1>1, <1>2
<1>10. QED
  BY <1>0, <1>3, <1>5, <1>6, <1>7, <1>8, <1>9, UpdateStep

LEMMA SeedDefaultStep == ASSUME GroupsInv, NEW h \in Handler, SeedDefault(h) PROVE GroupsInv'
<1>0. /\ job[h].pc = "seeded" /\ After(h, job[h])
      /\ group' = [x \in Group |-> IF group[x] = None THEN None
                      ELSE [group[x] EXCEPT !.default = (group[x].name = "Members")]]
      /\ UNCHANGED <<member, perm, used, assigned, misnamed>> /\ unfinished' = FALSE
      /\ group \in [Group -> GroupRow \cup {None}] /\ None \notin GroupRow
      /\ misnamed \in BOOLEAN /\ Stored \subseteq used /\ used \subseteq Group
      /\ job[h].u \in User \cup {None} /\ job[h].lost \subseteq User
  BY GroupsAssumption DEF SeedDefault, At, ghosts, GroupsInv, GroupsTypeOK, JobsInv, JobOK
<1>1. ASSUME NEW x \in Group, group[x] = None PROVE group'[x] = None
  BY <1>0, <1>1
<1>2. ASSUME NEW x \in Group, group[x] # None
      PROVE  /\ group'[x] \in GroupRow /\ group'[x].name = group[x].name
             /\ group'[x].admin = group[x].admin /\ group'[x].default = (group[x].name = "Members")
  <2>1. group[x] \in GroupRow /\ (group[x].name = "Members") \in BOOLEAN
    BY <1>0, <1>2
  <2>2. group'[x] = [group[x] EXCEPT !.default = (group[x].name = "Members")]
    BY <1>0, <1>2
  <2>3. QED
    BY <2>1, <2>2, RowDefault
<1>3. group' \in [Group -> GroupRow \cup {None}]
  <2>1. \A x \in Group : group'[x] \in GroupRow \cup {None}
    BY <1>1, <1>2
  <2>2. group' = [x \in Group |-> group'[x]]
    BY <1>0
  <2>3. QED
    BY <2>1, <2>2
<1>4. Stored' = Stored
  BY <1>1, <1>2, GroupsAssumption DEF Stored
<1>5. NamesAreUnique'
  BY <1>2, <1>4 DEF GroupsInv, NamesAreUnique, Stored
<1>6. AdminIsNoDefault'
  BY <1>0, <1>2, <1>4 DEF GroupsInv, AdminIsNoDefault, Stored
<1>7. \A y, z \in Default' : y = z
  BY <1>2, <1>4 DEF Default, Stored, GroupsInv, NamesAreUnique
<1>8. PICK j : job' = [job EXCEPT ![h] = j] /\ j.pc # "seeded" /\ JobOK(j, group', used, assigned, misnamed')
  <2>1. CASE Finish(h)
    <3>1. JobOK(Idle, group', used, assigned, misnamed') /\ Idle.pc # "seeded"
      BY DEF JobOK, Idle
    <3>2. QED
      BY <2>1, <3>1 DEF Finish
  <2>2. ASSUME NEW m \in Named("Members"), job[h].u # None,
               Step(h, [pc |-> "join", g |-> m, u |-> job[h].u, lost |-> job[h].lost])
        PROVE  \E j : job' = [job EXCEPT ![h] = j] /\ j.pc # "seeded"
                      /\ JobOK(j, group', used, assigned, misnamed')
    <3> DEFINE j == [pc |-> "join", g |-> m, u |-> job[h].u, lost |-> job[h].lost]
    <3>1. m \in used /\ (~misnamed' => ~group'[m].admin)
      BY <1>0, <1>2 DEF Named, Stored, GroupsInv, AdminIsNoDefault
    <3>2. JobOK(j, group', used, assigned, misnamed') /\ j.pc # "seeded"
      BY <1>0, <2>2, <3>1 DEF JobOK
    <3>3. job' = [job EXCEPT ![h] = j]
      BY <2>2 DEF Step
    <3> HIDE DEF j
    <3>4. QED
      BY <3>2, <3>3
  <2>3. QED
    BY <1>0, <2>1, <2>2 DEF After
<1>9. \A x \in Group : group'[x] # None => group[x] # None /\ group'[x].admin = group[x].admin
  BY <1>1, <1>2
<1>10. QED
  BY <1>0, <1>3, <1>5, <1>6, <1>7, <1>8, <1>9, UpdateStep

LEMMA DeleteStep == ASSUME GroupsInv, NEW h \in Handler, DeleteCommit(h) PROVE GroupsInv'
<1>0. /\ job[h].pc = "delete" /\ job' = [job EXCEPT ![h] = Idle]
      /\ group' = [group EXCEPT ![job[h].g] = None]
      /\ member' \subseteq member /\ perm' \subseteq perm
      /\ UNCHANGED <<used, assigned, misnamed, unfinished>> /\ unfinished \in BOOLEAN
      /\ group \in [Group -> GroupRow \cup {None}] /\ misnamed \in BOOLEAN
  BY DEF DeleteCommit, At, Finish, ghosts, GroupsInv, GroupsTypeOK
<1>1. /\ group' \in [Group -> GroupRow \cup {None}]
      /\ \A x \in Group : group'[x] # None => group'[x] = group[x]
  BY <1>0
<1>2. Stored' \subseteq Stored /\ \A x \in Stored' : group'[x] = group[x]
  BY <1>1 DEF Stored
<1>3. NamesAreUnique' /\ AdminIsNoDefault'
  BY <1>0, <1>2 DEF GroupsInv, NamesAreUnique, AdminIsNoDefault
<1>4. Default' \subseteq Default
  BY <1>2 DEF Default
<1>5. ~unfinished' /\ (\A x \in Handler \ {h} : job[x].pc # "seeded") => \A y, z \in Default' : y = z
  BY <1>0, <1>4 DEF GroupsInv, AtMostOneDefault, At
<1>6. JobOK(Idle, group', used, assigned, misnamed') /\ Idle.pc # "seeded"
  BY DEF JobOK, Idle
<1>7. QED
  BY <1>0, <1>1, <1>3, <1>5, <1>6, UpdateStep

\* PATCH renames and makes default in one transaction.
LEMMA PatchStep == ASSUME GroupsInv, NEW h \in Handler, PatchCommit(h) PROVE GroupsInv'
<1> DEFINE j == job[h]
           g == job[h].g
           refused == (j.default /\ j.admin) \/ (g \in Stored /\ Named(j.name) \ {g} # {})
<1>0. /\ j.pc = "patch" /\ job' = [job EXCEPT ![h] = Idle]
      /\ UNCHANGED <<member, perm, used, assigned>>
      /\ group \in [Group -> GroupRow \cup {None}] /\ None \notin GroupRow /\ None \notin Name
      /\ j.name \in Name \cup {None} /\ j.default \in BOOLEAN /\ g \in Group
      /\ group[g] # None => group[g].admin = j.admin
      /\ misnamed \in BOOLEAN /\ unfinished \in BOOLEAN
      /\ misnamed' = (misnamed \/ \E x \in Group :
            group'[x] # None /\ group'[x].admin /\ group'[x].name = "Members")
  BY GroupsAssumption DEF PatchCommit, PatchApply, At, Finish, GroupsInv, GroupsTypeOK, JobsInv, JobOK
<1>1. JobOK(Idle, group', used, assigned, misnamed') /\ Idle.pc # "seeded"
  BY DEF JobOK, Idle
<1>2. misnamed' \in BOOLEAN /\ (misnamed => misnamed')
  BY <1>0
<1>3. CASE refused
  <2>1. group' = group /\ unfinished' = unfinished
    BY <1>3 DEF PatchCommit, PatchApply
  <2>2. Stored' = Stored /\ Default' = Default
    BY <2>1 DEF Stored, Default
  <2>3. NamesAreUnique' /\ AdminIsNoDefault'
    BY <1>2, <2>1, <2>2 DEF GroupsInv, NamesAreUnique, AdminIsNoDefault
  <2>4. ~unfinished' /\ (\A x \in Handler \ {h} : job[x].pc # "seeded") => \A y, z \in Default' : y = z
    BY <1>0, <2>1, <2>2 DEF GroupsInv, AtMostOneDefault, At
  <2>5. QED
    BY <1>0, <1>1, <1>2, <2>1, <2>3, <2>4, UpdateStep
<1>4. CASE ~refused
  <2> DEFINE renamed == [x \in Group |-> IF x = g /\ group[x] # None /\ j.name # None
                                         THEN [group[x] EXCEPT !.name = j.name] ELSE group[x]]
  <2>1. group' = [x \in Group |-> IF j.default /\ renamed[x] # None
                                  THEN [renamed[x] EXCEPT !.default = (x = g)] ELSE renamed[x]]
    BY <1>4 DEF PatchCommit, PatchApply
  <2>12. unfinished' = (unfinished /\ ~j.default) /\ unfinished' \in BOOLEAN
    BY <1>0, <1>4 DEF PatchCommit, PatchApply
  <2>2. ASSUME NEW x \in Group, group[x] = None PROVE group'[x] = None
    BY <2>1, <2>2
  <2>3. ASSUME NEW x \in Group, group[x] # None
        PROVE  /\ renamed[x] \in GroupRow /\ renamed[x].admin = group[x].admin
               /\ renamed[x].default = group[x].default
               /\ renamed[x].name = IF x = g /\ j.name # None THEN j.name ELSE group[x].name
    <3>1. group[x] \in GroupRow
      BY <1>0, <2>3
    <3>2. CASE x = g /\ j.name # None
      <4>1. j.name \in Name /\ renamed[x] = [group[x] EXCEPT !.name = j.name]
        BY <1>0, <2>3, <3>2
      <4> HIDE DEF renamed
      <4>2. QED
        BY <3>1, <3>2, <4>1, RowName
    <3>3. CASE ~(x = g /\ j.name # None)
      BY <3>1, <3>3
    <3>4. QED
      BY <3>2, <3>3
  <2>4. ASSUME NEW x \in Group, group[x] # None
        PROVE  /\ group'[x] \in GroupRow /\ group'[x].admin = group[x].admin
               /\ group'[x].name = IF x = g /\ j.name # None THEN j.name ELSE group[x].name
               /\ group'[x].default = IF j.default THEN x = g ELSE group[x].default
    <3>1. /\ renamed[x] \in GroupRow /\ renamed[x].admin = group[x].admin
          /\ renamed[x].default = group[x].default
          /\ renamed[x].name = IF x = g /\ j.name # None THEN j.name ELSE group[x].name
      BY <2>3, <2>4
    <3>2. CASE j.default
      <4>1. (x = g) \in BOOLEAN /\ renamed[x] # None
        BY <1>0, <3>1
      <4>2. group'[x] = [renamed[x] EXCEPT !.default = (x = g)]
        BY <2>1, <3>2, <4>1
      <4> HIDE DEF renamed
      <4>3. QED
        BY ZenonT(40), <3>1, <3>2, <4>1, <4>2, RowDefault
    <3>3. CASE ~j.default
      <4>1. group'[x] = renamed[x]
        BY <2>1, <3>3
      <4> HIDE DEF renamed
      <4>2. QED
        BY <3>1, <3>3, <4>1
    <3>4. QED
      BY <1>0, <3>2, <3>3
  <2>5. group' \in [Group -> GroupRow \cup {None}]
    <3>1. \A x \in Group : group'[x] \in GroupRow \cup {None}
      BY <2>2, <2>4
    <3>2. group' = [x \in Group |-> group'[x]]
      BY <2>1
    <3>3. QED
      BY <3>1, <3>2
  <2> HIDE DEF renamed
  <2>6. Stored' = Stored
    BY <1>0, <2>2, <2>4 DEF Stored
  <2>7. NamesAreUnique'
    <3>1. \A x \in Stored : group[x].name = j.name => x = g \/ g \notin Stored
      BY <1>4 DEF Named
    <3>2. ASSUME NEW x \in Stored, NEW y \in Stored, group'[x].name = group'[y].name PROVE x = y
      BY <2>4, <3>1, <3>2 DEF Stored, GroupsInv, NamesAreUnique
    <3>3. QED
      BY <2>6, <3>2 DEF NamesAreUnique
  <2>8. AdminIsNoDefault'
    <3>1. SUFFICES ASSUME ~misnamed', NEW x \in Stored, group'[x].admin
                   PROVE  ~group'[x].default /\ group'[x].name # "Members"
      BY <2>6 DEF AdminIsNoDefault
    <3>2. x \in Group /\ group[x] # None /\ group[x].admin /\ ~misnamed /\ group'[x] # None
      BY <1>0, <2>4, <3>1 DEF Stored
    <3>3. group'[x].name # "Members"
      BY <1>0, <3>1, <3>2
    <3>4. ~group[x].default
      BY <3>2 DEF GroupsInv, AdminIsNoDefault, Stored
    <3>5. CASE j.default
      BY <1>0, <1>4, <2>4, <3>2, <3>3, <3>5
    <3>6. CASE ~j.default
      BY <2>4, <3>2, <3>3, <3>4, <3>6
    <3>7. QED
      BY <3>5, <3>6
  <2>9. ~unfinished' /\ (\A x \in Handler \ {h} : job[x].pc # "seeded") => \A y, z \in Default' : y = z
    <3>1. CASE j.default
      BY <2>4, <2>6, <3>1 DEF Default, Stored
    <3>2. CASE ~j.default
      <4>1. Default' = Default
        BY <2>4, <2>6, <3>2 DEF Default, Stored
      <4>2. QED
        BY <1>0, <2>12, <3>2, <4>1 DEF GroupsInv, AtMostOneDefault, At
    <3>3. QED
      BY <3>1, <3>2
  <2>10. \A x \in Group : group'[x] # None => group[x] # None /\ group'[x].admin = group[x].admin
    BY <2>2, <2>4
  <2>11. QED
    BY <1>0, <1>1, <1>2, <2>5, <2>7, <2>8, <2>9, <2>10, <2>12, UpdateStep
<1>5. QED
  BY <1>3, <1>4

\* A request of whoever it is of begins as one of the above.
LEMMA GroupsStep == GroupsInv /\ [GroupsNext]_groupVars => GroupsInv'
<1> SUFFICES ASSUME GroupsInv, [GroupsNext]_groupVars PROVE GroupsInv'
  OBVIOUS
<1>1. CASE UNCHANGED groupVars
  BY <1>1 DEF groupVars, GroupsInv, GroupsTypeOK, JobsInv, Stored, NamesAreUnique, AdminIsNoDefault,
              AdminsWereAssigned, AtMostOneDefault, At, Default
<1>2. ASSUME NEW h \in Handler, NEW by \in User \cup {Root}, Request(by, h) PROVE GroupsInv'
  <2>1. PICK g \in Group :
          \/ \E n \in Name, default \in BOOLEAN :
                create_group(by, h, g, n, default) \/ patch_group(by, h, g, n, default)
          \/ patch_group(by, h, g, None, TRUE) \/ delete_group(by, h, g)
          \/ \E new \in SUBSET User : replace_members(by, h, g, new)
          \/ g \in Edited /\ \E new \in Requested : replace_permissions(by, h, g, new)
    BY <1>2 DEF Request
  <2>2. ASSUME NEW n \in Name, NEW default \in BOOLEAN, create_group(by, h, g, n, default)
        PROVE  GroupsInv'
    BY <2>2, InsertingStep DEF create_group
  <2>3. ASSUME NEW n \in Name \cup {None}, NEW default \in BOOLEAN, patch_group(by, h, g, n, default)
        PROVE  GroupsInv'
    BY <2>3, ReadStep DEF patch_group
  <2>4. CASE delete_group(by, h, g)
    BY <2>4, ReadStep DEF delete_group
  <2>5. ASSUME NEW new \in SUBSET User, replace_members(by, h, g, new) PROVE GroupsInv'
    BY <2>5, MembershipStep DEF replace_members
  <2>6. ASSUME NEW new \in Requested, replace_permissions(by, h, g, new) PROVE GroupsInv'
    BY <2>6, MembershipStep DEF replace_permissions
  <2>7. QED
    BY <2>1, <2>2, <2>3, <2>4, <2>5, <2>6
<1>3. CASE GroupsNext
  BY <1>2, <1>3, ReadStep, EndStep, MembershipStep, InsertingStep, CreateDefaultStep, PatchStep, DeleteStep,
     SeedDefaultStep DEF GroupsNext
<1>4. QED
  BY <1>1, <1>3

LEMMA GroupsStart == GroupsInit => GroupsInv
<1> SUFFICES ASSUME GroupsInit PROVE GroupsInv
  OBVIOUS
<1> DEFINE A == Row("Administrators", TRUE, TRUE, FALSE)
           M == Row("Members", FALSE, TRUE, TRUE)
<1>1. /\ A \in GroupRow /\ A.name = "Administrators" /\ A.admin = TRUE /\ A.default = FALSE
      /\ M \in GroupRow /\ M.name = "Members" /\ M.admin = FALSE /\ M.default = TRUE
  BY DEF Row, GroupRow
<1>2. /\ group \in [Group -> {A, M, None}] /\ group[Administrators] = A /\ group[Members] = M
      /\ \A x \in Group \ {Administrators, Members} : group[x] = None
  BY GroupsAssumption DEF GroupsInit
<1> HIDE DEF A, M
<1>3. Stored = {Administrators, Members} /\ Administrators # Members
  BY <1>1, <1>2, GroupsAssumption DEF Stored
<1>4. GroupsTypeOK
  BY <1>1, <1>2, <1>3, GroupsAssumption DEF GroupsTypeOK, GroupsInit
<1>5. NamesAreUnique /\ AdminIsNoDefault
  BY <1>1, <1>2, <1>3 DEF NamesAreUnique, AdminIsNoDefault
<1>6. AdminsWereAssigned
  BY <1>1, <1>2, <1>3 DEF AdminsWereAssigned, GroupsInit
<1>7. AtMostOneDefault
  BY <1>1, <1>2, <1>3 DEF AtMostOneDefault, Default
<1>8. JobsInv
  BY DEF JobsInv, GroupsInit, JobOK, Idle
<1>9. QED
  BY <1>4, <1>5, <1>6, <1>7, <1>8 DEF GroupsInv, GroupsInit

(* Every statement of the group routes, of a login and of a start-up       *)
(* (permissions/repo.rs) keeps the tables, the handlers under way and the  *)
(* history in the relation GroupsInv describes.                            *)
THEOREM GroupsInvariant == GroupsSpec => []GroupsInv
BY GroupsStart, GroupsStep, PTL DEF GroupsSpec

(* However the statements of the group routes, of logins and of restarts   *)
(* interleave (permissions/groups.rs, permissions/repo.rs), nobody holds   *)
(* the permissions of the administrators whom nobody assigned to a group   *)
(* with admin scope, and there is at most one default group unless a       *)
(* seeding of Members ended between its two statements.                    *)
THEOREM GroupsStaySound == GroupsSpec => []GroupsAreSound
<1>1. GroupsInv => GroupsAreSound
  <2>1. ASSUME GroupsInv, ~misnamed, NEW u \in User, NEW p \in permissions_for_user(u),
               u \notin assigned
        PROVE  \E g \in Group : <<g, u>> \in member /\ <<g, p>> \in perm
    <3>1. ~ \E g \in Stored : <<g, u>> \in member /\ group[g].admin
      BY <2>1 DEF GroupsInv, AdminsWereAssigned
    <3>2. QED
      BY <2>1, <3>1 DEF permissions_for_user, Stored
  <2>2. GroupsInv => AdminByAssignment
    BY <2>1 DEF AdminByAssignment
  <2>3. QED
    BY <2>2 DEF GroupsInv, GroupsAreSound
<1>2. QED
  BY <1>1, GroupsInvariant, PTL

-----------------------------------------------------------------------------
(* The root password and re-authentication.                                *)

\* A password is older than the next one drawn, and the one in force has to
\* be changed exactly if no request asked for it.
PasswordInv ==
    /\ secrets \in 0..MaxSecrets
    /\ generated \subseteq 0..(secrets - 1) /\ chosen \subseteq 0..(secrets - 1)
    /\ root # None => /\ root.pw \in 0..(secrets - 1) /\ root.must \in BOOLEAN
                      /\ IF root.must THEN root.pw \in generated \ chosen ELSE root.pw \in chosen

\* A password proved stays on record between its check and the token, and
\* every token carries a proof of its session's own account.
ProofInv ==
    /\ req = [h \in Handler |-> req[h]]
    /\ \A h \in Handler : req[h].pc = "reauth" =>
          /\ req[h].sid \in Sid /\ req[h].risk \in Risk
          /\ <<req[h].sid, req[h].who>> \in proved
    /\ tokens \subseteq [sid : Sid, risk : Risk]
    /\ \A t \in tokens : <<t.sid, AccountOf[t.sid]>> \in proved

ElevInv == PasswordInv /\ ProofInv /\ ElevationIsEarned

\* Drawing: the number drawn is new.
LEMMA DrawIsNew ==
    ASSUME PasswordInv, Draw
    PROVE  /\ secrets' = secrets + 1 /\ secrets' \in 0..MaxSecrets /\ secrets \notin chosen
           /\ secrets \in 0..(secrets' - 1) /\ 0..(secrets - 1) \subseteq 0..(secrets' - 1)
BY ElevationAssumption DEF PasswordInv, Draw

LEMMA PasswordStep == ASSUME PasswordInv, ElevNext PROVE PasswordInv'
<1>1. CASE UNCHANGED <<root, secrets, generated, chosen>>
  BY <1>1 DEF PasswordInv
<1>2. ASSUME Draw, root' = [pw |-> secrets, must |-> TRUE] \/ root' = None,
             generated' = generated \cup {secrets}, chosen' = chosen
      PROVE  PasswordInv'
  <2>1. secrets' \in 0..MaxSecrets /\ generated' \subseteq 0..(secrets' - 1)
        /\ chosen' \subseteq 0..(secrets' - 1)
    BY <1>2, DrawIsNew DEF PasswordInv
  <2>2. CASE root' = [pw |-> secrets, must |-> TRUE]
    <3>1. root'.pw = secrets /\ root'.must = TRUE
      BY <2>2
    <3>2. QED
      BY <1>2, <2>1, <3>1, DrawIsNew DEF PasswordInv
  <2>3. CASE root' = None
    BY <2>1, <2>3 DEF PasswordInv
  <2>4. QED
    BY <1>2, <2>2, <2>3
<1>3. ASSUME NEW pw \in 0..MaxSecrets, Choose(pw), root' = [pw |-> pw, must |-> FALSE],
             generated' = generated
      PROVE  PasswordInv'
  <2>1. secrets' \in 0..MaxSecrets /\ pw \in 0..(secrets' - 1)
        /\ 0..(secrets - 1) \subseteq 0..(secrets' - 1)
    BY <1>3, DrawIsNew, ElevationAssumption DEF Choose, PasswordInv
  <2>2. chosen' = chosen \cup {pw} /\ root'.pw = pw /\ root'.must = FALSE
    BY <1>3 DEF Choose
  <2>3. QED
    BY <1>3, <2>1, <2>2 DEF PasswordInv
<1>4. CASE run_root_reset
  BY <1>2, <1>4 DEF run_root_reset, reset_password
<1>5. ASSUME NEW h \in Handler, bootstrapWrite(h) PROVE PasswordInv'
  BY <1>1, <1>2, <1>5 DEF bootstrapWrite
<1>6. ASSUME NEW h \in Handler, NEW pw \in 0..MaxSecrets, change_password(h, pw) PROVE PasswordInv'
  BY <1>1, <1>3, <1>6 DEF change_password
<1>7. QED
  BY <1>1, <1>4, <1>5, <1>6 DEF ElevNext, root_init, bootstrapRead, root_login, must_change_password,
     ReauthIssue, ChangeVerify, RootLoginVerify, ReauthProve, Lapses, check_reauth_header

\* A handler that starts or ends, or moves on to something else than a token.
LEMMA ProofKept ==
    ASSUME ProofInv, ElevationIsEarned, NEW h \in Handler, NEW r, r.pc # "reauth",
           req' = [req EXCEPT ![h] = r], UNCHANGED <<tokens, proved, elevated>>
    PROVE  ProofInv' /\ ElevationIsEarned'
BY DEF ProofInv, ElevationIsEarned

LEMMA ProofStep == ASSUME ProofInv, ElevationIsEarned, ElevNext PROVE ProofInv' /\ ElevationIsEarned'
<1>0. Idle.pc # "reauth"
  BY DEF Idle
<1>1. CASE UNCHANGED <<req, tokens, proved, elevated>>
  BY <1>1 DEF ProofInv, ElevationIsEarned
<1>2. ASSUME NEW h \in Handler,
             \/ root_init(h) \/ bootstrapWrite(h) \/ root_login(h)
             \/ must_change_password(h)
             \/ \E pw \in 0..MaxSecrets : ChangeVerify(h, pw) \/ change_password(h, pw)
             \/ \E s \in Sid, pw \in 0..MaxSecrets : RootLoginVerify(h, s, pw)
      PROVE  ProofInv' /\ ElevationIsEarned'
  <2>1. PICK r : r.pc # "reauth" /\ req' = [req EXCEPT ![h] = r]
    BY <1>0, <1>2 DEF root_init, bootstrapRead, bootstrapWrite, root_login, must_change_password,
       change_password, ChangeVerify, RootLoginVerify
  <2>2. UNCHANGED <<tokens, proved, elevated>>
    BY <1>2 DEF root_init, bootstrapRead, bootstrapWrite, root_login, must_change_password,
       change_password, ChangeVerify, RootLoginVerify
  <2>3. QED
    BY <2>1, <2>2, ProofKept
<1>3. ASSUME NEW h \in Handler, NEW s \in Sid, NEW risk \in Risk, NEW who, ReauthProve(h, s, risk, who)
      PROVE  ProofInv' /\ ElevationIsEarned'
  <2>1. /\ req' = [req EXCEPT ![h] = [pc |-> "reauth", sid |-> s, risk |-> risk, who |-> who]]
        /\ proved' = proved \cup {<<s, who>>} /\ UNCHANGED <<tokens, elevated>>
    BY <1>3 DEF ReauthProve
  <2>2. ProofInv'
    BY <2>1 DEF ProofInv
  <2>3. QED
    BY <2>1, <2>2 DEF ElevationIsEarned
<1>4. ASSUME NEW h \in Handler, ReauthIssue(h) PROVE ProofInv' /\ ElevationIsEarned'
  <2>1. CASE UNCHANGED tokens
    BY <1>0, <1>4, <2>1, ProofKept DEF ReauthIssue
  <2>2. CASE req[h].who = AccountOf[req[h].sid] /\ tokens' = tokens \cup {claims(req[h])}
    <3>1. /\ req[h].pc = "reauth" /\ req' = [req EXCEPT ![h] = Idle] /\ UNCHANGED <<proved, elevated>>
      BY <1>4 DEF ReauthIssue
    <3>2. claims(req[h]) \in [sid : Sid, risk : Risk] /\ claims(req[h]).sid = req[h].sid
      BY <3>1 DEF ProofInv, claims
    <3>3. <<req[h].sid, AccountOf[req[h].sid]>> \in proved
      BY <2>2, <3>1 DEF ProofInv
    <3>4. ProofInv'
      BY <1>0, <2>2, <3>1, <3>2, <3>3 DEF ProofInv
    <3>5. QED
      BY <3>1, <3>4 DEF ElevationIsEarned
  <2>3. QED
    BY <1>4, <2>1, <2>2 DEF ReauthIssue
<1>5. ASSUME NEW t \in tokens, NEW s \in Sid, NEW risk \in Risk, check_reauth_header(t, s, risk)
      PROVE  ProofInv' /\ ElevationIsEarned'
  <2>1. /\ t.sid = s /\ (risk = "critical" => t.risk = "critical")
        /\ elevated' = [sid |-> s, risk |-> risk, token |-> t] /\ UNCHANGED <<req, tokens, proved>>
    BY <1>5 DEF check_reauth_header, decode_reauth
  <2>2. QED
    BY <2>1 DEF ProofInv, ElevationIsEarned
<1>6. ASSUME NEW t \in tokens, Lapses(t) PROVE ProofInv' /\ ElevationIsEarned'
  <2>1. tokens' \subseteq tokens /\ UNCHANGED <<req, proved, elevated>>
    BY <1>6 DEF Lapses
  <2>2. QED
    BY <2>1 DEF ProofInv, ElevationIsEarned
<1>7. QED
  BY <1>1, <1>2, <1>3, <1>4, <1>5, <1>6 DEF ElevNext, run_root_reset

(* Along every interleaving of first boots, resets and changes, the root   *)
(* password is to be changed exactly if no request asked for it, and a     *)
(* request passes a reauth check only in a session whose own account       *)
(* proved its password, at no higher risk (auth/root.rs, auth/reauth.rs).  *)
THEOREM ElevationStaysSound == ElevSpec => []ElevationIsSound
<1>1. ElevInit => ElevInv
  BY ElevationAssumption DEF ElevInit, ElevInv, PasswordInv, ProofInv, ElevationIsEarned, Idle
<1>2. ElevInv /\ [ElevNext]_elevVars => ElevInv'
  <2>1. ElevInv /\ ElevNext => ElevInv'
    BY PasswordStep, ProofStep DEF ElevInv
  <2>2. ElevInv /\ UNCHANGED elevVars => ElevInv'
    BY DEF ElevInv, PasswordInv, ProofInv, ElevationIsEarned, elevVars
  <2>3. QED
    BY <2>1, <2>2
<1>3. ElevInv => ElevationIsSound
  BY ElevationAssumption DEF ElevInv, PasswordInv, ProofInv, ElevationIsSound, ElevTypeOK, GeneratedMustChange
<1>4. QED
  BY <1>1, <1>2, <1>3, PTL DEF ElevSpec

-----------------------------------------------------------------------------
(* The start of the server.                                                *)

Starts == IF config_flag THEN from_toml_file("flag") ELSE resolve_runtime_config
Checks == config_check(flag_value)

\* What each tool said last is what it would say now: an edit in between has
\* made it unsaid.
SaidInv ==
    /\ server = Unsaid \/ server = Starts
    /\ check = Unsaid \/ check = Checks
    /\ update = Unsaid \/ update = config_check(FALSE)
    /\ staged = Unsaid \/ \E p \in Path : staged = from_toml_file(p)
    /\ doctor = Unsaid \/ \E world \in BOOLEAN : doctor = doctor_checks(world)

WorldInv ==
    /\ source \in [Path -> Contents \cup {Baked, Missing}]
    /\ env \in [runtime : BOOLEAN, vapid : BOOLEAN] /\ args \in Args

StartInv == WorldInv /\ SaidInv

\* The server and ppctl load a file alike.
LEMMA LoadsAlike ==
    ASSUME WorldInv, NEW p \in Path
    PROVE  /\ Read(p) = from_toml_file(p)
           /\ from_toml_file(p) \in Outcome /\ from_toml_file(p).from = p
<1>1. Read(p) = from_toml_file(p)
  BY DEF Read, from_toml_file, from_toml_str
<1>2. Failed(p) \in Outcome /\ Failed(p).from = p
  BY DEF Failed, Outcome
<1>3. ASSUME NEW c PROVE Load(p, c) \in Outcome /\ Load(p, c).from = p
  BY DEF Load, Outcome, validate
<1>4. QED
  BY <1>1, <1>2, <1>3 DEF from_toml_file

LEMMA StartStep == StartInv /\ [StartNext]_startVars => StartInv'
<1> SUFFICES ASSUME StartInv, [StartNext]_startVars PROVE StartInv'
  OBVIOUS
<1>1. ASSUME UNCHANGED <<source, env, args>>
      PROVE  /\ WorldInv' /\ Starts' = Starts /\ Checks' = Checks
             /\ config_check(FALSE)' = config_check(FALSE)
             /\ \A p \in Path : from_toml_file(p)' = from_toml_file(p)
             /\ \A world \in BOOLEAN : doctor_checks(world)' = doctor_checks(world)
  BY <1>1 DEF StartInv, WorldInv, Starts, Checks, config_check, from_toml_file, from_toml_str, Load,
     apply_env_overrides, config_flag, flag_value, resolve_runtime_config, Read, Failed, doctor_checks,
     resolve_config_for_doctor
<1>2. CASE Outdated /\ WorldInv'
  BY <1>2 DEF StartInv, SaidInv, Outdated
<1>3. CASE UNCHANGED startVars
  BY <1>1, <1>3 DEF StartInv, SaidInv, startVars
<1>4. CASE Start
  BY <1>1, <1>4 DEF StartInv, SaidInv, Start, Starts
<1>5. CASE run_config_check
  BY <1>1, <1>5 DEF StartInv, SaidInv, run_config_check, Checks
<1>51. CASE run_update_plain
  BY <1>1, <1>51 DEF StartInv, SaidInv, run_update_plain
<1>6. ASSUME NEW p \in Path, StageCheck(p) \/ run_update(p) PROVE StartInv'
  <2>1. staged' = from_toml_file(p) /\ UNCHANGED <<source, env, args, check, update, doctor, server>>
    BY <1>6, LoadsAlike DEF StageCheck, run_update, StartInv
  <2>2. QED
    BY <1>1, <2>1 DEF StartInv, SaidInv
<1>7. CASE run_doctor
  BY <1>1, <1>7 DEF StartInv, SaidInv, run_doctor
<1>8. ASSUME NEW p \in Path, run_init(p) PROVE StartInv'
  BY <1>2, <1>8 DEF run_init, StartInv, WorldInv
<1>9. ASSUME NEW p \in Path, NEW c \in Contents \cup {Missing}, EditFile(p, c) PROVE StartInv'
  BY <1>2, <1>9 DEF EditFile, StartInv, WorldInv
<1>10. QED
  BY <1>3, <1>4, <1>5, <1>51, <1>6, <1>7, <1>8, <1>9 DEF StartNext

\* The three copies of the order of the sources agree where they have to.
LEMMA SourcesAgree ==
    ASSUME WorldInv
    PROVE  /\ Starts \in Outcome /\ Starts.from \in Path \cup {Defaults}
           /\ Checks \in Outcome /\ Checks.from \in Path \cup {Defaults}
           /\ config_check(FALSE) \in Outcome
           /\ Starts.from # Defaults => Starts = from_toml_file(Starts.from)
           /\ args # "joined_bare" =>
                /\ IF Checks.from = Defaults THEN Starts.from = Defaults ELSE Checks = Starts
                /\ args # "spaced" => config_check(FALSE) = Checks
                /\ resolve_config_for_doctor.push => resolve_config_for_doctor = Starts
           /\ resolve_config_for_doctor \in Outcome
<1>1. \A p \in {"flag", "env", "default"} : /\ Read(p) = from_toml_file(p)
           /\ from_toml_file(p) \in Outcome /\ from_toml_file(p).from = p
  BY LoadsAlike DEF Path
<1> DEFINE D == [from |-> Defaults, ok |-> TRUE, push |-> apply_env_overrides(Baked).push]
           E == [from |-> Defaults, ok |-> TRUE, push |-> Baked.push]
<1>2. D \in Outcome /\ D.from = Defaults
  BY DEF WorldInv, apply_env_overrides, Baked, Outcome
<1>3. E \in Outcome /\ E.push = FALSE
  BY DEF Baked, Outcome
<1>4. Failed(Defaults) \in Outcome /\ Failed(Defaults).from = Defaults
  BY DEF Failed, Outcome
<1>5. Starts = IF config_flag THEN from_toml_file("flag")
               ELSE IF env.runtime THEN from_toml_file("env")
               ELSE IF source["default"] # Missing THEN from_toml_file("default") ELSE D
  BY DEF Starts, resolve_runtime_config
<1>6. Checks = IF flag_value THEN from_toml_file("flag")
               ELSE IF env.runtime THEN from_toml_file("env")
               ELSE IF source["default"] # Missing THEN from_toml_file("default") ELSE Failed(Defaults)
  BY <1>1 DEF Checks, config_check
<1>7. resolve_config_for_doctor =
               IF flag_value THEN from_toml_file("flag")
               ELSE IF env.runtime THEN from_toml_file("env")
               ELSE IF source["default"] # Missing THEN from_toml_file("default") ELSE E
  BY <1>1 DEF resolve_config_for_doctor
<1>61. config_check(FALSE) = IF env.runtime THEN from_toml_file("env")
               ELSE IF source["default"] # Missing THEN from_toml_file("default") ELSE Failed(Defaults)
  BY <1>1 DEF config_check
<1>62. args # "spaced" => ~flag_value
  BY DEF flag_value
<1>8. args # "joined_bare" => (config_flag <=> flag_value)
  BY DEF config_flag, flag_value
<1>9. \A p \in {"flag", "env", "default"} : p # Defaults
  BY DEF Defaults
<1> HIDE DEF D, E
<1>10. QED
  BY <1>1, <1>2, <1>3, <1>4, <1>5, <1>6, <1>61, <1>62, <1>7, <1>8, <1>9 DEF Path

(* Whatever an operator edits between the runs, what `ppctl config check', *)
(* a plain `ppctl update' for a server without --config, the staged check  *)
(* and `ppctl doctor' accept, the server starts from                       *)
(* (config/mod.rs:425-439, bin/ppctl.rs:378-435, 531).                     *)
THEOREM ServerStartsAsChecked == StartSpec => []StartsAsChecked
<1>1. StartInit => StartInv
  BY DEF StartInit, StartInv, WorldInv, SaidInv
<1>2. ASSUME StartInv PROVE StartTypeOK
  <2>1. Unsaid \in Outcome
    BY DEF Unsaid, Outcome
  <2>2. \A p \in Path : from_toml_file(p) \in Outcome
    BY <1>2, LoadsAlike DEF StartInv
  <2>3. Starts \in Outcome /\ Checks \in Outcome /\ config_check(FALSE) \in Outcome /\ resolve_config_for_doctor \in Outcome
    BY <1>2, SourcesAgree DEF StartInv
  <2>4. \A world \in BOOLEAN : doctor_checks(world) \in Outcome
    BY <2>3 DEF doctor_checks, Outcome
  <2>5. QED
    BY <1>2, <2>1, <2>2, <2>3, <2>4 DEF StartInv, WorldInv, SaidInv, StartTypeOK
<1>3. ASSUME StartInv PROVE VerdictsHold
  <2> SUFFICES ASSUME server # Unsaid, args # "joined_bare"
               PROVE  /\ (check # Unsaid /\ check.from # Defaults) => check = server
                      /\ check.from = Defaults => server.from = Defaults
                      /\ (update # Unsaid /\ args # "spaced") =>
                            IF update.from = Defaults THEN server.from = Defaults ELSE update = server
                      /\ staged.from = server.from => staged = server
                      /\ doctor.ok => /\ server.ok /\ server.push /\ server.from = doctor.from
    BY DEF VerdictsHold
  <2>0. Unsaid.from = "nowhere" /\ ~Unsaid.ok /\ "nowhere" \notin Path \cup {Defaults}
        /\ Defaults \notin Path
    BY DEF Unsaid, Path, Defaults
  <2>1. server = Starts
    BY <1>3 DEF StartInv, SaidInv
  <2>2. (check # Unsaid /\ check.from # Defaults) => check = server
    BY <1>3, <2>1, SourcesAgree DEF StartInv, SaidInv
  <2>3. check.from = Defaults => server.from = Defaults
    BY <1>3, <2>0, <2>1, SourcesAgree DEF StartInv, SaidInv
  <2>31. (update # Unsaid /\ args # "spaced") =>
           IF update.from = Defaults THEN server.from = Defaults ELSE update = server
    BY <1>3, <2>0, <2>1, SourcesAgree DEF StartInv, SaidInv
  <2>4. staged.from = server.from => staged = server
    BY <1>3, <2>0, <2>1, SourcesAgree, LoadsAlike DEF StartInv, SaidInv
  <2>5. doctor.ok => server.ok /\ server.push /\ server.from = doctor.from
    <3>1. SUFFICES ASSUME doctor.ok PROVE server.ok /\ server.push /\ server.from = doctor.from
      OBVIOUS
    <3>2. PICK world \in BOOLEAN : doctor = doctor_checks(world)
      BY <1>3, <2>0, <3>1 DEF StartInv, SaidInv
    <3> DEFINE c == resolve_config_for_doctor
    <3>3. doctor.from = c.from /\ c.ok /\ c.push
      BY <3>1, <3>2 DEF doctor_checks
    <3>4. c = server
      BY <1>3, <2>1, <3>3, SourcesAgree DEF StartInv
    <3> HIDE DEF c
    <3>5. QED
      BY <3>3, <3>4
  <2>6. QED
    BY <2>2, <2>3, <2>31, <2>4, <2>5
<1>4. StartInv => StartsAsChecked
  BY <1>2, <1>3 DEF StartsAsChecked
<1>5. QED
  BY <1>1, <1>4, StartStep, PTL DEF StartSpec

-----------------------------------------------------------------------------
(* GitHub identities and logins.                                           *)

StateOK(r) ==
    /\ r \in [mode : {"bind", "login"}, user : Account \cup {None}, accepted : BOOLEAN, old : BOOLEAN]
    /\ r.mode = "bind" => r.user \in Account

StatesInv ==
    /\ oauth = [t \in Token |-> oauth[t]] /\ drawn \subseteq Token
    /\ \A t \in Token : oauth[t] # None => t \in drawn /\ StateOK(oauth[t])

\* Every row there is was once written.
RowsInv ==
    /\ owner \in [Github -> Account \cup {None}] /\ bound \subseteq Github \X Account
    /\ \A g \in Github : owner[g] # None => <<g, owner[g]>> \in bound

\* A callback holds a state that no longer is pending, and a login a row
\* that was there when it looked.
Carries(c) == c.pc \in {"exchange", "find", "login", "bind"}
CallOK(c, ids, states, rows) ==
    /\ c.pc \in {"idle", "insert", "exchange", "find", "login", "bind", "unbind"}
    /\ c.pc = "insert" => StateOK(c.as)
    /\ Carries(c) => StateOK(c.as) /\ c.token \in ids /\ states[c.token] = None
    /\ c.pc \in {"find", "login", "bind"} => c.gh \in Github
    /\ c.pc = "login" => <<c.gh, c.user>> \in rows
    /\ c.pc = "bind" => c.user \in Account
    /\ c.pc = "unbind" => /\ c = [pc |-> "unbind", user |-> c.user, left |-> c.left]
                          /\ c.left \subseteq Github

CallsInv ==
    /\ call = [h \in Handler |-> call[h]]
    /\ \A h \in Handler : CallOK(call[h], drawn, oauth, bound)

\* A state is pending, or held by one callback, or spent on one session.
TokensInv ==
    /\ \A h, x \in Handler :
          Carries(call[h]) /\ Carries(call[x]) /\ call[h].token = call[x].token => h = x
    /\ opened \subseteq [token : Token, user : Account, gh : Github]
    /\ \A s \in opened :
          /\ s.token \in drawn /\ oauth[s.token] = None
          /\ \A h \in Handler : Carries(call[h]) => call[h].token # s.token
    /\ LoginIsBound

GithubInv == StatesInv /\ RowsInv /\ CallsInv /\ TokensInv /\ PendingIsBounded

\* A step of one handler that opens no session: the others know as much as
\* before, and it holds the state it held or one that was pending.
LEMMA CallStep ==
    ASSUME CallsInv, TokensInv, NEW h \in Handler, NEW c, call' = [call EXCEPT ![h] = c],
           drawn \subseteq drawn', bound \subseteq bound', opened' = opened,
           \A t \in drawn : oauth[t] = None => oauth'[t] = None,
           CallOK(c, drawn', oauth', bound'),
           Carries(c) => (Carries(call[h]) /\ c.token = call[h].token) \/ oauth[c.token] # None
    PROVE  CallsInv' /\ TokensInv'
<1>1. call' = [x \in Handler |-> call'[x]] /\ call'[h] = c /\ \A x \in Handler \ {h} : call'[x] = call[x]
  BY DEF CallsInv
<1>2. ASSUME NEW x \in Handler \ {h} PROVE CallOK(call[x], drawn', oauth', bound')
  BY DEF CallsInv, CallOK
<1>3. CallsInv'
  BY <1>1, <1>2 DEF CallsInv
<1>4. ASSUME NEW x \in Handler \ {h}, Carries(c), Carries(call[x]) PROVE c.token # call[x].token
  BY <1>4 DEF CallsInv, TokensInv, CallOK
<1>5. \A x, y \in Handler :
          Carries(call'[x]) /\ Carries(call'[y]) /\ call'[x].token = call'[y].token => x = y
  BY <1>1, <1>4 DEF TokensInv
<1>6. ASSUME NEW s \in opened
      PROVE  /\ s.token \in drawn' /\ oauth'[s.token] = None
             /\ \A x \in Handler : Carries(call'[x]) => call'[x].token # s.token
  <2>1. s.token \in drawn' /\ oauth'[s.token] = None
    BY DEF TokensInv
  <2>2. Carries(c) => c.token # s.token
    BY DEF TokensInv
  <2>3. QED
    BY <1>1, <2>1, <2>2 DEF TokensInv
<1>7. LoginIsBound'
  BY DEF TokensInv, LoginIsBound
<1>8. QED
  BY <1>3, <1>5, <1>6, <1>7 DEF TokensInv

LEMMA PruneKeeps ==
    ASSUME StatesInv
    PROVE  /\ prune_states(oauth) = [t \in Token |-> prune_states(oauth)[t]]
           /\ \A t \in Token : prune_states(oauth)[t] = None \/ prune_states(oauth)[t] = oauth[t]
BY DEF StatesInv, prune_states

\* authorize_url, from the count of the states to the insert.
LEMMA AuthorizeStep ==
    ASSUME StatesInv, CallsInv, TokensInv, NEW h \in Handler,
           \/ \E u \in Account : github_start(h, u)
           \/ \E accepted \in BOOLEAN : github_login_start(h, accepted)
           \/ \E t \in Token : AuthorizeInsert(h, t)
    PROVE  StatesInv' /\ CallsInv' /\ TokensInv'
<1>1. ASSUME NEW as, StateOK(as), AuthorizeCheck(h, as) PROVE StatesInv' /\ CallsInv' /\ TokensInv'
  <2>1. /\ oauth' = prune_states(oauth) /\ UNCHANGED <<drawn, bound, opened>>
        /\ call' = [call EXCEPT ![h] = [pc |-> "insert", as |-> as]] \/ UNCHANGED call
    BY <1>1 DEF AuthorizeCheck
  <2>2. StatesInv'
    BY <2>1, PruneKeeps DEF StatesInv
  <2>3. \A t \in drawn : oauth[t] = None => oauth'[t] = None
    BY <2>1, PruneKeeps DEF StatesInv
  <2>4. CASE call' = [call EXCEPT ![h] = [pc |-> "insert", as |-> as]]
    <3> DEFINE c == [pc |-> "insert", as |-> as]
    <3>1. CallOK(c, drawn', oauth', bound') /\ ~Carries(c)
      BY <1>1 DEF CallOK, Carries
    <3> HIDE DEF c
    <3>2. QED
      BY <2>1, <2>2, <2>3, <2>4, <3>1, CallStep DEF c
  <2>5. CASE UNCHANGED call
    <3>1. call' = [call EXCEPT ![h] = call[h]]
      BY <2>5 DEF CallsInv
    <3>2. CallOK(call[h], drawn', oauth', bound')
      BY <2>1, <2>3 DEF CallsInv, CallOK
    <3>3. QED
      BY <2>1, <2>2, <2>3, <3>1, <3>2, CallStep
  <2>6. QED
    BY <2>1, <2>4, <2>5
<1>2. ASSUME NEW u \in Account PROVE StateOK(bind_state_to_user(u))
  BY DEF StateOK, bind_state_to_user
<1>3. ASSUME NEW accepted \in BOOLEAN PROVE StateOK(mark_login_state(accepted))
  BY DEF StateOK, mark_login_state
<1>4. ASSUME NEW t \in Token, AuthorizeInsert(h, t) PROVE StatesInv' /\ CallsInv' /\ TokensInv'
  <2>1. /\ call[h].pc = "insert" /\ t \notin drawn /\ drawn' = drawn \cup {t}
        /\ oauth' = [oauth EXCEPT ![t] = call[h].as] /\ call' = [call EXCEPT ![h] = Idle]
        /\ UNCHANGED <<bound, opened>>
    BY <1>4 DEF AuthorizeInsert
  <2>2. StateOK(call[h].as)
    BY <2>1 DEF CallsInv, CallOK
  <2>3. StatesInv'
    BY <2>1, <2>2 DEF StatesInv
  <2>4. CallOK(Idle, drawn', oauth', bound') /\ ~Carries(Idle)
    BY DEF CallOK, Carries, Idle
  <2>5. \A x \in drawn : oauth[x] = None => oauth'[x] = None
    BY <2>1 DEF StatesInv
  <2>6. QED
    BY <2>1, <2>3, <2>4, <2>5, CallStep
<1>5. QED
  BY <1>1, <1>2, <1>3, <1>4 DEF github_start, github_login_start

\* The callback before it writes anything, and the unbind.
LEMMA CallbackStep ==
    ASSUME StatesInv, RowsInv, CallsInv, TokensInv, NEW h \in Handler,
           \/ \E t \in Token : CallbackBegin(h, t)
           \/ exchange_code(h) \/ FindIdentity(h)
           \/ \E u \in Account : github_unbind(h, u)
    PROVE  StatesInv' /\ CallsInv' /\ TokensInv'
<1>0. CallOK(Idle, drawn', oauth', bound') /\ ~Carries(Idle) /\ CallOK(call[h], drawn, oauth, bound)
  BY DEF CallOK, Carries, Idle, CallsInv
<1>1. ASSUME NEW t \in Token, CallbackBegin(h, t) PROVE StatesInv' /\ CallsInv' /\ TokensInv'
  <2> DEFINE c == [pc |-> "exchange", as |-> prune_states(oauth)[t], token |-> t]
  <2>1. /\ call[h] = Idle /\ prune_states(oauth)[t] # None
        /\ oauth' = [prune_states(oauth) EXCEPT ![t] = None]
        /\ call' = [call EXCEPT ![h] = c] \/ UNCHANGED call
        /\ UNCHANGED <<drawn, bound, opened>>
    BY <1>1 DEF CallbackBegin, consume_state
  <2>2. oauth[t] # None /\ prune_states(oauth)[t] = oauth[t] /\ t \in drawn /\ StateOK(oauth[t])
    BY <2>1, PruneKeeps DEF StatesInv
  <2>3. /\ oauth' = [x \in Token |-> oauth'[x]] /\ oauth'[t] = None
        /\ \A x \in Token : oauth'[x] = None \/ oauth'[x] = oauth[x]
    BY <2>1, PruneKeeps
  <2>4. StatesInv' /\ \A x \in drawn : oauth[x] = None => oauth'[x] = None
    BY <2>1, <2>3 DEF StatesInv
  <2>5. CASE call' = [call EXCEPT ![h] = c]
    <3>1. CallOK(c, drawn', oauth', bound') /\ c.token = t
      BY <2>1, <2>2, <2>3 DEF CallOK, Carries
    <3> HIDE DEF c
    <3>2. QED
      BY <2>1, <2>2, <2>4, <2>5, <3>1, CallStep
  <2>6. CASE UNCHANGED call
    <3>1. call' = [call EXCEPT ![h] = Idle]
      BY <2>1, <2>6 DEF CallsInv
    <3>2. QED
      BY <1>0, <2>1, <2>4, <3>1, CallStep
  <2>7. QED
    BY <2>1, <2>5, <2>6
<1>2. ASSUME UNCHANGED <<oauth, drawn, bound, opened>>, NEW c, call' = [call EXCEPT ![h] = c],
             CallOK(c, drawn, oauth, bound), Carries(c) => Carries(call[h]) /\ c.token = call[h].token
      PROVE  StatesInv' /\ CallsInv' /\ TokensInv'
  <2>1. StatesInv' /\ \A x \in drawn : oauth[x] = None => oauth'[x] = None
    BY <1>2 DEF StatesInv
  <2>2. QED
    BY <1>2, <2>1, CallStep
<1>3. CASE exchange_code(h)
  <2>1. call[h].pc = "exchange" /\ UNCHANGED <<oauth, drawn, bound, opened>>
    BY <1>3 DEF exchange_code
  <2>2. ASSUME NEW g \in Github, call' = [call EXCEPT ![h] =
                 [pc |-> "find", as |-> call[h].as, token |-> call[h].token, gh |-> g]]
        PROVE  StatesInv' /\ CallsInv' /\ TokensInv'
    <3> DEFINE c == [pc |-> "find", as |-> call[h].as, token |-> call[h].token, gh |-> g]
    <3>1. CallOK(c, drawn, oauth, bound) /\ Carries(call[h]) /\ c.token = call[h].token
      BY <1>0, <2>1 DEF CallOK, Carries
    <3> HIDE DEF c
    <3>2. QED
      BY <1>2, <2>1, <2>2, <3>1 DEF c
  <2>3. CASE call' = [call EXCEPT ![h] = Idle]
    BY <1>0, <1>2, <2>1, <2>3
  <2>4. QED
    BY <1>3, <2>2, <2>3 DEF exchange_code
<1>4. CASE FindIdentity(h)
  <2> DEFINE as == call[h].as
             found == owner[call[h].gh]
             c == [pc |-> as.mode, as |-> as, token |-> call[h].token, gh |-> call[h].gh,
                   user |-> IF as.mode = "login" THEN found ELSE as.user]
  <2>1. call[h].pc = "find" /\ UNCHANGED <<oauth, drawn, bound, opened>>
    BY <1>4 DEF FindIdentity
  <2>2. CASE call' = [call EXCEPT ![h] = Idle]
    BY <1>0, <1>2, <2>1, <2>2
  <2>3. CASE /\ call' = [call EXCEPT ![h] = c]
             /\ (as.mode = "login" /\ found # None) \/ as.mode = "bind"
    <3>1. /\ StateOK(as) /\ call[h].token \in drawn /\ oauth[call[h].token] = None
          /\ call[h].gh \in Github /\ Carries(call[h])
      BY <1>0, <2>1 DEF CallOK, Carries
    <3>2. as.mode = "login" => <<call[h].gh, found>> \in bound
      BY <2>3, <3>1 DEF RowsInv
    <3>3. as.mode = "bind" => as.user \in Account
      BY <3>1 DEF StateOK
    <3>4. CallOK(c, drawn, oauth, bound) /\ c.token = call[h].token
      BY <2>3, <3>1, <3>2, <3>3 DEF CallOK, Carries
    <3> HIDE DEF c
    <3>5. QED
      BY <1>2, <2>1, <2>3, <3>1, <3>4
  <2>4. QED
    BY <1>4, <2>2, <2>3 DEF FindIdentity, MayBind, find_by_provider
<1>5. ASSUME NEW u \in Account, github_unbind(h, u) PROVE StatesInv' /\ CallsInv' /\ TokensInv'
  <2> DEFINE c == [pc |-> "unbind", user |-> u, left |-> list_for_user(u)]
  <2>1. call' = [call EXCEPT ![h] = c] /\ UNCHANGED <<oauth, drawn, bound, opened>>
    BY <1>5 DEF github_unbind
  <2>2. CallOK(c, drawn, oauth, bound) /\ ~Carries(c)
    BY DEF CallOK, Carries, list_for_user
  <2> HIDE DEF c
  <2>3. QED
    BY <1>2, <2>1, <2>2
<1>6. QED
  BY <1>1, <1>3, <1>4, <1>5

\* What a callback or an unbind writes, which the ledger allows.
LEMMA WriteStep ==
    ASSUME StatesInv, RowsInv, CallsInv, TokensInv, NEW h \in Handler,
           LoginFinish(h) \/ BindFinish(h) \/ unbind_github(h)
    PROVE  /\ StatesInv' /\ RowsInv' /\ CallsInv' /\ TokensInv'
           /\ Ledger!LedgerNext \/ UNCHANGED <<owner, bound, opened>>
<1>0. CallOK(Idle, drawn', oauth', bound') /\ ~Carries(Idle) /\ CallOK(call[h], drawn, oauth, bound)
  BY DEF CallOK, Carries, Idle, CallsInv
<1> DEFINE g == call[h].gh
           u == call[h].user
           t == call[h].token
<1>1. CASE LoginFinish(h)
  <2>1. /\ call[h].pc = "login" /\ call' = [call EXCEPT ![h] = Idle]
        /\ UNCHANGED <<oauth, drawn, owner, bound>>
        /\ opened' = opened \cup {[token |-> t, user |-> u, gh |-> g]} \/ opened' = opened
    BY <1>1 DEF LoginFinish
  <2>2. StatesInv' /\ RowsInv' /\ \A x \in drawn : oauth[x] = None => oauth'[x] = None
    BY <2>1 DEF StatesInv, RowsInv
  <2>3. CASE opened' = opened
    BY <1>0, <2>1, <2>2, <2>3, CallStep
  <2>4. CASE opened' = opened \cup {[token |-> t, user |-> u, gh |-> g]}
    <3>1. /\ Carries(call[h]) /\ t \in drawn /\ oauth[t] = None /\ g \in Github /\ <<g, u>> \in bound
          /\ u \in Account /\ t \in Token
      BY <1>0, <2>1 DEF CallOK, Carries, RowsInv, StatesInv
    <3>2. \A s \in opened : s.token # t
      BY <3>1 DEF TokensInv
    <3>3. Ledger!Open(t, g, u)
      BY <2>1, <2>4, <3>1, <3>2 DEF Ledger!Open
    <3>4. call' = [x \in Handler |-> call'[x]] /\ call'[h] = Idle
          /\ \A x \in Handler \ {h} : call'[x] = call[x]
      BY <2>1 DEF CallsInv
    <3>5. CallsInv'
      BY <1>0, <2>1, <3>4 DEF CallsInv
    <3>6. \A x \in Handler : Carries(call'[x]) => x # h /\ call'[x] = call[x] /\ call[x].token # t
      BY <1>0, <3>1, <3>4 DEF TokensInv
    <3> DEFINE new == [token |-> t, user |-> u, gh |-> g]
    <3>7. new \in [token : Token, user : Account, gh : Github] /\ new.token = t /\ new.user = u /\ new.gh = g
      BY <3>1
    <3>8. opened' = opened \cup {new}
      BY <2>4
    <3> HIDE DEF new
    <3>9. LoginIsBound'
      BY <2>1, <3>1, <3>2, <3>7, <3>8 DEF TokensInv, LoginIsBound
    <3>10. \A x, y \in Handler :
              Carries(call'[x]) /\ Carries(call'[y]) /\ call'[x].token = call'[y].token => x = y
      BY <3>6 DEF TokensInv
    <3>11. ASSUME NEW s \in opened'
           PROVE  /\ s.token \in drawn' /\ oauth'[s.token] = None
                  /\ \A x \in Handler : Carries(call'[x]) => call'[x].token # s.token
      BY <2>1, <3>1, <3>6, <3>7, <3>8 DEF TokensInv
    <3>12. opened' \subseteq [token : Token, user : Account, gh : Github]
      BY <3>7, <3>8 DEF TokensInv
    <3>13. Ledger!LedgerNext
      BY <3>1, <3>3 DEF Ledger!LedgerNext
    <3>14. TokensInv'
      BY <3>9, <3>10, <3>11, <3>12 DEF TokensInv
    <3>15. QED
      BY <2>2, <3>5, <3>13, <3>14
  <2>5. QED
    BY <2>1, <2>3, <2>4
<1>2. CASE BindFinish(h)
  <2>1. /\ call[h].pc = "bind" /\ call' = [call EXCEPT ![h] = Idle] /\ UNCHANGED <<oauth, drawn, opened>>
        /\ \/ owner' = bind_github(g, u) /\ bound' = bound \cup {<<g, owner'[g]>>}
           \/ UNCHANGED <<owner, bound>>
    BY <1>2 DEF BindFinish
  <2>2. g \in Github /\ u \in Account
    BY <1>0, <2>1 DEF CallOK
  <2>3. StatesInv' /\ \A x \in drawn : oauth[x] = None => oauth'[x] = None
    BY <2>1 DEF StatesInv
  <2>4. CASE owner[g] = None /\ owner' = bind_github(g, u) /\ bound' = bound \cup {<<g, owner'[g]>>}
    <3>1. owner' = [owner EXCEPT ![g] = u] /\ owner'[g] = u
      BY <2>2, <2>4 DEF bind_github, RowsInv
    <3>2. RowsInv'
      BY <2>2, <2>4, <3>1 DEF RowsInv
    <3>3. Ledger!Bind(g, u)
      BY <2>1, <2>4, <3>1 DEF Ledger!Bind
    <3>4. Ledger!LedgerNext
      BY <2>2, <3>3 DEF Ledger!LedgerNext
    <3>5. QED
      BY <1>0, <2>1, <2>3, <2>4, <3>2, <3>4, CallStep
  <2>5. CASE UNCHANGED <<owner, bound>>
    <3>1. RowsInv'
      BY <2>5 DEF RowsInv
    <3>2. QED
      BY <1>0, <2>1, <2>3, <2>5, <3>1, CallStep
  <2>6. owner[g] # None /\ owner' = bind_github(g, u) /\ bound' = bound \cup {<<g, owner'[g]>>}
        => UNCHANGED <<owner, bound>>
    BY <2>2 DEF bind_github, RowsInv
  <2>7. QED
    BY <2>1, <2>4, <2>5, <2>6
<1>3. CASE unbind_github(h)
  <2>1. /\ call[h].pc = "unbind" /\ UNCHANGED <<oauth, drawn, opened, bound>>
        /\ call[h] = [pc |-> "unbind", user |-> u, left |-> call[h].left] /\ call[h].left \subseteq Github
    BY <1>0, <1>3 DEF unbind_github, CallOK
  <2>2. StatesInv' /\ \A x \in drawn : oauth[x] = None => oauth'[x] = None
    BY <2>1 DEF StatesInv
  <2>3. ASSUME NEW k \in call[h].left,
               owner' = [owner EXCEPT ![k] = IF @ = call[h].user THEN None ELSE @],
               call' = [call EXCEPT ![h].left = @ \ {k}]
        PROVE  /\ RowsInv' /\ CallsInv' /\ TokensInv'
               /\ Ledger!LedgerNext \/ UNCHANGED <<owner, bound, opened>>
    <3> DEFINE c == [pc |-> "unbind", user |-> u, left |-> call[h].left \ {k}]
    <3>1. call' = [call EXCEPT ![h] = c]
      <4>1. [call[h] EXCEPT !.left = call[h].left \ {k}] = c
        BY <2>1
      <4>2. call' = [call EXCEPT ![h] = [call[h] EXCEPT !.left = call[h].left \ {k}]]
        BY <2>3
      <4>3. QED
        BY <4>1, <4>2
    <3>2. CallOK(c, drawn', oauth', bound') /\ ~Carries(c)
      BY <2>1 DEF CallOK, Carries
    <3> HIDE DEF c
    <3>3. CallsInv' /\ TokensInv'
      BY <2>1, <2>2, <3>1, <3>2, CallStep
    <3>4. RowsInv'
      BY <2>1, <2>3 DEF RowsInv
    <3>5. CASE owner[k] = u
      <4>1. Ledger!Unbind(k)
        BY <2>1, <2>3, <3>5 DEF Ledger!Unbind
      <4>2. Ledger!LedgerNext
        BY <2>1, <4>1 DEF Ledger!LedgerNext
      <4>3. QED
        BY <3>3, <3>4, <4>2
    <3>6. CASE owner[k] # u
      <4>1. owner' = owner
        BY <2>1, <2>3, <3>6 DEF RowsInv
      <4>2. QED
        BY <2>1, <3>3, <3>4, <4>1
    <3>7. QED
      BY <3>5, <3>6
  <2>4. CASE call' = [call EXCEPT ![h] = Idle] /\ UNCHANGED owner
    <3>1. RowsInv'
      BY <2>1, <2>4 DEF RowsInv
    <3>2. QED
      BY <1>0, <2>1, <2>2, <2>4, <3>1, CallStep
  <2>5. QED
    BY <1>3, <2>2, <2>3, <2>4 DEF unbind_github
<1>4. QED
  BY <1>1, <1>2, <1>3

LEMMA AgesStep ==
    ASSUME StatesInv, CallsInv, TokensInv, NEW t \in Token, Ages(t)
    PROVE  StatesInv' /\ CallsInv' /\ TokensInv' /\ Pending' \subseteq Pending
<1>1. /\ oauth[t] # None /\ oauth' = [oauth EXCEPT ![t] = [oauth[t] EXCEPT !.old = TRUE]]
      /\ UNCHANGED <<drawn, owner, call, opened, bound>>
  BY DEF Ages
<1>2. t \in drawn /\ StateOK(oauth[t])
  BY <1>1 DEF StatesInv
<1>3. StateOK([oauth[t] EXCEPT !.old = TRUE])
  BY <1>2 DEF StateOK
<1>4. /\ oauth' = [x \in Token |-> oauth'[x]] /\ oauth'[t] = [oauth[t] EXCEPT !.old = TRUE]
      /\ \A x \in Token \ {t} : oauth'[x] = oauth[x]
  BY <1>1 DEF StatesInv
<1>5. StatesInv'
  BY <1>1, <1>2, <1>3, <1>4 DEF StatesInv
<1>6. \A x \in Token : oauth[x] = None => oauth'[x] = None
  BY <1>1, <1>4
<1>7. CallsInv'
  BY <1>1, <1>6 DEF CallsInv, CallOK, StatesInv
<1>8. TokensInv'
  BY <1>1, <1>6 DEF TokensInv, LoginIsBound
<1>9. QED
  BY <1>1, <1>5, <1>6, <1>7, <1>8 DEF Pending

\* Pending states and inserts under way are counted together.
LEMMA Counts ==
    /\ IsFiniteSet(Pending) /\ Cardinality(Pending) \in Nat
    /\ IsFiniteSet(Inserting) /\ Cardinality(Inserting) \in Nat
    /\ Cardinality(Inserting) <= Cardinality(Handler) /\ Cardinality(Handler) \in Nat
    /\ IsFiniteSet(Pending') /\ Cardinality(Pending') \in Nat
    /\ IsFiniteSet(Inserting') /\ Cardinality(Inserting') \in Nat
    /\ Cardinality(Inserting') <= Cardinality(Handler)
<1>1. Pending \in SUBSET Token /\ Pending' \in SUBSET Token
  BY DEF Pending
<1>2. Inserting \in SUBSET Handler /\ Inserting' \in SUBSET Handler
  BY DEF Inserting
<1>3. IsFiniteSet(Pending) /\ IsFiniteSet(Pending') /\ IsFiniteSet(Inserting) /\ IsFiniteSet(Inserting')
      /\ Cardinality(Inserting) <= Cardinality(Handler) /\ Cardinality(Inserting') <= Cardinality(Handler)
  BY <1>1, <1>2, FS_Subset, GithubAssumption, RequestsAssumption
<1>4. QED
  BY <1>3, FS_CardinalityType, GithubAssumption, RequestsAssumption

LEMMA NoMorePending ==
    ASSUME PendingIsBounded, Pending' \subseteq Pending, Inserting' \subseteq Inserting
    PROVE  PendingIsBounded'
<1>1. Cardinality(Pending') <= Cardinality(Pending)
  BY Counts, FS_Subset
<1>2. Cardinality(Inserting') <= Cardinality(Inserting)
  BY Counts, FS_Subset
<1>3. QED
  BY <1>1, <1>2, Counts, GithubAssumption, RequestsAssumption DEF PendingIsBounded

LEMMA PendingStep ==
    ASSUME StatesInv, CallsInv, TokensInv, PendingIsBounded, GithubNext PROVE PendingIsBounded'
<1>0. Idle.pc # "insert"
  BY DEF Idle
<1>1. ASSUME NEW h \in Handler, NEW c, c.pc # "insert", call' = [call EXCEPT ![h] = c]
      PROVE  Inserting' \subseteq Inserting
  BY <1>1 DEF Inserting, CallsInv
<1>2. ASSUME NEW h \in Handler, NEW as, AuthorizeCheck(h, as) PROVE PendingIsBounded'
  <2>1. oauth' = prune_states(oauth)
    BY <1>2 DEF AuthorizeCheck
  <2>2. Pending' \subseteq Pending
    BY <2>1, PruneKeeps DEF Pending
  <2>3. CASE UNCHANGED call
    <3>1. Inserting' \subseteq Inserting
      BY <2>3 DEF Inserting
    <3>2. QED
      BY <2>2, <3>1, NoMorePending
  <2>4. CASE Cardinality({t \in Token : prune_states(oauth)[t] # None}) < MaxPending
    <3>1. Pending' = {t \in Token : prune_states(oauth)[t] # None}
      BY <2>1 DEF Pending
    <3>2. Cardinality(Pending') < MaxPending
      BY <2>4, <3>1
    <3>3. QED
      BY <3>2, Counts, GithubAssumption, RequestsAssumption DEF PendingIsBounded
  <2>5. QED
    BY <1>2, <2>3, <2>4 DEF AuthorizeCheck
<1>3. ASSUME NEW h \in Handler, NEW t \in Token, AuthorizeInsert(h, t) PROVE PendingIsBounded'
  <2>1. /\ call[h].pc = "insert" /\ oauth' = [oauth EXCEPT ![t] = call[h].as]
        /\ call' = [call EXCEPT ![h] = Idle]
    BY <1>3 DEF AuthorizeInsert
  <2>2. h \in Inserting /\ Inserting' = Inserting \ {h}
    BY <1>0, <2>1 DEF Inserting, CallsInv
  <2>3. Pending' \in SUBSET (Pending \cup {t})
    BY <2>1 DEF Pending, StatesInv
  <2>4. Cardinality(Inserting') = Cardinality(Inserting) - 1
    BY <2>2, Counts, FS_RemoveElement
  <2>5. /\ IsFiniteSet(Pending \cup {t}) /\ Cardinality(Pending \cup {t}) \in Nat
        /\ Cardinality(Pending \cup {t}) <= Cardinality(Pending) + 1
    <3>1. IsFiniteSet(Pending)
      BY Counts
    <3>2. IsFiniteSet(Pending \cup {t}) /\ Cardinality(Pending \cup {t}) =
            IF t \in Pending THEN Cardinality(Pending) ELSE Cardinality(Pending) + 1
      BY <3>1, FS_AddElement
    <3>3. QED
      BY <3>2, Counts
  <2>6. Cardinality(Pending') <= Cardinality(Pending \cup {t})
    BY <2>3, <2>5, FS_Subset
  <2>7. QED
    BY <2>4, <2>5, <2>6, Counts, GithubAssumption, RequestsAssumption DEF PendingIsBounded
<1>4. ASSUME NEW h \in Handler, NEW t \in Token, CallbackBegin(h, t) PROVE PendingIsBounded'
  <2> DEFINE c == [pc |-> "exchange", as |-> prune_states(oauth)[t], token |-> t]
  <2>1. /\ oauth' = [prune_states(oauth) EXCEPT ![t] = None]
        /\ call' = [call EXCEPT ![h] = c] \/ UNCHANGED call
    BY <1>4 DEF CallbackBegin, consume_state
  <2>2. Pending' \subseteq Pending
    BY <2>1, PruneKeeps DEF Pending
  <2>3. c.pc # "insert"
    OBVIOUS
  <2> HIDE DEF c
  <2>4. Inserting' \subseteq Inserting
    BY <1>1, <2>1, <2>3 DEF Inserting
  <2>5. QED
    BY <2>2, <2>4, NoMorePending
<1>5. ASSUME NEW h \in Handler, NEW c, c.pc # "insert", call' = [call EXCEPT ![h] = c], UNCHANGED oauth
      PROVE  PendingIsBounded'
  <2>1. Pending' \subseteq Pending
    BY <1>5 DEF Pending
  <2>2. QED
    BY <1>1, <1>5, <2>1, NoMorePending
<1>6. ASSUME NEW h \in Handler,
             \/ exchange_code(h) \/ FindIdentity(h) \/ LoginFinish(h) \/ BindFinish(h)
             \/ \E u \in Account : github_unbind(h, u)
      PROVE  PendingIsBounded'
  <2>1. UNCHANGED oauth
    BY <1>6 DEF exchange_code, FindIdentity, LoginFinish, BindFinish, github_unbind
  <2>2. call[h].pc = "find" => call[h].as.mode \in {"bind", "login"}
    BY DEF CallsInv, CallOK, Carries, StateOK
  <2>3. PICK c : c.pc # "insert" /\ call' = [call EXCEPT ![h] = c]
    BY <1>0, <1>6, <2>2 DEF exchange_code, FindIdentity, LoginFinish, BindFinish, github_unbind
  <2>4. QED
    BY <1>5, <2>1, <2>3
<1>7. ASSUME NEW h \in Handler, unbind_github(h) PROVE PendingIsBounded'
  <2>1. CASE call' = [call EXCEPT ![h] = Idle]
    BY <1>0, <1>5, <1>7, <2>1 DEF unbind_github
  <2>2. ASSUME NEW k, call' = [call EXCEPT ![h].left = @ \ {k}], call[h].pc = "unbind", UNCHANGED oauth
        PROVE  PendingIsBounded'
    <3>1. call' = [call EXCEPT ![h] = [call[h] EXCEPT !.left = call[h].left \ {k}]]
      BY <2>2
    <3>2. [call[h] EXCEPT !.left = call[h].left \ {k}].pc = "unbind"
      BY <2>2 DEF CallsInv, CallOK
    <3>3. QED
      BY <1>5, <2>2, <3>1, <3>2
  <2>3. QED
    BY <1>7, <2>1, <2>2 DEF unbind_github
<1>8. ASSUME NEW t \in Token, Ages(t) PROVE PendingIsBounded'
  <2>1. Inserting' \subseteq Inserting
    BY <1>8 DEF Ages, Inserting
  <2>2. QED
    BY <1>8, <2>1, AgesStep, NoMorePending
<1>9. QED
  BY <1>2, <1>3, <1>4, <1>6, <1>7, <1>8 DEF GithubNext, github_start, github_login_start

LEMMA GithubStep ==
    ASSUME GithubInv, [GithubNext]_githubVars
    PROVE  GithubInv' /\ [Ledger!LedgerNext]_<<owner, bound, opened>>
<1>0. StatesInv /\ RowsInv /\ CallsInv /\ TokensInv /\ PendingIsBounded
  BY DEF GithubInv
<1>1. CASE UNCHANGED githubVars
  BY <1>1 DEF githubVars, GithubInv, StatesInv, RowsInv, CallsInv, TokensInv, LoginIsBound,
     PendingIsBounded, Pending, Inserting
<1>2. CASE GithubNext
  <2>1. PendingIsBounded'
    BY <1>0, <1>2, PendingStep
  <2>2. CASE UNCHANGED <<owner, bound, opened>> /\ StatesInv' /\ CallsInv' /\ TokensInv'
    <3>1. RowsInv'
      BY <1>0, <2>2 DEF RowsInv
    <3>2. QED
      BY <2>1, <2>2, <3>1 DEF GithubInv
  <2>3. ASSUME NEW h \in Handler,
               \/ \E u \in Account : github_start(h, u)
               \/ \E accepted \in BOOLEAN : github_login_start(h, accepted)
               \/ \E t \in Token : AuthorizeInsert(h, t)
        PROVE  UNCHANGED <<owner, bound, opened>> /\ StatesInv' /\ CallsInv' /\ TokensInv'
    <3>1. UNCHANGED <<owner, bound, opened>>
      BY <2>3 DEF github_start, github_login_start, AuthorizeCheck, AuthorizeInsert
    <3>2. QED
      BY <1>0, <2>3, <3>1, AuthorizeStep
  <2>4. ASSUME NEW h \in Handler,
               \/ \E t \in Token : CallbackBegin(h, t)
               \/ exchange_code(h) \/ FindIdentity(h)
               \/ \E u \in Account : github_unbind(h, u)
        PROVE  UNCHANGED <<owner, bound, opened>> /\ StatesInv' /\ CallsInv' /\ TokensInv'
    <3>1. UNCHANGED <<owner, bound, opened>>
      BY <2>4 DEF CallbackBegin, exchange_code, FindIdentity, github_unbind
    <3>2. QED
      BY <1>0, <2>4, <3>1, CallbackStep
  <2>5. ASSUME NEW h \in Handler, LoginFinish(h) \/ BindFinish(h) \/ unbind_github(h)
        PROVE  GithubInv' /\ [Ledger!LedgerNext]_<<owner, bound, opened>>
    BY <1>0, <2>1, <2>5, WriteStep DEF GithubInv
  <2>6. ASSUME NEW t \in Token, Ages(t)
        PROVE  UNCHANGED <<owner, bound, opened>> /\ StatesInv' /\ CallsInv' /\ TokensInv'
    BY <1>0, <2>6, AgesStep DEF Ages
  <2>7. QED
    BY <1>2, <2>2, <2>3, <2>4, <2>5, <2>6 DEF GithubNext
<1>3. QED
  BY <1>1, <1>2

LEMMA GithubStart == GithubInit => GithubInv /\ Ledger!LedgerInit
<1> SUFFICES ASSUME GithubInit PROVE GithubInv /\ Ledger!LedgerInit
  OBVIOUS
<1>1. StatesInv /\ RowsInv /\ CallsInv /\ TokensInv /\ Ledger!LedgerInit
  BY DEF GithubInit, StatesInv, RowsInv, CallsInv, TokensInv, LoginIsBound, CallOK, Carries, Idle,
     Ledger!LedgerInit
<1>2. Pending = {} /\ Inserting = {}
  BY DEF GithubInit, Pending, Inserting, Idle
<1>3. PendingIsBounded
  BY <1>2, Counts, FS_EmptySet, GithubAssumption, RequestsAssumption DEF PendingIsBounded
<1>4. QED
  BY <1>1, <1>3 DEF GithubInv

(* However callbacks, bindings and unbinds race, a GitHub login opens a    *)
(* session of a user who had bound the account, one OAuth state opens at   *)
(* most one session, and the pending states exceed their limit at most by  *)
(* the requests between the count and the insert (auth/github.rs,          *)
(* auth/routes.rs:643-841).                                                *)
THEOREM GithubStaysSound == GithubSpec => []GithubIsSound
<1>1. GithubInv => GithubIsSound
  BY DEF GithubInv, GithubIsSound, GithubTypeOK, StatesInv, StateOK, RowsInv, TokensInv
<1>2. GithubInv /\ [GithubNext]_githubVars => GithubInv'
  BY GithubStep
<1>3. QED
  BY <1>1, <1>2, GithubStart, PTL DEF GithubSpec

(* The callbacks and unbinds, with all their awaits, implement the ledger: *)
(* an account has one owner and changes hands only by being given up, and  *)
(* a session is opened once, for a user who has owned the account.         *)
THEOREM GithubImplementsLedger == GithubSpec => ImplementsLedger
<1>1. GithubInv /\ [GithubNext]_githubVars => GithubInv' /\ [Ledger!LedgerNext]_<<owner, bound, opened>>
  BY GithubStep
<1>2. QED
  BY <1>1, GithubStart, PTL DEF GithubSpec, ImplementsLedger, Ledger!LedgerSpec, Ledger!ledgerVars

-----------------------------------------------------------------------------
(* Actions on rooms and users.                                             *)

\* PMP's rooms: a host is a player of a room that has players.
RoomOK(r) ==
    /\ r = [host |-> r.host, players |-> r.players]
    /\ r.players \subseteq Player /\ (r.players # {} <=> r.host \in r.players)
PlacesInv ==
    /\ rooms = [r \in Room |-> rooms[r]]
    /\ \A r \in OpenRoom : RoomOK(rooms[r])

\* A command waits in one place of one queue, and only while it is queued.
WaitsOnce ==
    \A k, l \in Key : \A i \in 1..Len(queue[k]), j \in 1..Len(queue[l]) :
        queue[k][i] = queue[l][j] => k = l /\ i = j
WaitingInv ==
    /\ outcome \in Seq({"queued", "ok", "failed"})
    /\ command = [i \in 1..Len(command) |-> command[i]] /\ Len(command) \in Nat
    /\ Len(command) = Len(outcome) /\ Len(outcome) <= MaxCommands
    /\ queue \in [Key -> Seq(1..Len(outcome))]
    /\ \A k \in Key : \A i \in 1..Len(queue[k]) : outcome[queue[k][i]] = "queued"
    /\ WaitsOnce

\* What PMP did was answered with success or lost track of.
EffectInv ==
    /\ did \subseteq 1..Len(outcome) /\ lost \subseteq 1..Len(outcome)
    /\ \A id \in 1..Len(outcome) : outcome[id] = "ok" => id \in did
    /\ \A id \in did : outcome[id] = "ok" \/ id \in lost
    /\ \A id \in lost : outcome[id] = "failed"

\* What may be reported when the outcomes are `out'.
Entries(out) ==
    {e \in Nat \X {"ok", "failed", "timeout"} :
        e[1] = 0 \/ e[2] = "timeout" \/ (e[1] \in 1..Len(out) /\ out[e[1]] = e[2])}

ActionOK(s, out) ==
    /\ s = [pc |-> s.pc, op |-> "action", by |-> s.by, id |-> s.id, key |-> s.key, kind |-> s.kind,
            target |-> s.target]
    /\ s.pc \in {"host", "submit", "wait"} /\ s.key \in Key
    /\ s.pc = "wait" => s.id \in 1..Len(out)
BatchOK(s, out) ==
    /\ s = [pc |-> s.pc, op |-> "batch", by |-> s.by, left |-> s.left, kind |-> s.kind,
            target |-> s.target, dry |-> s.dry, results |-> s.results, id |-> s.id]
    /\ s.pc \in {"info", "submit", "wait"} /\ s.kind \in BatchKind
    /\ s.left \in Seq(Room) /\ (s.pc # "info" => s.left # <<>>)
    /\ s.results \in Seq(Entries(out))
    /\ s.pc = "wait" => s.id \in 1..Len(out)
ServingOK(s, out) ==
    s = Idle \/ (s.op = "action" /\ ActionOK(s, out)) \/ (s.op = "batch" /\ BatchOK(s, out))

ServingInv ==
    /\ serving = [h \in RoomHandler |-> serving[h]] /\ report = [h \in RoomHandler |-> report[h]]
    /\ \A h \in RoomHandler : ServingOK(serving[h], outcome) /\ report[h] \in Seq(Entries(outcome))

RoomsInv == PlacesInv /\ WaitingInv /\ EffectInv /\ ServingInv

\* An outcome that is known does not change.
Settles(out, out2) ==
    /\ out \in Seq({"queued", "ok", "failed"}) /\ out2 \in Seq({"queued", "ok", "failed"})
    /\ Len(out) <= Len(out2)
    /\ \A i \in 1..Len(out) : out[i] # "queued" => out2[i] = out[i]

LEMMA ReportsStay ==
    ASSUME NEW out, NEW out2, Settles(out, out2)
    PROVE  /\ Entries(out) \subseteq Entries(out2)
           /\ \A r : r \in Seq(Entries(out)) => r \in Seq(Entries(out2))
           /\ \A s : ServingOK(s, out) => ServingOK(s, out2)
<1>1. Entries(out) \subseteq Entries(out2)
  BY DEF Entries, Settles
<1>2. ASSUME NEW r \in Seq(Entries(out)) PROVE r \in Seq(Entries(out2))
  BY <1>1
<1>3. 1..Len(out) \subseteq 1..Len(out2)
  BY DEF Settles
<1>4. ASSUME NEW s, ServingOK(s, out) PROVE ServingOK(s, out2)
  BY <1>2, <1>3, <1>4 DEF ServingOK, ActionOK, BatchOK
<1>5. QED
  BY <1>1, <1>2, <1>4

\* A step of one handler while outcomes settle.
LEMMA ServingStep ==
    ASSUME ServingInv, NEW h \in RoomHandler, NEW s, NEW r,
           serving' = [serving EXCEPT ![h] = s], report' = [report EXCEPT ![h] = r],
           Settles(outcome, outcome'), ServingOK(s, outcome'), r \in Seq(Entries(outcome'))
    PROVE  ServingInv'
<1>1. /\ serving' = [x \in RoomHandler |-> serving'[x]] /\ report' = [x \in RoomHandler |-> report'[x]]
      /\ serving'[h] = s /\ report'[h] = r
      /\ \A x \in RoomHandler \ {h} : serving'[x] = serving[x] /\ report'[x] = report[x]
  BY DEF ServingInv
<1>2. \A x \in RoomHandler \ {h} : ServingOK(serving[x], outcome') /\ report[x] \in Seq(Entries(outcome'))
  BY ReportsStay DEF ServingInv
<1>3. QED
  BY <1>1, <1>2 DEF ServingInv

\* PMP's own steps, and create and close.
LEMMA LeaveKeeps ==
    ASSUME PlacesInv, NEW r \in OpenRoom, NEW p \in rooms[r].players
    PROVE  RoomOK(Leave(r, p))
<1> DEFINE rest == rooms[r].players \ {p}
           next == IF rooms[r].host # p THEN rooms[r].host
                   ELSE IF rest = {} THEN None ELSE CHOOSE q \in rest : TRUE
<1>1. RoomOK(rooms[r])
  BY DEF PlacesInv
<1>2. Leave(r, p) = [host |-> next, players |-> rest]
  BY DEF Leave
<1>3. rest # {} => (CHOOSE q \in rest : TRUE) \in rest
  OBVIOUS
<1>4. rest # {} <=> next \in rest
  BY <1>1, <1>3 DEF RoomOK
<1>5. rest \subseteq Player
  BY <1>1 DEF RoomOK
<1> HIDE DEF rest, next
<1>6. QED
  BY <1>2, <1>4, <1>5 DEF RoomOK

LEMMA PmpStep ==
    ASSUME PlacesInv, NEW r \in Room,
           \/ create_room(r) \/ close(r)
           \/ \E p \in Player : PlayerJoins(r, p) \/ PlayerLeaves(r, p)
    PROVE  PlacesInv' /\ UNCHANGED <<did, queue, outcome, command, lost, serving, report>>
<1>1. UNCHANGED <<did, queue, outcome, command, lost, serving, report>>
  BY DEF create_room, close, PlayerJoins, PlayerLeaves, broker
<1>2. ASSUME NEW room, room = None \/ RoomOK(room), rooms' = [rooms EXCEPT ![r] = room] PROVE PlacesInv'
  BY <1>2 DEF PlacesInv, OpenRoom
<1>3. CASE create_room(r)
  <2> DEFINE room == [host |-> None, players |-> {}]
  <2>1. RoomOK(room)
    BY DEF RoomOK
  <2> HIDE DEF room
  <2>2. QED
    BY <1>1, <1>2, <1>3, <2>1 DEF create_room, room
<1>4. CASE close(r)
  BY <1>1, <1>2, <1>4 DEF close
<1>5. ASSUME NEW p \in Player, PlayerJoins(r, p) PROVE PlacesInv'
  <2> DEFINE room == [host |-> IF rooms[r].players = {} THEN p ELSE rooms[r].host,
                      players |-> rooms[r].players \cup {p}]
  <2>1. RoomOK(rooms[r])
    BY <1>5 DEF PlayerJoins, PlacesInv
  <2>2. rooms' = [rooms EXCEPT ![r] = room]
    BY <1>5 DEF PlayerJoins
  <2>3. RoomOK(room)
    BY <2>1 DEF RoomOK
  <2> HIDE DEF room
  <2>4. QED
    BY <1>2, <2>2, <2>3
<1>6. ASSUME NEW p \in Player, PlayerLeaves(r, p) PROVE PlacesInv'
  BY <1>2, <1>6, LeaveKeeps DEF PlayerLeaves
<1>7. QED
  BY <1>1, <1>3, <1>4, <1>5, <1>6

\* The executor settles the first command of a queue.
LEMMA SettleStep ==
    ASSUME RoomsInv, NEW k \in Key, NEW o \in {"ok", "failed"}, Settle(k, o)
    PROVE  /\ WaitingInv' /\ ServingInv'
           /\ Head(queue[k]) \in 1..Len(outcome) /\ outcome[Head(queue[k])] = "queued"
           /\ Len(outcome') = Len(outcome) /\ outcome'[Head(queue[k])] = o
           /\ \A i \in 1..Len(outcome) \ {Head(queue[k])} : outcome'[i] = outcome[i]
<1>0. PlacesInv /\ WaitingInv /\ ServingInv
  BY DEF RoomsInv
<1> DEFINE id == Head(queue[k])
<1>1. /\ queue[k] # <<>> /\ queue' = [queue EXCEPT ![k] = Tail(queue[k])]
      /\ UNCHANGED <<command, serving, report>>
  BY DEF Settle
<1>2. outcome' = [outcome EXCEPT ![id] = o]
  BY DEF Settle
<1>3. /\ queue[k] \in Seq(1..Len(outcome)) /\ Len(queue[k]) \in Nat \ {0}
      /\ id = queue[k][1] /\ id \in 1..Len(outcome) /\ outcome[id] = "queued"
      /\ Len(Tail(queue[k])) = Len(queue[k]) - 1
      /\ \A i \in 1..Len(Tail(queue[k])) : Tail(queue[k])[i] = queue[k][i + 1] /\ i + 1 \in 1..Len(queue[k])
  <2>1. queue[k] \in Seq(1..Len(outcome)) /\ Len(queue[k]) \in Nat \ {0}
    BY <1>0, <1>1 DEF WaitingInv
  <2>2. 1 \in 1..Len(queue[k]) /\ id = queue[k][1] /\ id \in 1..Len(outcome)
    BY <2>1
  <2>3. outcome[id] = "queued"
    BY <1>0, <2>2 DEF WaitingInv
  <2>4. /\ Len(Tail(queue[k])) = Len(queue[k]) - 1
        /\ \A i \in 1..Len(Tail(queue[k])) : Tail(queue[k])[i] = queue[k][i + 1] /\ i + 1 \in 1..Len(queue[k])
    BY <1>1, <2>1
  <2>5. QED
    BY <2>1, <2>2, <2>3, <2>4
<1>4. /\ Len(outcome') = Len(outcome) /\ outcome' \in Seq({"queued", "ok", "failed"})
      /\ \A i \in 1..Len(outcome) \ {id} : outcome'[i] = outcome[i]
      /\ outcome'[id] = o
  BY <1>0, <1>2, <1>3 DEF WaitingInv
<1>5. Settles(outcome, outcome')
  BY <1>0, <1>3, <1>4 DEF Settles, WaitingInv
<1>6. WaitingInv'
  <2>1. queue' \in [Key -> Seq(1..Len(outcome'))]
    BY <1>0, <1>1, <1>3, <1>4 DEF WaitingInv
  <2>2. ASSUME NEW l \in Key, NEW i \in 1..Len(queue'[l])
        PROVE  \E j \in 1..Len(queue[l]) : /\ queue'[l][i] = queue[l][j] /\ queue[l][j] # id
                                           /\ j = IF l = k THEN i + 1 ELSE i
    <3>1. CASE l = k
      <4>1. queue'[l] = Tail(queue[k])
        BY <1>0, <1>1, <3>1 DEF WaitingInv
      <4>2. i \in 1..Len(Tail(queue[k])) /\ queue'[l][i] = queue[k][i + 1] /\ i + 1 \in 1..Len(queue[k])
        BY <1>3, <2>2, <4>1
      <4>3. queue[k][i + 1] # queue[k][1]
        <5>1. 1 \in 1..Len(queue[k]) /\ i + 1 # 1
          BY <1>3, <2>2
        <5>2. WaitsOnce
          BY <1>0 DEF WaitingInv
        <5>3. QED
          BY <4>2, <5>1, <5>2 DEF WaitsOnce
      <4>4. QED
        BY <1>3, <3>1, <4>2, <4>3
    <3>2. CASE l # k
      <4>1. queue'[l] = queue[l]
        BY <1>0, <1>1, <3>2 DEF WaitingInv
      <4>2. queue[l][i] # queue[k][1]
        <5>1. 1 \in 1..Len(queue[k]) /\ i \in 1..Len(queue[l]) /\ WaitsOnce
          BY <1>0, <1>3, <2>2, <4>1 DEF WaitingInv
        <5>2. QED
          BY <3>2, <5>1 DEF WaitsOnce
      <4>3. QED
        BY <1>3, <2>2, <3>2, <4>1, <4>2
    <3>3. QED
      BY <3>1, <3>2
  <2>3. ASSUME NEW l \in Key, NEW i \in 1..Len(queue'[l]) PROVE outcome'[queue'[l][i]] = "queued"
    <3>1. PICK j \in 1..Len(queue[l]) : queue'[l][i] = queue[l][j] /\ queue[l][j] # id
      BY <2>2, <2>3
    <3>2. queue[l][j] \in 1..Len(outcome) /\ outcome[queue[l][j]] = "queued"
      BY <1>0 DEF WaitingInv
    <3>3. QED
      BY <1>4, <3>1, <3>2
  <2>4. ASSUME NEW l \in Key, NEW m \in Key, NEW i \in 1..Len(queue'[l]), NEW j \in 1..Len(queue'[m]),
               queue'[l][i] = queue'[m][j]
        PROVE  l = m /\ i = j
    <3>1. PICK a \in 1..Len(queue[l]) : queue'[l][i] = queue[l][a] /\ a = IF l = k THEN i + 1 ELSE i
      BY <2>2
    <3>2. PICK b \in 1..Len(queue[m]) : queue'[m][j] = queue[m][b] /\ b = IF m = k THEN j + 1 ELSE j
      BY <2>2
    <3>3. l = m /\ a = b
      <4>1. WaitsOnce /\ queue[l][a] = queue[m][b]
        BY <1>0, <2>4, <3>1, <3>2 DEF WaitingInv
      <4>2. QED
        BY <4>1 DEF WaitsOnce
    <3>4. i \in Int /\ j \in Int
      BY <2>4
    <3>5. QED
      BY <3>1, <3>2, <3>3, <3>4
  <2>5. WaitsOnce'
    BY <2>4 DEF WaitsOnce
  <2>6. QED
    BY <1>0, <1>1, <1>4, <2>1, <2>3, <2>5 DEF WaitingInv
<1>7. ServingInv'
  BY <1>0, <1>1, <1>5, ReportsStay DEF ServingInv
<1>8. QED
  BY <1>3, <1>4, <1>6, <1>7

\* What a command does to the rooms.
LEMMA EffectStep ==
    ASSUME PlacesInv, NEW id, Effect(id)
    PROVE  PlacesInv'
<1> DEFINE target == command[id].target
<1>1. rooms' = [r \in Room |-> rooms'[r]]
  BY DEF Effect
<1>2. ASSUME NEW r \in Room
      PROVE  \/ rooms'[r] = None
             \/ rooms'[r] = rooms[r]
             \/ r \in OpenRoom /\ target \in rooms[r].players /\ rooms'[r] = Leave(r, target)
  <2>1. Into(id) \subseteq OpenRoom
    BY DEF Into
  <2>2. QED
    BY <2>1 DEF Effect
<1>3. ASSUME NEW r \in Room, rooms'[r] # None PROVE RoomOK(rooms'[r])
  BY <1>2, <1>3, LeaveKeeps DEF PlacesInv, OpenRoom
<1>4. QED
  BY <1>1, <1>3 DEF PlacesInv, OpenRoom

\* PMP answers, or the executor gives up, or PMP acts after that.
LEMMA ExecuteStep ==
    ASSUME RoomsInv,
           \/ \E k \in Key : Execute(k) \/ GiveUp(k)
           \/ \E id \in lost : ExecuteLate(id)
    PROVE  RoomsInv'
<1>0. PlacesInv /\ WaitingInv /\ ServingInv /\ EffectInv
  BY DEF RoomsInv
<1>1. UNCHANGED rooms => PlacesInv'
  BY <1>0 DEF PlacesInv, OpenRoom
<1>2. ASSUME NEW k \in Key, Execute(k) PROVE RoomsInv'
  <2> DEFINE id == Head(queue[k])
             o == IF Works(id) THEN "ok" ELSE "failed"
  <2>1. Settle(k, o) /\ o \in {"ok", "failed"} /\ UNCHANGED lost
        /\ (o = "ok" => Effect(id)) /\ (o = "failed" => UNCHANGED <<rooms, did>>)
    BY <1>2 DEF Execute, pmp
  <2>2. o = "ok" => did' = did \cup {id}
    BY <2>1 DEF Effect
  <2> HIDE DEF id, o
  <2>3. /\ WaitingInv' /\ ServingInv'
        /\ id \in 1..Len(outcome) /\ outcome[id] = "queued"
        /\ Len(outcome') = Len(outcome) /\ outcome'[id] = o
        /\ \A i \in 1..Len(outcome) \ {id} : outcome'[i] = outcome[i]
    BY <2>1, SettleStep DEF id
  <2>4. PlacesInv'
    BY <1>0, <1>1, <2>1, EffectStep
  <2>5. id \notin did /\ id \notin lost
    BY <1>0, <2>3 DEF EffectInv
  <2>6. EffectInv'
    <3>1. CASE o = "ok"
      BY <1>0, <2>1, <2>2, <2>3, <2>5, <3>1 DEF EffectInv
    <3>2. CASE o = "failed"
      BY <1>0, <2>1, <2>3, <2>5, <3>2 DEF EffectInv
    <3>3. QED
      BY <2>1, <3>1, <3>2
  <2>7. QED
    BY <2>3, <2>4, <2>6 DEF RoomsInv
<1>3. ASSUME NEW k \in Key, GiveUp(k) PROVE RoomsInv'
  <2> DEFINE id == Head(queue[k])
  <2>1. Settle(k, "failed") /\ lost' = lost \cup {id} /\ UNCHANGED <<rooms, did>>
    BY <1>3 DEF GiveUp, pmp
  <2>2. /\ WaitingInv' /\ ServingInv'
        /\ id \in 1..Len(outcome) /\ outcome[id] = "queued"
        /\ Len(outcome') = Len(outcome) /\ outcome'[id] = "failed"
        /\ \A i \in 1..Len(outcome) \ {id} : outcome'[i] = outcome[i]
    BY <2>1, SettleStep
  <2> HIDE DEF id
  <2>3. EffectInv'
    BY <1>0, <2>1, <2>2 DEF EffectInv
  <2>4. QED
    BY <1>1, <2>1, <2>2, <2>3 DEF RoomsInv
<1>4. ASSUME NEW id \in lost, ExecuteLate(id) PROVE RoomsInv'
  <2>1. /\ Effect(id) /\ did' = did \cup {id}
        /\ UNCHANGED <<queue, outcome, command, lost, serving, report>>
    BY <1>4 DEF ExecuteLate, Effect, broker
  <2>2. PlacesInv'
    BY <1>0, <2>1, EffectStep
  <2>3. EffectInv'
    BY <1>0, <2>1 DEF EffectInv
  <2>4. WaitingInv' /\ ServingInv'
    BY <1>0, <2>1 DEF WaitingInv, WaitsOnce, ServingInv
  <2>5. QED
    BY <2>2, <2>3, <2>4 DEF RoomsInv
<1>5. QED
  BY <1>2, <1>3, <1>4

LEMMA WaitsNow ==
    ASSUME NEW s, NEW out, NEW id \in 1..Len(out), ServingOK(s, out), s.pc = "submit"
    PROVE  ServingOK([s EXCEPT !.pc = "wait", !.id = id], out)
<1>0. Idle.pc = "idle"
  BY DEF Idle
<1>1. CASE s.op = "action" /\ ActionOK(s, out)
  <2> DEFINE t == [pc |-> "wait", op |-> "action", by |-> s.by, id |-> id, key |-> s.key,
                   kind |-> s.kind, target |-> s.target]
  <2>1. [s EXCEPT !.pc = "wait", !.id = id] = t
    <3> DEFINE r == [pc |-> "wait", op |-> "action", by |-> s.by, id |-> s.id, key |-> s.key,
                    kind |-> s.kind, target |-> s.target]
    <3>1. [s EXCEPT !.pc = "wait", !.id = id] = [[s EXCEPT !.pc = "wait"] EXCEPT !.id = id]
      BY <1>1 DEF ActionOK
    <3>2. [s EXCEPT !.pc = "wait"] = r
      BY <1>1 DEF ActionOK
    <3>3. [r EXCEPT !.id = id] = t
      OBVIOUS
    <3> HIDE DEF r, t
    <3>4. QED
      BY <3>1, <3>2, <3>3
  <2>2. t.op = "action" /\ ActionOK(t, out)
    BY <1>1 DEF ActionOK
  <2> HIDE DEF t
  <2>3. QED
    BY <2>1, <2>2 DEF ServingOK
<1>2. CASE s.op = "batch" /\ BatchOK(s, out)
  <2> DEFINE t == [pc |-> "wait", op |-> "batch", by |-> s.by, left |-> s.left, kind |-> s.kind,
                   target |-> s.target, dry |-> s.dry, results |-> s.results, id |-> id]
  <2>1. [s EXCEPT !.pc = "wait", !.id = id] = t
    <3> DEFINE r == [pc |-> "wait", op |-> "batch", by |-> s.by, left |-> s.left, kind |-> s.kind,
                    target |-> s.target, dry |-> s.dry, results |-> s.results, id |-> s.id]
    <3>1. [s EXCEPT !.pc = "wait", !.id = id] = [[s EXCEPT !.pc = "wait"] EXCEPT !.id = id]
      BY <1>2 DEF BatchOK
    <3>2. [s EXCEPT !.pc = "wait"] = r
      BY <1>2 DEF BatchOK
    <3>3. [r EXCEPT !.id = id] = t
      OBVIOUS
    <3> HIDE DEF r, t
    <3>4. QED
      BY <3>1, <3>2, <3>3
  <2>2. t.op = "batch" /\ BatchOK(t, out)
    BY <1>2 DEF BatchOK
  <2> HIDE DEF t
  <2>3. QED
    BY <2>1, <2>2 DEF ServingOK
<1>3. QED
  BY <1>0, <1>1, <1>2 DEF ServingOK

\* A handler queues a command at the end of its queue.
LEMMA SubmitsStep ==
    ASSUME RoomsInv, NEW h \in RoomHandler, NEW c, c.key \in Key, Submit(h, c),
           UNCHANGED <<rooms, did, report>>, serving[h].pc = "submit"
    PROVE  RoomsInv'
<1>0. PlacesInv /\ WaitingInv /\ EffectInv /\ ServingInv
  BY DEF RoomsInv
<1> DEFINE id == Len(outcome) + 1
           k == c.key
<1>1. /\ Len(outcome) < MaxCommands /\ outcome' = Append(outcome, "queued") /\ command' = Append(command, c)
      /\ queue' = [queue EXCEPT ![k] = Append(queue[k], id)]
      /\ serving' = [serving EXCEPT ![h].pc = "wait", ![h].id = id]
  BY DEF Submit
<1>2. /\ outcome \in Seq({"queued", "ok", "failed"}) /\ Len(outcome) \in Nat
      /\ queue \in [Key -> Seq(1..Len(outcome))]
      /\ command = [i \in 1..Len(command) |-> command[i]] /\ Len(command) = Len(outcome)
  BY <1>0 DEF WaitingInv
<1>3. /\ outcome' \in Seq({"queued", "ok", "failed"}) /\ Len(outcome') = id
      /\ outcome'[id] = "queued" /\ \A i \in 1..Len(outcome) : outcome'[i] = outcome[i]
  BY <1>1, <1>2
<1>4. Settles(outcome, outcome')
  BY <1>2, <1>3 DEF Settles
<1>5. WaitingInv'
  <2>1. /\ command' = [i \in 1..Len(command') |-> command'[i]] /\ Len(command') = id
    <3>1. command \in Seq({command[i] : i \in 1..Len(command)})
      BY <1>2
    <3>2. command \in Seq({command[i] : i \in 1..Len(command)} \cup {c})
      BY <3>1
    <3>3. command' \in Seq({command[i] : i \in 1..Len(command)} \cup {c}) /\ Len(command') = id
      BY <1>1, <1>2, <3>2
    <3>4. QED
      BY <3>3
  <2>2. /\ queue'[k] = Append(queue[k], id) /\ Len(queue'[k]) = Len(queue[k]) + 1
        /\ queue'[k][Len(queue[k]) + 1] = id /\ Len(queue[k]) \in Nat
        /\ \A i \in 1..Len(queue[k]) : queue'[k][i] = queue[k][i]
        /\ \A l \in Key \ {k} : queue'[l] = queue[l]
    BY <1>1, <1>2
  <2>3. queue' \in [Key -> Seq(1..id)]
    <3>1. \A l \in Key : queue[l] \in Seq(1..id)
      BY <1>2
    <3>2. Append(queue[k], id) \in Seq(1..id)
      BY <1>2, <3>1
    <3>3. QED
      BY <1>1, <1>2, <3>1, <3>2
  <2>4. ASSUME NEW l \in Key, NEW i \in 1..Len(queue'[l])
        PROVE  \/ i \in 1..Len(queue[l]) /\ queue'[l][i] = queue[l][i] /\ queue[l][i] \in 1..Len(outcome)
               \/ l = k /\ i = Len(queue[k]) + 1 /\ queue'[l][i] = id
    <3>1. CASE l = k
      BY SMTT(20), <1>2, <2>2, <2>4, <3>1
    <3>2. CASE l # k
      BY SMTT(20), <1>2, <2>2, <2>4, <3>2
    <3>3. QED
      BY <3>1, <3>2
  <2>5. ASSUME NEW l \in Key, NEW i \in 1..Len(queue'[l]) PROVE outcome'[queue'[l][i]] = "queued"
    <3>1. CASE queue'[l][i] = id
      BY <1>3, <3>1
    <3>2. CASE i \in 1..Len(queue[l]) /\ queue'[l][i] = queue[l][i] /\ queue[l][i] \in 1..Len(outcome)
      BY <1>0, <1>3, <3>2 DEF WaitingInv
    <3>3. QED
      BY <2>4, <2>5, <3>1, <3>2
  <2>6. ASSUME NEW l \in Key, NEW m \in Key, NEW i \in 1..Len(queue'[l]), NEW j \in 1..Len(queue'[m]),
               queue'[l][i] = queue'[m][j]
        PROVE  l = m /\ i = j
    <3>1. WaitsOnce /\ id \notin 1..Len(outcome)
      BY <1>0, <1>2 DEF WaitingInv
    <3>2. CASE queue'[l][i] = id
      BY <2>4, <2>6, <3>1, <3>2
    <3>3. CASE queue'[l][i] # id
      <4>1. i \in 1..Len(queue[l]) /\ queue'[l][i] = queue[l][i]
        BY <2>4, <2>6, <3>3
      <4>2. j \in 1..Len(queue[m]) /\ queue'[m][j] = queue[m][j]
        BY <2>4, <2>6, <3>3
      <4>3. queue[l][i] = queue[m][j]
        BY <2>6, <4>1, <4>2
      <4>4. QED
        BY <3>1, <4>1, <4>2, <4>3 DEF WaitsOnce
    <3>4. QED
      BY <3>2, <3>3
  <2>7. WaitsOnce'
    BY <2>6 DEF WaitsOnce
  <2>8. Len(outcome') <= MaxCommands
    BY <1>1, <1>2, <1>3, RoomsAssumption
  <2>9. QED
    BY <1>2, <1>3, <2>1, <2>3, <2>5, <2>7, <2>8 DEF WaitingInv
<1>6. ServingInv'
  <2> DEFINE s == [serving[h] EXCEPT !.pc = "wait", !.id = id]
  <2>1. serving' = [serving EXCEPT ![h] = s] /\ report' = [report EXCEPT ![h] = report[h]]
    BY <1>0, <1>1 DEF ServingInv
  <2>2. ServingOK(serving[h], outcome') /\ report[h] \in Seq(Entries(outcome'))
    BY <1>0, <1>4, ReportsStay DEF ServingInv
  <2>3. id \in 1..Len(outcome')
    BY <1>2, <1>3
  <2>4. ServingOK(s, outcome')
    BY <2>2, <2>3, WaitsNow
  <2> HIDE DEF s
  <2>5. QED
    BY <1>0, <1>4, <2>1, <2>2, <2>4, ServingStep
<1>7. PlacesInv'
  BY <1>0 DEF PlacesInv, OpenRoom
<1>8. EffectInv'
  <2>1. UNCHANGED <<did, lost>>
    BY DEF Submit
  <2>2. \A i \in 1..Len(outcome') : i \in 1..Len(outcome) \/ i = id
    BY <1>2, <1>3
  <2>3. 1..Len(outcome) \subseteq 1..Len(outcome')
    BY <1>2, <1>3
  <2> HIDE DEF id
  <2>4. QED
    BY <1>0, <1>3, <2>1, <2>2, <2>3 DEF EffectInv
<1>9. QED
  BY <1>5, <1>6, <1>7, <1>8 DEF RoomsInv

\* A handler that only moves on: the outcomes stay as they are.
LEMMA MovesOn ==
    ASSUME RoomsInv, NEW h \in RoomHandler, NEW s, NEW r,
           serving' = [serving EXCEPT ![h] = s], report' = [report EXCEPT ![h] = r],
           ServingOK(s, outcome), r \in Seq(Entries(outcome)),
           UNCHANGED <<rooms, banned, did, queue, outcome, command, lost>>
    PROVE  RoomsInv'
<1>0. PlacesInv /\ WaitingInv /\ EffectInv /\ ServingInv
  BY DEF RoomsInv
<1>1. PlacesInv'
  BY <1>0 DEF PlacesInv, OpenRoom
<1>2. WaitingInv'
  BY <1>0 DEF WaitingInv, WaitsOnce
<1>3. Settles(outcome, outcome')
  BY <1>0 DEF Settles, WaitingInv
<1>4. ServingInv'
  BY <1>0, <1>3, ServingStep
<1>5. EffectInv'
  BY <1>0 DEF EffectInv
<1>6. QED
  BY <1>1, <1>2, <1>4, <1>5 DEF RoomsInv

LEMMA BeginsStep ==
    ASSUME RoomsInv, NEW h \in RoomHandler, NEW by, NEW target \in Player, NEW kind \in ActionKind,
           \/ \E path \in Room, body \in Room \cup {None} :
                 \/ execute_room_action(h, by, path, body, kind, target)
                 \/ admin_room_action(h, by, path, body, kind, target)
           \/ \E body \in Player \cup {None} : user_actions(h, by, target, body)
           \/ \E ids \in Batches, dry \in BOOLEAN :
                 BatchBegin(h, by, ids, kind, target, dry)
    PROVE  RoomsInv'
<1>0. <<>> \in Seq(Entries(outcome))
  OBVIOUS
<1>1. ASSUME NEW pc \in {"host", "submit"}, NEW key \in Key, NEW k, NEW who,
             serving' = [serving EXCEPT ![h] = [pc |-> pc, op |-> "action", by |-> by, id |-> 0,
                                                key |-> key, kind |-> k, target |-> who]],
             report' = [report EXCEPT ![h] = <<>>], UNCHANGED <<pmp, broker>>
      PROVE  RoomsInv'
  <2> DEFINE s == [pc |-> pc, op |-> "action", by |-> by, id |-> 0, key |-> key, kind |-> k, target |-> who]
  <2>1. ServingOK(s, outcome)
    BY DEF ServingOK, ActionOK
  <2> HIDE DEF s
  <2>2. QED
    BY <1>0, <1>1, <2>1, MovesOn DEF s, pmp, broker
<1>2. ASSUME NEW room \in Room, ActionBegin(h, by, room, kind, target) PROVE RoomsInv'
  <2>1. resolve_queue_key(kind, room, target) \in Key
    BY DEF resolve_queue_key, ActionKind, BatchKind, Key
  <2>2. QED
    BY <1>1, <1>2, <2>1 DEF ActionBegin
<1>3. ASSUME NEW path \in Room, NEW body \in Room \cup {None},
             \/ execute_room_action(h, by, path, body, kind, target)
             \/ admin_room_action(h, by, path, body, kind, target)
      PROVE  RoomsInv'
  <2>1. scope(path, body) \in Room
    BY DEF scope
  <2>2. QED
    BY <1>2, <1>3, <2>1 DEF execute_room_action, admin_room_action
<1>4. ASSUME NEW body \in Player \cup {None}, user_actions(h, by, target, body) PROVE RoomsInv'
  <2>1. resolve_queue_key("player.kick", None, scope(target, body)) \in Key
    BY DEF scope, resolve_queue_key, Key
  <2>2. QED
    BY <1>1, <1>4, <2>1 DEF user_actions
<1>5. ASSUME NEW ids \in Batches, NEW dry \in BOOLEAN,
             BatchBegin(h, by, ids, kind, target, dry)
      PROVE  RoomsInv'
  <2> DEFINE s == [pc |-> "info", op |-> "batch", by |-> by, left |-> ids, kind |-> kind,
                   target |-> target, dry |-> dry, results |-> <<>>, id |-> 0]
  <2>1. ids \in Seq(Room)
    BY RoomsAssumption
  <2>2. ServingOK(s, outcome)
    BY <1>0, <1>5, <2>1 DEF BatchBegin, ServingOK, BatchOK
  <2> HIDE DEF s
  <2>3. QED
    BY <1>0, <1>5, <2>2, MovesOn DEF BatchBegin, s, pmp, broker
<1>6. QED
  BY <1>3, <1>4, <1>5

LEMMA ItemRecord ==
    ASSUME NEW s, NEW rest, NEW new,
           s = [pc |-> s.pc, op |-> "batch", by |-> s.by, left |-> s.left, kind |-> s.kind,
                target |-> s.target, dry |-> s.dry, results |-> s.results, id |-> s.id]
    PROVE  [s EXCEPT !.pc = "info", !.left = rest, !.results = new] =
           [pc |-> "info", op |-> "batch", by |-> s.by, left |-> rest, kind |-> s.kind,
            target |-> s.target, dry |-> s.dry, results |-> new, id |-> s.id]
<1> DEFINE a == [pc |-> "info", op |-> "batch", by |-> s.by, left |-> s.left, kind |-> s.kind,
                 target |-> s.target, dry |-> s.dry, results |-> s.results, id |-> s.id]
           b == [pc |-> "info", op |-> "batch", by |-> s.by, left |-> rest, kind |-> s.kind,
                 target |-> s.target, dry |-> s.dry, results |-> s.results, id |-> s.id]
           c == [pc |-> "info", op |-> "batch", by |-> s.by, left |-> rest, kind |-> s.kind,
                 target |-> s.target, dry |-> s.dry, results |-> new, id |-> s.id]
<1>1. [s EXCEPT !.pc = "info", !.left = rest, !.results = new]
        = [[[s EXCEPT !.pc = "info"] EXCEPT !.left = rest] EXCEPT !.results = new]
  OBVIOUS
<1>2. [s EXCEPT !.pc = "info"] = a
  OBVIOUS
<1>3. [a EXCEPT !.left = rest] = b
  OBVIOUS
<1>4. [b EXCEPT !.results = new] = c
  OBVIOUS
<1> HIDE DEF a, b, c
<1>5. QED
  BY <1>1, <1>2, <1>3, <1>4 DEF c

\* One item of a batch is done.
LEMMA ItemDone ==
    ASSUME ServingInv, NEW h \in RoomHandler, serving[h].op = "batch", BatchOK(serving[h], outcome),
           serving[h].left # <<>>, NEW id, NEW said, <<id, said>> \in Entries(outcome)
    PROVE  ServingOK(Item(h, id, said), outcome)
<1> DEFINE s == serving[h]
           t == [pc |-> "info", op |-> "batch", by |-> s.by, left |-> Tail(s.left), kind |-> s.kind,
                 target |-> s.target, dry |-> s.dry, results |-> Append(s.results, <<id, said>>), id |-> s.id]
<1>1. Item(h, id, said) = t
  <2>1. s = [pc |-> s.pc, op |-> "batch", by |-> s.by, left |-> s.left, kind |-> s.kind,
             target |-> s.target, dry |-> s.dry, results |-> s.results, id |-> s.id]
    BY DEF BatchOK
  <2>2. QED
    BY <2>1, ItemRecord DEF Item
<1>2. Tail(s.left) \in Seq(Room) /\ Append(s.results, <<id, said>>) \in Seq(Entries(outcome))
  BY DEF BatchOK
<1>3. t.op = "batch" /\ BatchOK(t, outcome)
  BY <1>2 DEF BatchOK
<1> HIDE DEF t
<1>4. QED
  BY <1>1, <1>3 DEF ServingOK

LEMMA RouteStep ==
    ASSUME RoomsInv, NEW h \in RoomHandler,
           \/ verify_real_host(h) \/ ActionSubmit(h) \/ ActionAnswer(h)
           \/ BatchInfo(h) \/ BatchSubmit(h) \/ BatchWait(h) \/ BatchAnswer(h)
    PROVE  RoomsInv'
<1>0. /\ ServingOK(serving[h], outcome) /\ ServingOK(Idle, outcome) /\ Idle.pc = "idle"
      /\ report[h] \in Seq(Entries(outcome)) /\ <<>> \in Seq(Entries(outcome))
      /\ report = [report EXCEPT ![h] = report[h]] /\ ServingInv
      /\ outcome \in Seq({"queued", "ok", "failed"})
  BY DEF RoomsInv, ServingInv, ServingOK, Idle, WaitingInv
<1> DEFINE s == serving[h]
<1>1. CASE verify_real_host(h)
  <2>1. s.pc = "host" /\ UNCHANGED <<rooms, banned, did, queue, outcome, command, lost, report>>
    BY <1>1 DEF verify_real_host, pmp, broker
  <2>2. CASE serving' = [serving EXCEPT ![h] = Idle]
    BY <1>0, <2>1, <2>2, MovesOn
  <2>3. CASE Serve(h, "submit")
    <3> DEFINE t == [pc |-> "submit", op |-> "action", by |-> s.by, id |-> s.id, key |-> s.key,
                     kind |-> s.kind, target |-> s.target]
    <3>1. ActionOK(s, outcome)
      BY <1>0, <2>1 DEF ServingOK, BatchOK
    <3>2. [s EXCEPT !.pc = "submit"] = t
      BY <3>1 DEF ActionOK
    <3>3. ServingOK(t, outcome)
      BY <3>1 DEF ServingOK, ActionOK
    <3>4. serving' = [serving EXCEPT ![h] = [s EXCEPT !.pc = "submit"]]
      BY <2>3 DEF Serve
    <3> HIDE DEF t
    <3>5. QED
      BY <1>0, <2>1, <3>2, <3>3, <3>4, MovesOn
  <2>4. QED
    BY <1>1, <2>2, <2>3 DEF verify_real_host
<1>2. CASE ActionSubmit(h)
  <2> DEFINE c == [key |-> s.key, kind |-> s.kind, target |-> s.target]
  <2>1. s.pc = "submit" /\ s.op = "action" /\ Submit(h, c) /\ UNCHANGED <<rooms, banned, did, report>>
    BY <1>2 DEF ActionSubmit, pmp
  <2>2. c.key \in Key
    BY <1>0, <2>1 DEF ServingOK, ActionOK
  <2> HIDE DEF c
  <2>3. QED
    BY <2>1, <2>2, SubmitsStep
<1>3. CASE ActionAnswer(h)
  <2>1. /\ s.pc = "wait" /\ s.op = "action" /\ serving' = [serving EXCEPT ![h] = Idle]
        /\ UNCHANGED <<rooms, banned, did, queue, outcome, command, lost>>
    BY <1>3 DEF ActionAnswer, pmp, broker
  <2>2. PICK said : /\ report' = [report EXCEPT ![h] = <<<<s.id, said>>>>]
                    /\ said = "timeout" \/ (said = outcome[s.id] /\ said # "queued")
    BY <1>3 DEF ActionAnswer
  <2>3. s.id \in 1..Len(outcome)
    BY <1>0, <2>1 DEF ServingOK, ActionOK
  <2>4. <<s.id, said>> \in Entries(outcome)
    BY <1>0, <2>2, <2>3 DEF Entries
  <2>5. <<<<s.id, said>>>> \in Seq(Entries(outcome))
    BY <2>4
  <2>6. QED
    BY <1>0, <2>1, <2>2, <2>5, MovesOn
<1>4. ASSUME s.op = "batch", s.pc # "idle" PROVE BatchOK(s, outcome)
  BY <1>0, <1>4 DEF ServingOK
<1>5. CASE BatchInfo(h)
  <2>1. /\ s.pc = "info" /\ s.op = "batch" /\ s.left # <<>>
        /\ UNCHANGED <<rooms, banned, did, queue, outcome, command, lost, report>>
        /\ \/ \E said \in {"ok", "failed"} : serving' = [serving EXCEPT ![h] = Item(h, 0, said)]
           \/ serving' = [serving EXCEPT ![h] = [s EXCEPT !.pc = "submit"]]
    BY <1>5 DEF BatchInfo, pmp, broker
  <2>2. BatchOK(s, outcome)
    BY <1>4, <2>1
  <2>3. ASSUME NEW said \in {"ok", "failed"}, serving' = [serving EXCEPT ![h] = Item(h, 0, said)]
        PROVE  RoomsInv'
    <3>1. <<0, said>> \in Entries(outcome)
      BY DEF Entries
    <3>2. ServingOK(Item(h, 0, said), outcome)
      BY <1>0, <2>1, <2>2, <3>1, ItemDone
    <3>3. QED
      BY <1>0, <2>1, <2>3, <3>2, MovesOn
  <2>4. CASE serving' = [serving EXCEPT ![h] = [s EXCEPT !.pc = "submit"]]
    <3> DEFINE t == [pc |-> "submit", op |-> "batch", by |-> s.by, left |-> s.left, kind |-> s.kind,
                     target |-> s.target, dry |-> s.dry, results |-> s.results, id |-> s.id]
    <3>1. [s EXCEPT !.pc = "submit"] = t
      BY <2>2 DEF BatchOK
    <3>2. ServingOK(t, outcome)
      BY <2>1, <2>2 DEF ServingOK, BatchOK
    <3> HIDE DEF t
    <3>3. QED
      BY <1>0, <2>1, <2>4, <3>1, <3>2, MovesOn
  <2>5. QED
    BY <2>1, <2>3, <2>4
<1>6. CASE BatchSubmit(h)
  <2> DEFINE c == [key |-> resolve_queue_key(s.kind, Head(s.left), s.target), kind |-> s.kind,
                   target |-> s.target]
  <2>1. /\ s.pc = "submit" /\ s.op = "batch" /\ UNCHANGED <<rooms, banned, did, report>>
        /\ \/ Submit(h, c)
           \/ serving' = [serving EXCEPT ![h] = Idle] /\ UNCHANGED <<queue, outcome, command, lost>>
    BY <1>6 DEF BatchSubmit, pmp, broker
  <2>2. CASE serving' = [serving EXCEPT ![h] = Idle] /\ UNCHANGED <<queue, outcome, command, lost>>
    BY <1>0, <2>1, <2>2, MovesOn
  <2>3. c.key \in Key
    <3>1. s.kind \in BatchKind /\ Head(s.left) \in Room
      BY <1>4, <2>1 DEF BatchOK
    <3>2. QED
      BY <3>1 DEF resolve_queue_key, BatchKind, Key
  <2> HIDE DEF c
  <2>4. QED
    BY <2>1, <2>2, <2>3, SubmitsStep
<1>7. CASE BatchWait(h)
  <2>1. /\ s.pc = "wait" /\ s.op = "batch" /\ UNCHANGED <<rooms, banned, did, queue, outcome, command, lost, report>>
    BY <1>7 DEF BatchWait, pmp, broker
  <2>2. PICK said : /\ serving' = [serving EXCEPT ![h] = Item(h, s.id, said)]
                    /\ said = "timeout" \/ (said = outcome[s.id] /\ said # "queued")
    BY <1>7 DEF BatchWait
  <2>3. BatchOK(s, outcome) /\ s.id \in 1..Len(outcome) /\ s.left # <<>>
    BY <1>4, <2>1 DEF BatchOK
  <2>4. <<s.id, said>> \in Entries(outcome)
    BY <1>0, <2>2, <2>3 DEF Entries
  <2>5. ServingOK(Item(h, s.id, said), outcome)
    BY <1>0, <2>1, <2>3, <2>4, ItemDone
  <2>6. QED
    BY <1>0, <2>1, <2>2, <2>5, MovesOn
<1>8. CASE BatchAnswer(h)
  <2>1. /\ s.pc = "info" /\ s.op = "batch" /\ UNCHANGED <<rooms, banned, did, queue, outcome, command, lost>>
        /\ report' = [report EXCEPT ![h] = s.results] /\ serving' = [serving EXCEPT ![h] = Idle]
    BY <1>8 DEF BatchAnswer, pmp, broker
  <2>2. s.results \in Seq(Entries(outcome))
    BY <1>4, <2>1 DEF BatchOK
  <2>3. QED
    BY <1>0, <2>1, <2>2, MovesOn
<1>9. QED
  BY <1>1, <1>2, <1>3, <1>5, <1>6, <1>7, <1>8

LEMMA RoomsStep == RoomsInv /\ [RoomsNext]_roomVars => RoomsInv'
<1> SUFFICES ASSUME RoomsInv, [RoomsNext]_roomVars PROVE RoomsInv'
  OBVIOUS
<1>0. PlacesInv /\ WaitingInv /\ EffectInv /\ ServingInv
  BY DEF RoomsInv
<1>1. CASE UNCHANGED <<did, queue, outcome, command, lost, serving, report>> /\ PlacesInv'
  BY <1>0, <1>1 DEF RoomsInv, WaitingInv, WaitsOnce, EffectInv, ServingInv
<1>2. CASE UNCHANGED roomVars
  <2>1. PlacesInv'
    BY <1>0, <1>2 DEF roomVars, PlacesInv, OpenRoom
  <2>2. QED
    BY <1>1, <1>2, <2>1 DEF roomVars
<1>3. CASE RoomsNext
  <2>1. ASSUME NEW r \in Room, \/ create_room(r) \/ close(r)
                               \/ \E p \in Player : PlayerJoins(r, p) \/ PlayerLeaves(r, p)
        PROVE  RoomsInv'
    BY <1>0, <1>1, <2>1, PmpStep
  <2>2. QED
    BY <1>3, <2>1, ExecuteStep, RouteStep, BeginsStep DEF RoomsNext
<1>4. QED
  BY <1>2, <1>3

(* What a room action or a batch reports as done, PMP did, and what it     *)
(* reports as failed after an answer of PMP, PMP did not and will not;     *)
(* what still waits has had no effect, whatever the players, the rooms and *)
(* the other requests do meanwhile (rooms/routes.rs:692-880).              *)
THEOREM ReportsAreTrue == RoomsSpec => []ReportIsTrue
<1>1. RoomsInit => RoomsInv
  <2> SUFFICES ASSUME RoomsInit PROVE RoomsInv
    OBVIOUS
  <2>1. PlacesInv
    BY DEF RoomsInit, PlacesInv, OpenRoom
  <2>2. WaitingInv
    BY RoomsAssumption DEF RoomsInit, WaitingInv, WaitsOnce
  <2>3. ServingInv
    BY DEF RoomsInit, ServingInv, ServingOK
  <2>4. EffectInv
    BY DEF RoomsInit, EffectInv
  <2>5. QED
    BY <2>1, <2>2, <2>3, <2>4 DEF RoomsInv
<1>2. ASSUME RoomsInv PROVE ReportIsTrue
  <2>1. RoomsTypeOK
    BY <1>2 DEF RoomsInv, PlacesInv, RoomOK, WaitingInv, RoomsTypeOK
  <2>2. ASSUME NEW h \in RoomHandler, NEW i \in 1..Len(report[h]), report[h][i][1] # 0,
               report[h][i][2] # "timeout"
        PROVE  /\ report[h][i][1] \in 1..Len(outcome)
               /\ outcome[report[h][i][1]] = report[h][i][2]
    <3>1. report[h] \in Seq(Entries(outcome))
      BY <1>2 DEF RoomsInv, ServingInv
    <3>2. report[h][i] \in Entries(outcome)
      BY <3>1
    <3>3. QED
      BY <2>2, <3>2 DEF Entries
  <2>3. SaidIsDone
    BY <1>2, <2>2 DEF SaidIsDone, RoomsInv, EffectInv
  <2>4. ASSUME NEW k \in Key, NEW i \in 1..Len(queue[k]) PROVE queue[k][i] \notin did
    <3>1. outcome[queue[k][i]] = "queued"
      BY <1>2 DEF RoomsInv, WaitingInv
    <3>2. QED
      BY <1>2, <3>1 DEF RoomsInv, EffectInv
  <2>5. QED
    BY <2>1, <2>3, <2>4 DEF ReportIsTrue
<1>3. QED
  BY <1>1, <1>2, RoomsStep, PTL DEF RoomsSpec

-----------------------------------------------------------------------------
(* PMP's configuration file.                                               *)

\* A text that may be in the file: no placeholder for a secret, the field
\* the descriptor does not know, and values of the right types.
Good ==
    {d \in Document : /\ d["token"] # Redacted /\ d["extra"] = Original["extra"]
                      /\ type_ok("port", d["port"]) /\ type_ok("chat", d["chat"])}

\* What a save reads, writes and keeps: without overlapped writes it is whole.
Text == IF overlapped THEN Good \cup {Torn} ELSE Good

OpOK(s, n) ==
    /\ s.pc \in {"idle", "snapshot", "create", "write", "rename", "reload", "mark"}
    /\ s.pc = "snapshot" => s.prev \in Text /\ s.yaml \in Text
    /\ s.pc = "create" => s.yaml \in Text /\ s.snap \in 0..n
    /\ s.pc \in {"write", "rename"} =>
          /\ s = [pc |-> s.pc, yaml |-> s.yaml, snap |-> s.snap, fd |-> s.fd]
          /\ s.yaml \in Text /\ s.snap \in 0..n /\ s.fd \in Inode
    /\ s.pc = "reload" => s = [pc |-> "reload", snap |-> s.snap] /\ s.snap \in 0..n
    /\ s.pc = "mark" => s.snap \in 1..n

TextsInv ==
    /\ inode \in [Inode -> Good \cup {Torn, None}]
    /\ file \in Inode /\ tmp \in Inode \cup {None} /\ tmp # file
    /\ inode[file] # None /\ (tmp # None => inode[tmp] # None)
    /\ running \in Good /\ snaps \in Seq(Text) /\ restored \subseteq 1..Len(snaps)
    /\ overlapped \in BOOLEAN

OpsInv ==
    /\ op = [h \in Handler |-> op[h]]
    /\ \A h \in Handler : OpOK(op[h], Len(snaps))

\* A writer that is alone has the temporary file for itself.
AloneInv ==
    ~overlapped =>
        /\ inode[file] # Torn
        /\ \A h, x \in Writing : h = x
        /\ \A h \in Writing : /\ op[h].fd = tmp
                              /\ op[h].pc = "write" => inode[tmp] = Torn
                              /\ op[h].pc = "rename" => inode[tmp] # Torn

ConfigInv == TextsInv /\ OpsInv /\ AloneInv

\* A step of a handler that leaves the disk alone.
LEMMA OpStep ==
    ASSUME ConfigInv, NEW h \in Handler, NEW s, op' = [op EXCEPT ![h] = s],
           OpOK(s, Len(snaps)'), s.pc \notin {"write", "rename"}, UNCHANGED <<inode, file, tmp, overlapped>>,
           running' \in Good, snaps' \in Seq(Text), Len(snaps) <= Len(snaps'),
           restored' \subseteq 1..Len(snaps')
    PROVE  ConfigInv'
<1>0. TextsInv /\ OpsInv /\ AloneInv
  BY DEF ConfigInv
<1>1. op' = [x \in Handler |-> op'[x]] /\ op'[h] = s /\ \A x \in Handler \ {h} : op'[x] = op[x]
  BY <1>0 DEF OpsInv
<1>11. Text' = Text
  BY DEF Text
<1>2. TextsInv'
  BY <1>0, <1>11 DEF TextsInv
<1>3. OpsInv'
  <2>1. Len(snaps) \in Nat /\ Len(snaps') \in Nat
    BY <1>0 DEF TextsInv
  <2>2. 0..Len(snaps) \subseteq 0..Len(snaps') /\ 1..Len(snaps) \subseteq 1..Len(snaps')
    BY <2>1
  <2>3. \A x \in Handler \ {h} : OpOK(op[x], Len(snaps'))
    BY <1>0, <2>2 DEF OpsInv, OpOK
  <2>4. QED
    BY <1>1, <1>11, <2>3 DEF OpsInv, OpOK
<1>4. AloneInv'
  <2>1. Writing' \subseteq Writing /\ \A x \in Writing' : op'[x] = op[x]
    BY <1>1 DEF Writing
  <2>2. QED
    BY <1>0, <2>1 DEF AloneInv
<1>5. QED
  BY <1>2, <1>3, <1>4 DEF ConfigInv

\* merge_yaml_patch after validate_values.
LEMMA MergeIsGood ==
    ASSUME NEW form \in Form, NEW doc \in Good, validate_values(form)
    PROVE  merge_yaml_patch(doc, form) \in Good
<1> DEFINE d == merge_yaml_patch(doc, form)
<1>1. d = [f \in Field |-> d[f]] /\ \A f \in Field :
        d[f] = IF f \in DOMAIN form \cap Descriptor /\ ~kept(f, form[f]) THEN form[f] ELSE doc[f]
  BY DEF merge_yaml_patch
<1>2. doc \in Document /\ doc["token"] # Redacted /\ doc["extra"] = Original["extra"]
      /\ type_ok("port", doc["port"]) /\ type_ok("chat", doc["chat"])
  BY DEF Good
<1> HIDE DEF d
<1>3. d \in Document
  <2>1. \A f \in DOMAIN form : form[f] \in Value
    BY DEF Value
  <2>2. QED
    BY <1>1, <1>2, <2>1 DEF Document
<1>4. d["token"] # Redacted
  BY <1>1, <1>2 DEF kept, Sensitive, Field, Descriptor
<1>5. d["extra"] = Original["extra"]
  BY <1>1, <1>2 DEF Field, Descriptor
<1>6. type_ok("port", d["port"])
  BY <1>1, <1>2 DEF validate_values, kept, Sensitive, Field, Descriptor
<1>7. type_ok("chat", d["chat"])
  BY <1>1, <1>2 DEF validate_values, kept, Sensitive, Field, Descriptor
<1>8. QED
  BY <1>3, <1>4, <1>5, <1>6, <1>7 DEF Good, d

\* Everything but the write of the file.
LEMMA EditStep ==
    ASSUME ConfigInv, NEW h \in Handler,
           \/ \E form \in Form : SaveBegin(h, form)
           \/ \E i \in 1..Len(snaps) : RollbackBegin(h, i)
           \/ insert_snapshot(h) \/ Fails(h) \/ Reload(h) \/ mark_restored(h)
    PROVE  ConfigInv'
<1>0. /\ TextsInv /\ OpsInv /\ OpOK(op[h], Len(snaps)) /\ Len(snaps) \in Nat
      /\ \A n : OpOK(Idle, n) /\ Idle.pc \notin {"write", "rename"}
  BY DEF ConfigInv, TextsInv, OpsInv, OpOK, Idle
<1>1. /\ running \in Good /\ snaps \in Seq(Text) /\ restored \subseteq 1..Len(snaps)
      /\ inode[file] \in Text
  BY <1>0 DEF TextsInv, ConfigInv, AloneInv, Text
<1>2. ASSUME NEW s, op' = [op EXCEPT ![h] = s], OpOK(s, Len(snaps)), s.pc \notin {"write", "rename"},
             UNCHANGED <<inode, file, tmp, snaps, overlapped>>, running' \in Good,
             restored' \subseteq 1..Len(snaps)
      PROVE  ConfigInv'
  <2>1. /\ snaps' \in Seq(Text) /\ Len(snaps) <= Len(snaps') /\ OpOK(s, Len(snaps'))
        /\ restored' \subseteq 1..Len(snaps')
    BY <1>0, <1>1, <1>2
  <2>2. QED
    BY <1>2, <2>1, OpStep
<1>3. ASSUME NEW form \in Form, SaveBegin(h, form) PROVE ConfigInv'
  <2> DEFINE s == [pc |-> "snapshot", prev |-> inode[file], yaml |-> Merged(inode[file], form)]
  <2>1. /\ validate_values(form) /\ op' = [op EXCEPT ![h] = s]
        /\ UNCHANGED <<inode, file, tmp, running, snaps, restored, overlapped>>
    BY <1>3 DEF SaveBegin, Set, disk
  <2>11. Merged(inode[file], form) \in Text
    BY <1>1, <2>1, MergeIsGood DEF Text, Merged
  <2>2. OpOK(s, Len(snaps)) /\ s.pc \notin {"write", "rename"}
    BY <1>1, <2>1, <2>11 DEF OpOK
  <2> HIDE DEF s
  <2>3. QED
    BY <1>0, <1>1, <1>2, <2>1, <2>2
<1>4. ASSUME NEW i \in 1..Len(snaps), RollbackBegin(h, i) PROVE ConfigInv'
  <2> DEFINE s == [pc |-> "create", yaml |-> snaps[i], snap |-> i]
  <2>1. /\ op' = [op EXCEPT ![h] = s]
        /\ UNCHANGED <<inode, file, tmp, running, snaps, restored, overlapped>>
    BY <1>4 DEF RollbackBegin, get_snapshot, Set, disk
  <2>2. OpOK(s, Len(snaps)) /\ s.pc \notin {"write", "rename"}
    BY <1>0, <1>1 DEF OpOK
  <2> HIDE DEF s
  <2>3. QED
    BY <1>0, <1>1, <1>2, <2>1, <2>2
<1>5. CASE insert_snapshot(h)
  <2> DEFINE s == [pc |-> "create", yaml |-> op[h].yaml, snap |-> 0]
  <2>1. /\ op[h].pc = "snapshot" /\ op' = [op EXCEPT ![h] = s] /\ snaps' = Append(snaps, op[h].prev)
        /\ UNCHANGED <<inode, file, tmp, running, restored, overlapped>>
    BY <1>5 DEF insert_snapshot, Set, disk
  <2>2. op[h].prev \in Text /\ op[h].yaml \in Text
    BY <1>0, <2>1 DEF OpOK
  <2>3. snaps' \in Seq(Text) /\ Len(snaps') = Len(snaps) + 1
    BY <1>1, <2>1, <2>2
  <2>4. OpOK(s, Len(snaps')) /\ s.pc \notin {"write", "rename"}
    BY <1>0, <2>2, <2>3 DEF OpOK
  <2>5. Len(snaps) <= Len(snaps') /\ restored' \subseteq 1..Len(snaps')
    BY <1>0, <1>1, <2>1, <2>3
  <2> HIDE DEF s
  <2>6. QED
    BY <1>1, <2>1, <2>3, <2>4, <2>5, OpStep
<1>6. CASE Fails(h)
  <2>1. op' = [op EXCEPT ![h] = Idle] /\ UNCHANGED <<inode, file, tmp, running, snaps, restored, overlapped>>
    BY <1>6 DEF Fails, Set, disk
  <2>2. QED
    BY <1>0, <1>1, <1>2, <2>1
<1>7. CASE Reload(h)
  <2>1. /\ op[h].pc = "reload" /\ UNCHANGED <<inode, file, tmp, snaps, restored, overlapped>>
        /\ running' \in Good
        /\ \/ op' = [op EXCEPT ![h] = Idle]
           \/ op[h].snap # 0 /\ op' = [op EXCEPT ![h] = [op[h] EXCEPT !.pc = "mark"]]
    BY <1>1, <1>7 DEF Reload, Set, disk, Text
  <2>2. CASE op' = [op EXCEPT ![h] = Idle]
    BY <1>0, <1>1, <1>2, <2>1, <2>2
  <2>3. CASE op[h].snap # 0 /\ op' = [op EXCEPT ![h] = [op[h] EXCEPT !.pc = "mark"]]
    <3> DEFINE s == [pc |-> "mark", snap |-> op[h].snap]
    <3>1. op[h] = [pc |-> "reload", snap |-> op[h].snap] /\ op[h].snap \in 0..Len(snaps)
      BY <1>0, <2>1 DEF OpOK
    <3>2. [op[h] EXCEPT !.pc = "mark"] = s
      BY <3>1
    <3>3. OpOK(s, Len(snaps)) /\ s.pc \notin {"write", "rename"}
      BY <1>0, <2>3, <3>1 DEF OpOK
    <3> HIDE DEF s
    <3>4. QED
      BY <1>1, <1>2, <2>1, <2>3, <3>2, <3>3
  <2>4. QED
    BY <2>1, <2>2, <2>3
<1>8. CASE mark_restored(h)
  <2>1. /\ op[h].pc = "mark" /\ op' = [op EXCEPT ![h] = Idle] /\ restored' = restored \cup {op[h].snap}
        /\ UNCHANGED <<inode, file, tmp, running, snaps, overlapped>>
    BY <1>8 DEF mark_restored, Set, disk
  <2>2. op[h].snap \in 1..Len(snaps)
    BY <1>0, <2>1 DEF OpOK
  <2>3. QED
    BY <1>0, <1>1, <1>2, <2>1, <2>2
<1>9. QED
  BY <1>3, <1>4, <1>5, <1>6, <1>7, <1>8

\* write_yaml_atomic.  An inode that nobody uses any more may be freed; the
\* two names keep what they stand for.
LEMMA CreateStep == ASSUME ConfigInv, NEW h \in Handler, WriteCreate(h) PROVE ConfigInv'
<1>0. TextsInv /\ OpsInv /\ AloneInv /\ OpOK(op[h], Len(snaps))
  BY DEF ConfigInv, OpsInv
<1>1. PICK fd \in IF tmp # None THEN {tmp} ELSE FirstUnused :
        /\ inode' = [i \in Inode |-> IF i = fd THEN Torn ELSE IF i \in Unused THEN None ELSE inode[i]]
        /\ tmp' = fd
        /\ op' = [op EXCEPT ![h] = [pc |-> "write", yaml |-> op[h].yaml, snap |-> op[h].snap, fd |-> fd]]
  BY DEF WriteCreate
<1>2. /\ op[h].pc = "create" /\ overlapped' = (overlapped \/ Writing # {})
      /\ UNCHANGED <<file, running, snaps, restored>>
  BY DEF WriteCreate
<1>21. Text \subseteq Text' /\ Seq(Text) \subseteq Seq(Text')
  <2>1. Text \subseteq Text'
    BY <1>0, <1>2 DEF Text, TextsInv
  <2>2. QED
    BY <2>1
<1>3. fd \in Inode /\ fd # file
  BY <1>0, <1>1 DEF TextsInv, FirstUnused, Unused
<1>4. inode'[fd] = Torn /\ inode'[file] = inode[file] /\ inode' \in [Inode -> Good \cup {Torn, None}]
  BY <1>0, <1>1, <1>3 DEF TextsInv, Unused
<1>5. TextsInv'
  BY <1>0, <1>1, <1>2, <1>21, <1>3, <1>4, ConfigAssumption DEF TextsInv
<1> DEFINE s == [pc |-> "write", yaml |-> op[h].yaml, snap |-> op[h].snap, fd |-> fd]
<1>6. op' = [x \in Handler |-> op'[x]] /\ op'[h] = s /\ \A x \in Handler \ {h} : op'[x] = op[x]
  BY <1>0, <1>1 DEF OpsInv
<1>7. OpOK(s, Len(snaps)) /\ s.pc = "write" /\ s.fd = fd
  BY <1>0, <1>2, <1>3 DEF OpOK
<1> HIDE DEF s
<1>8. OpsInv'
  BY <1>0, <1>2, <1>21, <1>6, <1>7 DEF OpsInv, OpOK
<1>9. AloneInv'
  <2>1. SUFFICES ASSUME ~overlapped' PROVE AloneInv'
    BY DEF AloneInv
  <2>2. ~overlapped /\ Writing = {}
    BY <1>2, <2>1
  <2>3. Writing' = {h}
    BY <1>6, <1>7, <2>2 DEF Writing
  <2>4. inode'[file'] # Torn
    BY <1>0, <1>2, <1>4, <2>2 DEF AloneInv
  <2>5. QED
    BY <1>1, <1>4, <1>6, <1>7, <2>3, <2>4 DEF AloneInv
<1>10. QED
  BY <1>5, <1>8, <1>9 DEF ConfigInv

LEMMA WriteAllStep == ASSUME ConfigInv, NEW h \in Handler, WriteAll(h) PROVE ConfigInv'
<1>0. TextsInv /\ OpsInv /\ AloneInv /\ OpOK(op[h], Len(snaps))
  BY DEF ConfigInv, OpsInv
<1> DEFINE fd == op[h].fd
<1>1. /\ op[h].pc = "write" /\ op' = [op EXCEPT ![h] = [op[h] EXCEPT !.pc = "rename"]]
      /\ UNCHANGED <<file, tmp, running, snaps, restored, overlapped>>
  BY DEF WriteAll
<1>2. /\ op[h] = [pc |-> "write", yaml |-> op[h].yaml, snap |-> op[h].snap, fd |-> fd]
      /\ op[h].yaml \in Text /\ op[h].snap \in 0..Len(snaps) /\ fd \in Inode
  BY <1>0, <1>1 DEF OpOK
<1>3. PICK text \in Good \cup {Torn} : /\ inode' = [inode EXCEPT ![fd] = text]
                                       /\ inode[fd] = Torn => text = op[h].yaml
  BY <1>2 DEF WriteAll, Text
<1>4. text # None /\ (~overlapped => op[h].yaml # Torn) /\ Text' = Text
  BY <1>1, <1>2, <1>3, ConfigAssumption DEF Good, Text
<1>5. /\ inode' \in [Inode -> Good \cup {Torn, None}] /\ inode'[fd] = text
      /\ \A i \in Inode \ {fd} : inode'[i] = inode[i]
  BY <1>0, <1>2, <1>3 DEF TextsInv
<1>6. TextsInv'
  BY <1>0, <1>1, <1>2, <1>4, <1>5 DEF TextsInv
<1> DEFINE s == [pc |-> "rename", yaml |-> op[h].yaml, snap |-> op[h].snap, fd |-> fd]
<1>7. [op[h] EXCEPT !.pc = "rename"] = s
  BY <1>2
<1>8. OpOK(s, Len(snaps)) /\ s.pc = "rename" /\ s.fd = fd
  BY <1>2 DEF OpOK
<1>9. op' = [op EXCEPT ![h] = s]
  BY <1>1, <1>7
<1> HIDE DEF s
<1>10. op' = [x \in Handler |-> op'[x]] /\ op'[h] = s /\ \A x \in Handler \ {h} : op'[x] = op[x]
  BY <1>0, <1>9 DEF OpsInv
<1>11. OpsInv'
  BY <1>0, <1>1, <1>4, <1>8, <1>10 DEF OpsInv, OpOK
<1>12. AloneInv'
  <2>1. SUFFICES ASSUME ~overlapped' PROVE AloneInv'
    BY DEF AloneInv
  <2>2. h \in Writing /\ Writing' = Writing
    BY <1>1, <1>8, <1>10 DEF Writing
  <2>3. Writing = {h} /\ fd = tmp /\ inode[tmp] = Torn /\ inode[file] # Torn
    BY <1>0, <1>1, <2>1, <2>2 DEF AloneInv
  <2>4. inode'[tmp] # Torn /\ inode'[file] # Torn
    BY <1>0, <1>1, <1>3, <1>4, <1>5, <2>1, <2>3 DEF TextsInv
  <2>5. QED
    BY <1>1, <1>8, <1>10, <2>2, <2>3, <2>4 DEF AloneInv
<1>13. QED
  BY <1>6, <1>11, <1>12 DEF ConfigInv

LEMMA RenameStep == ASSUME ConfigInv, NEW h \in Handler, WriteRename(h) PROVE ConfigInv'
<1>0. TextsInv /\ OpsInv /\ AloneInv /\ OpOK(op[h], Len(snaps))
  BY DEF ConfigInv, OpsInv
<1>1. op[h].pc = "rename" /\ UNCHANGED <<inode, running, snaps, restored, overlapped>>
  BY DEF WriteRename
<1>11. Text' = Text
  BY <1>1 DEF Text
<1>2. CASE tmp = None
  <2>1. op' = [op EXCEPT ![h] = Idle] /\ UNCHANGED <<file, tmp>>
    BY <1>2 DEF WriteRename, Set
  <2>2. /\ OpOK(Idle, Len(snaps)') /\ Idle.pc \notin {"write", "rename"} /\ Len(snaps) <= Len(snaps')
        /\ running' \in Good /\ snaps' \in Seq(Text) /\ restored' \subseteq 1..Len(snaps')
    BY <1>0, <1>1 DEF TextsInv, OpOK, Idle
  <2>3. QED
    BY <1>1, <2>1, <2>2, OpStep
<1>3. CASE tmp # None
  <2> DEFINE s == [pc |-> "reload", snap |-> op[h].snap]
  <2>1. file' = tmp /\ tmp' = None /\ op' = [op EXCEPT ![h] = s]
    BY <1>3 DEF WriteRename, Set
  <2>2. OpOK(s, Len(snaps)) /\ s.pc = "reload"
    BY <1>0, <1>1 DEF OpOK
  <2> HIDE DEF s
  <2>3. op' = [x \in Handler |-> op'[x]] /\ op'[h] = s /\ \A x \in Handler \ {h} : op'[x] = op[x]
    BY <1>0, <2>1 DEF OpsInv
  <2>4. OpsInv'
    BY <1>0, <1>1, <1>11, <2>2, <2>3 DEF OpsInv, OpOK
  <2>5. TextsInv'
    BY <1>0, <1>1, <1>11, <1>3, <2>1 DEF TextsInv
  <2>6. AloneInv'
    <3>1. SUFFICES ASSUME ~overlapped' PROVE AloneInv'
      BY DEF AloneInv
    <3>2. Writing = {h} /\ inode[tmp] # Torn
      BY <1>0, <1>1, <3>1 DEF AloneInv, Writing
    <3>3. Writing' = {}
      BY <2>2, <2>3, <3>2 DEF Writing
    <3>4. QED
      BY <1>1, <2>1, <3>2, <3>3 DEF AloneInv
  <2>7. QED
    BY <2>4, <2>5, <2>6 DEF ConfigInv
<1>4. QED
  BY <1>2, <1>3

LEMMA ConfigStep == ConfigInv /\ [ConfigNext]_configVars => ConfigInv'
<1> SUFFICES ASSUME ConfigInv, [ConfigNext]_configVars PROVE ConfigInv'
  OBVIOUS
<1>0. TextsInv /\ OpsInv /\ AloneInv
  BY DEF ConfigInv
<1>1. ASSUME UNCHANGED <<inode, file, tmp, running, snaps, restored, op, overlapped>> PROVE ConfigInv'
  <2>1. TextsInv' /\ OpsInv'
    BY <1>0, <1>1 DEF TextsInv, OpsInv, OpOK, Text
  <2>2. Writing' = Writing
    BY <1>1 DEF Writing
  <2>3. AloneInv'
    BY <1>0, <1>1, <2>2 DEF AloneInv
  <2>4. QED
    BY <2>1, <2>3 DEF ConfigInv
<1>2. CASE Crash
  <2>1. op' = [h \in Handler |-> Idle] /\ UNCHANGED <<inode, file, tmp, running, snaps, restored, overlapped>>
    BY <1>2 DEF Crash, disk
  <2>2. TextsInv'
    BY <1>0, <2>1 DEF TextsInv, Text
  <2>3. OpsInv'
    BY <2>1 DEF OpsInv, OpOK, Idle
  <2>4. Writing' = {}
    BY <2>1 DEF Writing, Idle
  <2>5. AloneInv'
    BY <1>0, <2>1, <2>4 DEF AloneInv
  <2>6. QED
    BY <2>2, <2>3, <2>5 DEF ConfigInv
<1>3. CASE ppf_config_update
  BY <1>1, <1>3 DEF ppf_config_update, disk
<1>4. CASE UNCHANGED configVars
  BY <1>1, <1>4 DEF configVars
<1>5. CASE ConfigNext
  BY <1>2, <1>3, <1>5, EditStep, CreateStep, WriteAllStep, RenameStep DEF ConfigNext
<1>6. QED
  BY <1>4, <1>5

(* No sequence of saves, rollbacks, failures and crashes writes the        *)
(* placeholder of a secret, loses a field or breaks a type, and a write    *)
(* that overlaps no other leaves PMP's file and its snapshots whole at     *)
(* every moment (config/routes.rs:195-239, config/pmp.rs:175-186).         *)
THEOREM ConfigStaysKept == ConfigSpec => []ConfigIsKept
<1>1. ConfigInit => ConfigInv
  <2> SUFFICES ASSUME ConfigInit PROVE ConfigInv
    OBVIOUS
  <2>1. Original \in Good
    <3>1. Original \in Document
      <4>1. \A f \in Field : (IF f = "chat" THEN "on" ELSE "1") \in Value
        BY DEF Value
      <4>2. QED
        BY <4>1 DEF Original, Document
    <3>2. Original["token"] = "1" /\ Original["port"] = "1" /\ Original["chat"] = "on"
      BY DEF Original, Field, Descriptor
    <3>3. type_ok("port", "1") /\ type_ok("chat", "on") /\ "1" # Redacted
      BY DEF type_ok, Redacted
    <3>4. QED
      BY <3>1, <3>2, <3>3 DEF Good
  <2>2. 0 \in Inode
    BY RequestsAssumption, FS_CardinalityType DEF Inode
  <2>3. Original # None /\ Original # Torn
    BY <2>1, ConfigAssumption DEF Good
  <2>4. TextsInv
    BY <2>1, <2>2, <2>3, ConfigAssumption DEF TextsInv, ConfigInit, Text
  <2>5. OpsInv
    BY DEF OpsInv, ConfigInit, OpOK, Idle
  <2>6. AloneInv
    BY <2>2, <2>3 DEF AloneInv, ConfigInit, Writing, Idle
  <2>7. QED
    BY <2>4, <2>5, <2>6 DEF ConfigInv
<1>2. ASSUME ConfigInv PROVE ConfigIsKept
  <2>0. Torn \notin Good
    BY ConfigAssumption DEF Good
  <2>1. ConfigTypeOK
    BY <1>2 DEF ConfigInv, TextsInv, ConfigTypeOK, Good, Text
  <2>2. Texts \subseteq Good \cup {Torn, None}
    BY <1>2 DEF ConfigInv, TextsInv, Texts, Text
  <2>3. MergeKeeps
    BY <2>2 DEF MergeKeeps, Good
  <2>4. WholeIfAlone
    BY <1>2, <2>0 DEF ConfigInv, AloneInv, WholeIfAlone, TextsInv, Text
  <2>5. QED
    BY <2>1, <2>3, <2>4 DEF ConfigIsKept
<1>3. QED
  BY <1>1, <1>2, ConfigStep, PTL DEF ConfigSpec
=============================================================================
