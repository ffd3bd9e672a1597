--------------------------- MODULE StaffAccounts ----------------------------
(***************************************************************************)
(* Accounts and their roles under the admins of                            *)
(* apps/api/src/admin/admin.service.ts. Each of its checks is read in one  *)
(* statement and acted upon in a later one. The matrices of what a         *)
(* moderator may open are left out, as are suspensions (see Sessions).     *)
(***************************************************************************)
EXTENDS Slots

CONSTANTS
  Users,            \* the accounts there may be
  FirstSuperAdmins, \* those there are at first
  CustomRoles       \* the keys of the Role table

ASSUME StaffAssumption ==
  /\ FirstSuperAdmins \subseteq Users
  /\ CustomRoles \cap {"LEARNER", "ADMIN", "SUPER_ADMIN"} = {}
  /\ None \notin CustomRoles \cup {"LEARNER", "ADMIN", "SUPER_ADMIN"}

VARIABLES
  users,            \* the User rows
  roles,            \* the keys in the Role table
  raced             \* roles whose deletion ran beside an assignment

staffVars == <<users, roles, raced>>

SystemRoles == {"LEARNER", "ADMIN", "SUPER_ADMIN"}
NoUser == [role |-> None, deleted |-> FALSE]
IsUser(u) == users[u] # NoUser

SuperAdmins == {u \in Users : users[u].role = "SUPER_ADMIN"}
LiveSuperAdmins == {u \in SuperAdmins : ~users[u].deleted}

StaffInit ==
  /\ users = [u \in Users |-> IF u \in FirstSuperAdmins
                             THEN [NoUser EXCEPT !.role = "SUPER_ADMIN"] ELSE NoUser]
  /\ roles = {} /\ raced = {}

Assigning(role) == \E r \in Requests : req[r].pc \in {"setRole", "createUser"} /\ req[r].role = role
Deleting(role) == \E r \in Requests : At(r, "deleteRole") /\ req[r].role = role

-----------------------------------------------------------------------------
(* createUser, updateUserRole                                               *)

\* Super admins are made and unmade by super admins; a custom role must exist.
MayAssign(role) ==
  /\ role \in SystemRoles \cup roles
  /\ role = "SUPER_ADMIN" => LiveSuperAdmins # {}

CreateUser(r) ==
  \E u \in Users, role \in SystemRoles \cup CustomRoles :
    /\ At(r, "idle")
    /\ ~IsUser(u) /\ MayAssign(role)
    /\ Become(r, [pc |-> "createUser", user |-> u, role |-> role])
    /\ UNCHANGED staffVars

\* counted is None when nobody was counted.
UpdateRole(r, counted, u, role) ==
  /\ At(r, "idle")
  /\ IsUser(u) /\ MayAssign(role)
  /\ u \in SuperAdmins => LiveSuperAdmins # {}
  /\ Become(r, [pc |-> "setRole", user |-> u, role |-> role, counted |-> counted])
  /\ UNCHANGED staffVars

Demotes(u, role) == u \in SuperAdmins /\ role # "SUPER_ADMIN"

\* Slip: one too few.
UpdateUserRoleInclusive(r) ==
  \E u \in Users, role \in SystemRoles \cup CustomRoles :
    IF Demotes(u, role)
    THEN Cardinality(SuperAdmins) >= 1 /\ UpdateRole(r, SuperAdmins, u, role)
    ELSE UpdateRole(r, None, u, role)

\* The count includes the accounts that are deleted.
UpdateUserRole(r) ==
  \E u \in Users, role \in SystemRoles \cup CustomRoles :
    IF Demotes(u, role)
    THEN Cardinality(SuperAdmins) > 1 /\ UpdateRole(r, SuperAdmins, u, role)
    ELSE UpdateRole(r, None, u, role)

AssignRole(r, row) ==
  /\ users' = [users EXCEPT ![req[r].user] = row]
  /\ raced' = IF Deleting(req[r].role) THEN raced \cup {req[r].role} ELSE raced
  /\ Finish(r)
  /\ UNCHANGED roles

\* The second of two breaks a unique key.
InsertUser(r) ==
  /\ At(r, "createUser")
  /\ IF IsUser(req[r].user)
     THEN Finish(r) /\ UNCHANGED staffVars
     ELSE AssignRole(r, [NoUser EXCEPT !.role = req[r].role])

SetRole(r) ==
  /\ At(r, "setRole")
  /\ AssignRole(r, [users[req[r].user] EXCEPT !.role = req[r].role])

-----------------------------------------------------------------------------
(* softDeleteUser, restoreUser                                              *)

SoftDeleteUser(r) ==
  \E u \in Users :
    /\ At(r, "idle")
    /\ LiveSuperAdmins \ {u} # {}          \* the actor
    /\ IsUser(u) /\ ~users[u].deleted
    /\ IF u \in SuperAdmins
       THEN /\ Cardinality(LiveSuperAdmins) > 1
            /\ Become(r, [pc |-> "softDelete", user |-> u, counted |-> LiveSuperAdmins])
       ELSE Become(r, [pc |-> "softDelete", user |-> u, counted |-> None])
    /\ UNCHANGED staffVars

SoftDelete(r) ==
  /\ At(r, "softDelete")
  /\ users' = [users EXCEPT ![req[r].user].deleted = TRUE]
  /\ Finish(r)
  /\ UNCHANGED <<roles, raced>>

RestoreUser(r) ==
  \E u \in Users :
    /\ At(r, "idle")
    /\ LiveSuperAdmins \ {u} # {}
    /\ users[u].deleted
    /\ Become(r, [pc |-> "restore", user |-> u])
    /\ UNCHANGED staffVars

Restore(r) ==
  /\ At(r, "restore")
  /\ users' = [users EXCEPT ![req[r].user].deleted = FALSE]
  /\ Finish(r)
  /\ UNCHANGED <<roles, raced>>

-----------------------------------------------------------------------------
(* createRole, deleteRole                                                   *)

\* Of two, the second is refused or breaks the unique key.
CreateRole ==
  /\ \E role \in CustomRoles \ roles : roles' = roles \cup {role}
  /\ UNCHANGED <<users, raced, req>>

MayDelete(r, role, holders) ==
  /\ At(r, "idle")
  /\ role \in roles
  /\ holders = {}
  /\ Become(r, [pc |-> "deleteRole", role |-> role])
  /\ UNCHANGED staffVars

\* Slip: the accounts that are deleted are not counted.
DeleteRoleOfLive(r) ==
  \E role \in CustomRoles :
    MayDelete(r, role, {u \in Users : users[u].role = role /\ ~users[u].deleted})

DeleteRole(r) ==
  \E role \in CustomRoles : MayDelete(r, role, {u \in Users : users[u].role = role})

RemoveRole(r) ==
  /\ At(r, "deleteRole")
  /\ roles' = roles \ {req[r].role}
  /\ raced' = IF Assigning(req[r].role) THEN raced \cup {req[r].role} ELSE raced
  /\ Finish(r)
  /\ UNCHANGED users

StaffNext ==
  \/ \E r \in Requests :
       \/ CreateUser(r) \/ InsertUser(r) \/ UpdateUserRole(r) \/ SetRole(r)
       \/ SoftDeleteUser(r) \/ SoftDelete(r) \/ RestoreUser(r) \/ Restore(r)
       \/ DeleteRole(r) \/ RemoveRole(r)
       \/ Die(r) /\ UNCHANGED staffVars
  \/ CreateRole

-----------------------------------------------------------------------------
(* Properties *)

\* "Cannot demote the last super admin", "Cannot soft-delete the last super
\* admin": the last one goes only under a request that did not count because it
\* read another role, or that counted somebody who is not there: deleted
\* before, as a demotion allows, or gone since.
LastSuperAdmin ==
  [][LiveSuperAdmins # {} /\ LiveSuperAdmins' = {} =>
       \E r \in Requests :
         /\ req'[r] # req[r] /\ req[r].pc \in {"setRole", "softDelete"}
         /\ req[r].counted # None => ~(req[r].counted \subseteq LiveSuperAdmins)]_<<users, req>>

\* Every account has a role that exists, deleted and restored accounts included,
\* unless that role was deleted beside an assignment of it.
RolesExist ==
  \A u \in Users : IsUser(u) => users[u].role \in SystemRoles \cup roles \cup raced
=============================================================================
