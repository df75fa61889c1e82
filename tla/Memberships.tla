---------------------------- MODULE Memberships ----------------------------
(***************************************************************************)
(* Accounts, tenants, memberships and invites: who may enter which tenant  *)
(* with which role, and how that changes.                                  *)
(*                                                                         *)
(* A request is a record of where its handler is.  Owner routes run in the *)
(* transaction TenantContext opened: their writes appear with the step     *)
(* that commits them, and rows they have locked stay locked until then.    *)
(* Public routes (signup, bootstrap, accepting an invite) commit statement *)
(* by statement.  An e-mail address stands for the account that has it and *)
(* has one account in its life.  Roles below owner are one role.           *)
(***************************************************************************)
EXTENDS Naturals, FiniteSets

CONSTANTS Clients,     \* requests in flight at once
          Users,       \* e-mail addresses
          Tenants,
          Invites,     \* ids of tenant_invites rows
          InviteRoles, \* roles that invites are made for
          Tokens,      \* ids of email_verification_tokens rows
          Null,
          MaxRequests, \* bound on the requests begun
          MaxResends   \* bound on the resends of an invite

ASSUME MembershipAssumption ==
  /\ Null \notin Users \cup Tenants \cup Invites \cup Tokens
  /\ MaxResends \in Nat /\ MaxRequests \in Nat /\ InviteRoles \subseteq {"owner", "operator"}

VARIABLES mode,    \* cfg.DeploymentMode
          user,    \* users rows
          tenant,  \* tenants rows
          mem,     \* tenant_memberships: the role of a user in a tenant
          inv,     \* tenant_invites rows
          ver,     \* email_verification_tokens rows
          req,     \* requests in flight
          begun    \* requests begun so far

vars == <<mode, user, tenant, mem, inv, ver, req, begun>>

Roles == {"owner", "operator"}
Unused == {"pending", "expired"}                  \* used_at IS NULL
Spent == {"claimed", "cancelled", "replaced"}     \* used_at set, and why

Invite == [state : {"none"} \cup Unused \cup Spent, e : Users \cup {Null},
           t : Tenants \cup {Null}, role : Roles, by : Users \cup {Null}, tok : 0..MaxResends]
Token == [state : {"none", "pending", "claimed", "replaced"}, e : Users \cup {Null}]

\* x: the user it is about; by: who asks; seen: the target's role when it was
\* read; rows: owner rows counted, then locked; inv: the invites it works on,
\* opened with token number tok.
Request == [op : {"none", "role", "remove", "invite", "join_new", "join", "found", "signup",
                  "verify", "resend", "bootstrap", "close"},
            pc : {"count", "lock", "write", "tally", "commit", "erase", "claim", "user",
                  "join", "tenant", "token", "mark", "table", "users", "insert"},
            x : Users \cup {Null}, t : Tenants \cup {Null}, by : Users \cup {Null},
            role : Roles, seen : Roles \cup {"none"}, rows : SUBSET Users,
            inv : SUBSET Invites, tok : 0..MaxResends]

TypeOK ==
  /\ mode \in {"self_hosted", "saas"}
  /\ user \in [Users -> {"none", "unverified", "verified", "deleted"}]
  /\ tenant \in [Tenants -> {"none", "active", "deleted"}]
  /\ mem \in [Users -> [Tenants -> Roles \cup {"none"}]]
  /\ inv \in [Invites -> Invite]
  /\ ver \in [Tokens -> Token]
  /\ req \in [Clients -> Request] /\ begun \in 0..MaxRequests

NoInvite == [state |-> "none", e |-> Null, t |-> Null, role |-> "operator", by |-> Null, tok |-> 0]
\* What is left of an invite once used_at is set: nothing reads the rest.
Used(i, why) == [NoInvite EXCEPT !.state = why, !.by = inv[i].by]
NoToken == [state |-> "none", e |-> Null]
NoRequest == [op |-> "none", pc |-> "count", x |-> Null, t |-> Null, by |-> Null,
              role |-> "operator", seen |-> "none", rows |-> {}, inv |-> {}, tok |-> 0]

Fresh ==
  /\ mode = "self_hosted"
  /\ user = [e \in Users |-> "none"] /\ tenant = [t \in Tenants |-> "none"]
  /\ mem = [e \in Users |-> [t \in Tenants |-> "none"]]

\* a owns t, where the second members are too, who own the others.
Running(a, t, second, own) ==
  /\ mode = "saas"
  /\ user = [e \in Users |-> IF e \in second \cup {a} THEN "verified" ELSE "none"]
  /\ tenant = [u \in Tenants |-> IF u \in own \cup {t} THEN "active" ELSE "none"]
  /\ mem = [e \in Users |-> [u \in Tenants |->
              IF (e = a /\ u = t) \/ (e \in second /\ u \in own) THEN "owner"
              ELSE IF e \in second /\ u = t THEN "operator" ELSE "none"]]

\* A fresh installation, or a tenant with an owner and maybe a second member,
\* who may own another tenant.
Init ==
  /\ inv = [i \in Invites |-> NoInvite] /\ ver = [v \in Tokens |-> NoToken]
  /\ req = [c \in Clients |-> NoRequest] /\ begun = 0
  /\ \/ Fresh
     \/ \E a \in Users, t \in Tenants :
        \E second \in SUBSET (Users \ {a}), own \in SUBSET (Tenants \ {t}) :
          /\ Cardinality(second) <= 1 /\ Cardinality(own) <= Cardinality(second)
          /\ Running(a, t, second, own)

-----------------------------------------------------------------------------
Begin(c, r) ==
  /\ req[c].op = "none" /\ begun < MaxRequests
  /\ req' = [req EXCEPT ![c] = r] /\ begun' = begun + 1
Goto(c, pc) == req' = [req EXCEPT ![c].pc = pc] /\ UNCHANGED begun
End(c) == req' = [req EXCEPT ![c] = NoRequest] /\ UNCHANGED begun

Exists(e) == user[e] \in {"unverified", "verified"}
Owners(t) == {e \in Users : mem[e][t] = "owner"}

\* TenantContext's GetRole and RequireRole.
IsOwner(a, t) == tenant[t] = "active" /\ mem[a][t] = "owner"

\* Nobody else holds the row of e in t.
RowFree(c, e, t) ==
  \A d \in Clients \ {c} : ~(req[d].t = t /\ e \in req[d].rows /\ req[d].pc # "lock")
InviteFree(i) == \A d \in Clients : ~(req[d].op = "invite" /\ i \in req[d].inv)
\* Nobody holds the users table in exclusive mode.
UsersFree == \A d \in Clients : ~(req[d].op = "bootstrap" /\ req[d].pc \in {"users", "insert"})

-----------------------------------------------------------------------------
(* Changing a role and removing a member.                                   *)

UpdateRole(c) ==
  /\ \E a, x \in Users, t \in Tenants, r \in Roles :
       /\ IsOwner(a, t) /\ mem[x][t] # "none"
       /\ Begin(c, [NoRequest EXCEPT !.op = "role", !.x = x, !.t = t, !.role = r,
                      !.seen = IF r = "owner" THEN "none" ELSE mem[x][t],
                      !.pc = IF r # "owner" /\ mem[x][t] = "owner" THEN "count" ELSE "write"])
  /\ UNCHANGED <<mode, user, tenant, mem, inv, ver>>

Delete(c) ==
  /\ \E a, x \in Users, t \in Tenants :
       /\ IsOwner(a, t) /\ mem[x][t] # "none"
       /\ Begin(c, [NoRequest EXCEPT !.op = "remove", !.x = x, !.t = t, !.seen = mem[x][t],
                      !.pc = IF mem[x][t] = "owner" THEN "count" ELSE "write"])
  /\ UNCHANGED <<mode, user, tenant, mem, inv, ver>>

\* The statement's snapshot, before it waits for the rows.
CountOwners(c) ==
  /\ req[c].op \in {"role", "remove"} /\ req[c].pc = "count"
  /\ req' = [req EXCEPT ![c].rows = Owners(req[c].t), ![c].pc = "lock"] /\ UNCHANGED begun
  /\ UNCHANGED <<mode, user, tenant, mem, inv, ver>>

\* Mutant: a plain count, without FOR UPDATE.
isLastOwnerUnlocked(c) ==
  /\ req[c].pc = "lock"
  /\ IF Cardinality(req[c].rows) <= 1 THEN End(c)
     ELSE req' = [req EXCEPT ![c].rows = {}, ![c].pc = "write"] /\ UNCHANGED begun
  /\ UNCHANGED <<mode, user, tenant, mem, inv, ver>>

\* FOR UPDATE: waits for every row of the snapshot and drops the ones that
\* are no longer an owner's.
isLastOwner(c) ==
  LET held == {e \in req[c].rows : mem[e][req[c].t] = "owner"} IN
  /\ req[c].pc = "lock"
  /\ \A e \in req[c].rows : RowFree(c, e, req[c].t)
  /\ IF Cardinality(held) <= 1 THEN End(c)
     ELSE req' = [req EXCEPT ![c].rows = held, ![c].pc = "write"] /\ UNCHANGED begun
  /\ UNCHANGED <<mode, user, tenant, mem, inv, ver>>

\* UPDATE, RevokeAllForUser and the commit.
UpdateRoleCommit(c) ==
  LET r == req[c] IN
  /\ r.op = "role" /\ r.pc = "write" /\ RowFree(c, r.x, r.t)
  /\ mem' = IF mem[r.x][r.t] = "none" THEN mem ELSE [mem EXCEPT ![r.x][r.t] = r.role]
  /\ End(c)
  /\ UNCHANGED <<mode, user, tenant, inv, ver>>

DeleteMembership(c) ==
  LET r == req[c] IN
  /\ r.op = "remove" /\ r.pc = "write" /\ RowFree(c, r.x, r.t)
  /\ IF mem[r.x][r.t] = "none" THEN End(c)
     ELSE req' = [req EXCEPT ![c].rows = @ \cup {r.x}, ![c].pc = "tally"] /\ UNCHANGED begun
  /\ UNCHANGED <<mode, user, tenant, mem, inv, ver>>

CountForUser(c) ==
  LET r == req[c] IN
  /\ r.op = "remove" /\ r.pc = "tally"
  /\ Goto(c, IF \E s \in Tenants \ {r.t} : mem[r.x][s] # "none" THEN "commit" ELSE "erase")
  /\ UNCHANGED <<mode, user, tenant, mem, inv, ver>>

DeleteCommit(c) ==
  /\ req[c].op = "remove" /\ req[c].pc = "commit"
  /\ mem' = [mem EXCEPT ![req[c].x][req[c].t] = "none"]
  /\ End(c)
  /\ UNCHANGED <<mode, user, tenant, inv, ver>>

\* The account goes too, and by cascade whatever memberships it has by now.
\* tenant_invites.invited_by_id has no cascade: the error rolls everything back.
DeleteUser(c) ==
  LET x == req[c].x IN
  /\ req[c].op = "remove" /\ req[c].pc = "erase"
  /\ \A s \in Tenants : mem[x][s] # "none" => RowFree(c, x, s)
  /\ IF \E i \in Invites : inv[i].by = x THEN UNCHANGED <<user, mem>>
     ELSE /\ user' = [user EXCEPT ![x] = "deleted"]
          /\ mem' = [mem EXCEPT ![x] = [s \in Tenants |-> "none"]]
  /\ End(c)
  /\ UNCHANGED <<mode, tenant, inv, ver>>

-----------------------------------------------------------------------------
(* Invites.                                                                 *)

\* The checks and InvalidatePendingForEmail, which locks what it finds.
InviteAdmin(c) ==
  /\ \E a, e \in Users, t \in Tenants, r \in InviteRoles :
       LET pending == {i \in Invites : inv[i].state \in Unused /\ inv[i].e = e /\ inv[i].t = t} IN
       /\ IsOwner(a, t) /\ mem[e][t] = "none" /\ user[e] # "deleted"
       /\ \A i \in pending : InviteFree(i)
       /\ Begin(c, [NoRequest EXCEPT !.op = "invite", !.pc = "write", !.x = e, !.t = t,
                                     !.by = a, !.role = r, !.inv = pending])
  /\ UNCHANGED <<mode, user, tenant, mem, inv, ver>>

InviteCreate(c) ==
  LET r == req[c] IN
  /\ r.op = "invite" /\ r.pc = "write" /\ Exists(r.by)
  /\ \E n \in Invites :
       /\ inv[n].state = "none"
       /\ inv' = [i \in Invites |->
            IF i = n THEN [state |-> "pending", e |-> r.x, t |-> r.t, role |-> r.role,
                           by |-> r.by, tok |-> 0]
            ELSE IF i \in r.inv THEN Used(i, "replaced") ELSE inv[i]]
  /\ End(c)
  /\ UNCHANGED <<mode, user, tenant, mem, ver>>

\* Refresh: a new token and a new expiry, for an expired invite too.
ResendInvite(i) ==
  /\ inv[i].state \in Unused /\ InviteFree(i) /\ inv[i].tok < MaxResends
  /\ \E a \in Users : IsOwner(a, inv[i].t)
  /\ inv' = [inv EXCEPT ![i].state = "pending", ![i].tok = @ + 1]
  /\ UNCHANGED <<mode, user, tenant, mem, ver, req, begun>>

CancelInvite(i) ==
  /\ inv[i].state \in Unused /\ InviteFree(i)
  /\ \E a \in Users : IsOwner(a, inv[i].t)
  /\ inv' = [inv EXCEPT ![i] = Used(i, "cancelled")]
  /\ UNCHANGED <<mode, user, tenant, mem, ver, req, begun>>

Expire(i) ==
  /\ inv[i].state = "pending"
  /\ inv' = [inv EXCEPT ![i].state = "expired"]
  /\ UNCHANGED <<mode, user, tenant, mem, ver, req, begun>>

\* The peek at the invite and at the account decides the branch.
AcceptInvite(c) ==
  /\ \E i \in Invites :
       /\ inv[i].state = "pending" /\ user[inv[i].e] # "deleted"
       /\ Begin(c, [NoRequest EXCEPT !.op = IF Exists(inv[i].e) THEN "join" ELSE "join_new",
                      !.pc = "claim", !.x = inv[i].e, !.inv = {i}, !.tok = inv[i].tok])
  /\ UNCHANGED <<mode, user, tenant, mem, inv, ver>>

Claimed(c, i) ==
  /\ inv' = [inv EXCEPT ![i] = Used(i, "claimed")]
  /\ req' = [req EXCEPT ![c].pc = IF req[c].op = "join_new" THEN "user" ELSE "join",
                        ![c].t = inv[i].t, ![c].role = inv[i].role]
  /\ UNCHANGED begun

\* Mutant: the claim looks for the token hash only; a spent invite is marked
\* again.
ClaimForUseByHash(c) ==
  /\ req[c].op \in {"join", "join_new"} /\ req[c].pc = "claim"
  /\ \E i \in req[c].inv :
       /\ InviteFree(i) /\ inv[i].tok = req[c].tok
       /\ IF inv[i].state \in Unused THEN Claimed(c, i)
          ELSE inv' = [inv EXCEPT ![i].state = "claimed"] /\ End(c)
  /\ UNCHANGED <<mode, user, tenant, mem, ver>>

ClaimForUse(c) ==
  /\ req[c].op \in {"join", "join_new"} /\ req[c].pc = "claim"
  /\ \E i \in req[c].inv :
       /\ InviteFree(i)
       /\ IF inv[i].state = "pending" /\ inv[i].tok = req[c].tok THEN Claimed(c, i)
          ELSE UNCHANGED inv /\ End(c)
  /\ UNCHANGED <<mode, user, tenant, mem, ver>>

\* users.Create of acceptInviteForNewUser; a duplicate e-mail is an error and
\* the invite stays spent.
acceptInviteForNewUser(c) ==
  LET x == req[c].x IN
  /\ req[c].op = "join_new" /\ req[c].pc = "user" /\ UsersFree
  /\ IF user[x] = "none" THEN user' = [user EXCEPT ![x] = "verified"] /\ Goto(c, "join")
     ELSE UNCHANGED user /\ End(c)
  /\ UNCHANGED <<mode, tenant, mem, inv, ver>>

\* The membership in a transaction of its own: the account must exist and the
\* pair must be new.
CreateMembership(c) ==
  LET r == req[c] IN
  /\ r.op \in {"join", "join_new"} /\ r.pc = "join" /\ RowFree(c, r.x, r.t)
  /\ mem' = IF Exists(r.x) /\ mem[r.x][r.t] = "none" THEN [mem EXCEPT ![r.x][r.t] = r.role] ELSE mem
  /\ End(c)
  /\ UNCHANGED <<mode, user, tenant, inv, ver>>

-----------------------------------------------------------------------------
(* Signup, e-mail verification, bootstrap, closing a tenant.                *)

Signup(c) ==
  /\ mode = "saas"
  /\ \E e \in Users :
       \/ user[e] = "none" /\ Begin(c, [NoRequest EXCEPT !.op = "signup", !.pc = "user", !.x = e])
       \/ user[e] = "verified" /\ Begin(c, [NoRequest EXCEPT !.op = "found", !.pc = "tenant", !.x = e])
  /\ UNCHANGED <<mode, user, tenant, mem, inv, ver>>

signupNewUser(c) ==
  LET x == req[c].x IN
  /\ req[c].op = "signup" /\ req[c].pc = "user" /\ UsersFree
  /\ IF user[x] = "none" THEN user' = [user EXCEPT ![x] = "unverified"] /\ Goto(c, "tenant")
     ELSE UNCHANGED user /\ End(c)
  /\ UNCHANGED <<mode, tenant, mem, inv, ver>>

\* The tenant and its owner in one transaction.
createTenantAndOwnerMembership(c) ==
  LET x == req[c].x IN
  /\ req[c].op \in {"signup", "found", "bootstrap"} /\ req[c].pc = "tenant"
  /\ \/ \E t \in Tenants :
          /\ tenant[t] = "none" /\ Exists(x)
          /\ tenant' = [tenant EXCEPT ![t] = "active"]
          /\ mem' = [mem EXCEPT ![x][t] = "owner"]
     \/ ~Exists(x) /\ UNCHANGED <<tenant, mem>>
  /\ IF req[c].op = "signup" /\ Exists(x) THEN Goto(c, "token") ELSE End(c)
  /\ UNCHANGED <<mode, user, inv, ver>>

issueAndSendVerification(c) ==
  /\ req[c].op \in {"signup", "resend"} /\ req[c].pc = "token"
  /\ \/ \E v \in Tokens : /\ ver[v].state = "none" /\ Exists(req[c].x)
                          /\ ver' = [ver EXCEPT ![v] = [state |-> "pending", e |-> req[c].x]]
     \/ ~Exists(req[c].x) /\ UNCHANGED ver
  /\ End(c)
  /\ UNCHANGED <<mode, user, tenant, mem, inv>>

ResendVerification(c) ==
  /\ \E e \in Users :
       /\ user[e] = "unverified"
       /\ Begin(c, [NoRequest EXCEPT !.op = "resend", !.pc = "token", !.x = e])
       /\ ver' = [v \in Tokens |-> IF ver[v].state = "pending" /\ ver[v].e = e
                                   THEN [NoToken EXCEPT !.state = "replaced"] ELSE ver[v]]
  /\ UNCHANGED <<mode, user, tenant, mem, inv>>

\* ClaimForUse of the verification token.
Verify(c) ==
  /\ \E v \in Tokens :
       /\ ver[v].state = "pending" /\ Exists(ver[v].e)
       /\ Begin(c, [NoRequest EXCEPT !.op = "verify", !.pc = "mark", !.x = ver[v].e])
       /\ ver' = [ver EXCEPT ![v] = [NoToken EXCEPT !.state = "claimed"]]
  /\ UNCHANGED <<mode, user, tenant, mem, inv>>

MarkEmailVerified(c) ==
  /\ req[c].op = "verify" /\ req[c].pc = "mark"
  /\ user' = IF Exists(req[c].x) THEN [user EXCEPT ![req[c].x] = "verified"] ELSE user
  /\ End(c)
  /\ UNCHANGED <<mode, tenant, mem, inv, ver>>

Bootstrap(c) ==
  /\ mode = "self_hosted"
  /\ \E e \in Users : /\ user[e] = "none"
                      /\ Begin(c, [NoRequest EXCEPT !.op = "bootstrap", !.pc = "table", !.x = e])
  /\ UNCHANGED <<mode, user, tenant, mem, inv, ver>>

\* Mutant: no table lock.
LockUsersNone(c) ==
  /\ req[c].op = "bootstrap" /\ req[c].pc = "table"
  /\ Goto(c, "users")
  /\ UNCHANGED <<mode, user, tenant, mem, inv, ver>>

\* BootstrapFirst: LOCK TABLE users IN EXCLUSIVE MODE, the count, the insert.
LockUsers(c) ==
  /\ req[c].op = "bootstrap" /\ req[c].pc = "table" /\ UsersFree
  /\ Goto(c, "users")
  /\ UNCHANGED <<mode, user, tenant, mem, inv, ver>>

CountUsers(c) ==
  /\ req[c].op = "bootstrap" /\ req[c].pc = "users"
  /\ IF \E e \in Users : Exists(e) THEN End(c) ELSE Goto(c, "insert")
  /\ UNCHANGED <<mode, user, tenant, mem, inv, ver>>

BootstrapFirst(c) ==
  /\ req[c].op = "bootstrap" /\ req[c].pc = "insert"
  /\ user' = [user EXCEPT ![req[c].x] = "verified"]
  /\ Goto(c, "tenant")
  /\ UNCHANGED <<mode, tenant, mem, inv, ver>>

\* TenantHandler.Delete: the caller must have another active tenant.
DeleteTenant(c) ==
  /\ mode = "saas"
  /\ \E a \in Users, t \in Tenants :
       /\ IsOwner(a, t)
       /\ \E s \in Tenants \ {t} : tenant[s] = "active" /\ mem[a][s] # "none"
       /\ Begin(c, [NoRequest EXCEPT !.op = "close", !.pc = "write", !.t = t])
  /\ UNCHANGED <<mode, user, tenant, mem, inv, ver>>

SoftDelete(c) ==
  /\ req[c].op = "close" /\ req[c].pc = "write"
  /\ tenant' = [tenant EXCEPT ![req[c].t] = "deleted"]
  /\ End(c)
  /\ UNCHANGED <<mode, user, mem, inv, ver>>

\* An error, a lost connection or a crash: a transaction is rolled back, what
\* a public route has committed stays.
Fail(c) ==
  /\ req[c].op # "none"
  /\ End(c)
  /\ UNCHANGED <<mode, user, tenant, mem, inv, ver>>

MemberStep(c) ==
  \/ UpdateRole(c) \/ Delete(c) \/ CountOwners(c) \/ isLastOwner(c) \/ UpdateRoleCommit(c)
  \/ DeleteMembership(c) \/ CountForUser(c) \/ DeleteCommit(c) \/ DeleteUser(c)

InviteStep(c) ==
  \/ InviteAdmin(c) \/ InviteCreate(c) \/ AcceptInvite(c) \/ ClaimForUse(c)
  \/ acceptInviteForNewUser(c) \/ CreateMembership(c)

SignupStep(c) ==
  \/ Signup(c) \/ signupNewUser(c) \/ createTenantAndOwnerMembership(c)
  \/ issueAndSendVerification(c) \/ ResendVerification(c) \/ Verify(c) \/ MarkEmailVerified(c)
  \/ Bootstrap(c) \/ LockUsers(c) \/ CountUsers(c) \/ BootstrapFirst(c)
  \/ DeleteTenant(c) \/ SoftDelete(c)

Next ==
  \/ \E c \in Clients : MemberStep(c) \/ InviteStep(c) \/ SignupStep(c) \/ Fail(c)
  \/ \E i \in Invites : ResendInvite(i) \/ CancelInvite(i) \/ Expire(i)

Spec == Init /\ [][Next]_vars

-----------------------------------------------------------------------------
(* Correctness.                                                             *)

\* ADM-06, for the requests that count: a demotion or removal that read the
\* target's role as owner never leaves the tenant without an owner, however
\* many of them run at once.
LastOwnerKept ==
  [][\A c \in Clients :
       LET r == req[c] IN
       (/\ r.seen = "owner" /\ req'[c].op = "none"
        /\ mem[r.x][r.t] = "owner" /\ mem'[r.x][r.t] # "owner")
       => \E e \in Users : mem'[e][r.t] = "owner"]_vars

\* An invite ends one way: what has been accepted, cancelled or replaced is
\* not accepted, cancelled or replaced again, not even by a request that
\* looked at it before.
InviteEndsOnce ==
  [][\A i \in Invites : inv[i].state \in Spent => inv'[i] = inv[i]]_vars

\* SHD-17: bootstrap creates a user only while there is none, also against a
\* second bootstrap.
BootstrapsOnlyEmpty ==
  [][\A c \in Clients :
       (req[c].op = "bootstrap" /\ req[c].pc = "insert" /\ req'[c].pc = "tenant")
       => \A e \in Users : ~Exists(e)]_vars

=============================================================================
