------------------------- MODULE MembershipsProofs -------------------------
(***************************************************************************)
(* Safety of Memberships for every number of requests, users, tenants and  *)
(* invites.                                                                *)
(***************************************************************************)
EXTENDS Memberships, FiniteSetTheorems, TLAPS

\* What a demotion or removal that read an owner has locked: whoever is taken
\* away, another owner's row is held.
Backed(c) == \A y \in Users : \E e \in req[c].rows : e # y /\ mem[e][req[c].t] = "owner"

RemovalInv(c) ==
  /\ req[c].op \notin {"role", "remove"} =>
       req[c].rows = {} /\ req[c].seen = "none" /\ req[c].pc # "lock"
  /\ req[c].op \in {"role", "remove"} => req[c].x \in Users /\ req[c].t \in Tenants
  /\ req[c].op = "remove" /\ req[c].pc \in {"tally", "commit", "erase"} => req[c].x \in req[c].rows
  /\ req[c].seen = "owner" /\ req[c].pc \notin {"count", "lock"} => Backed(c)

\* A row is locked by one transaction.
LocksApart ==
  \A c, d \in Clients :
    c # d /\ req[c].t = req[d].t /\ req[c].pc # "lock" /\ req[d].pc # "lock"
    => req[c].rows \cap req[d].rows = {}

\* What a new invite is about to replace is unused, and nobody else's.
ReplacesInv ==
  /\ \A c \in Clients : req[c].op = "invite" => \A i \in req[c].inv : inv[i].state \in Unused
  /\ \A c, d \in Clients : c # d /\ req[c].op = "invite" /\ req[d].op = "invite"
                           => req[c].inv \cap req[d].inv = {}

\* The users table is locked by one bootstrap, and empty once it has counted.
HoldsUsers(c) == req[c].op = "bootstrap" /\ req[c].pc \in {"users", "insert"}
BootstrapInv ==
  /\ \A c, d \in Clients : HoldsUsers(c) /\ HoldsUsers(d) => c = d
  /\ \A c \in Clients : req[c].op = "bootstrap" /\ req[c].pc = "insert" => \A e \in Users : ~Exists(e)

MembershipInv ==
  /\ TypeOK /\ (\A c \in Clients : RemovalInv(c)) /\ LocksApart /\ ReplacesInv /\ BootstrapInv

-----------------------------------------------------------------------------
LEMMA MembershipConstants ==
  /\ Null \notin Users /\ Null \notin Tenants /\ Null \notin Invites /\ Null \notin Tokens
  /\ MaxResends \in Nat /\ MaxRequests \in Nat /\ InviteRoles \subseteq Roles
  BY MembershipAssumption DEF Roles

LEMMA BlankTypes ==
  NoRequest \in Request /\ NoInvite \in Invite /\ NoToken \in Token
  BY MembershipConstants DEF NoRequest, Request, NoInvite, Invite, NoToken, Token, Roles, Unused, Spent

LEMMA MembershipTypesInit == Init => TypeOK
<1> SUFFICES ASSUME Init PROVE TypeOK
  OBVIOUS
<1>1. /\ mode \in {"self_hosted", "saas"}
      /\ user \in [Users -> {"none", "unverified", "verified", "deleted"}]
      /\ tenant \in [Tenants -> {"none", "active", "deleted"}]
      /\ mem \in [Users -> [Tenants -> Roles \cup {"none"}]]
  <2>1. CASE Fresh
    BY <2>1 DEF Fresh
  <2>2. ASSUME NEW a \in Users, NEW t \in Tenants, NEW second \in SUBSET (Users \ {a}),
               NEW own \in SUBSET (Tenants \ {t}), Running(a, t, second, own)
        PROVE  /\ mode \in {"self_hosted", "saas"}
               /\ user \in [Users -> {"none", "unverified", "verified", "deleted"}]
               /\ tenant \in [Tenants -> {"none", "active", "deleted"}]
               /\ mem \in [Users -> [Tenants -> Roles \cup {"none"}]]
    BY <2>2 DEF Running, Roles
  <2> QED BY <2>1, <2>2 DEF Init
<1>2. begun \in 0..MaxRequests
  BY MembershipConstants DEF Init
<1> QED BY <1>1, <1>2, BlankTypes DEF Init, TypeOK

\* The places in a handler.
Places == {"count", "lock", "write", "tally", "commit", "erase", "claim", "user",
           "join", "tenant", "token", "mark", "table", "users", "insert"}

\* A request that begins, moves or ends: its type, and the others'.
LEMMA OneRequest ==
  ASSUME TypeOK, NEW c \in Clients
  PROVE  /\ End(c) => /\ req' \in [Clients -> Request] /\ begun' \in 0..MaxRequests
                      /\ req'[c] = NoRequest /\ \A d \in Clients \ {c} : req'[d] = req[d]
         /\ \A r \in Request : Begin(c, r) =>
              /\ req' \in [Clients -> Request] /\ begun' \in 0..MaxRequests
              /\ req'[c] = r /\ \A d \in Clients \ {c} : req'[d] = req[d]
         /\ \A pc \in Places : Goto(c, pc) =>
              /\ req' \in [Clients -> Request] /\ begun' \in 0..MaxRequests
              /\ req'[c].pc = pc /\ req'[c].op = req[c].op /\ req'[c].x = req[c].x
              /\ req'[c].t = req[c].t /\ req'[c].seen = req[c].seen
              /\ req'[c].rows = req[c].rows /\ req'[c].inv = req[c].inv
              /\ \A d \in Clients \ {c} : req'[d] = req[d]
<1>1. req \in [Clients -> Request] /\ req[c] \in Request /\ begun \in 0..MaxRequests
  BY DEF TypeOK
<1>2. ASSUME NEW pc \in Places, Goto(c, pc)
      PROVE  /\ req' \in [Clients -> Request] /\ begun' \in 0..MaxRequests
             /\ req'[c].pc = pc /\ req'[c].op = req[c].op /\ req'[c].x = req[c].x
             /\ req'[c].t = req[c].t /\ req'[c].seen = req[c].seen
             /\ req'[c].rows = req[c].rows /\ req'[c].inv = req[c].inv
             /\ \A d \in Clients \ {c} : req'[d] = req[d]
  <2>1. req' = [req EXCEPT ![c].pc = pc]
    BY <1>2 DEF Goto
  <2>2. /\ req'[c] = [req[c] EXCEPT !.pc = pc] /\ \A d \in Clients \ {c} : req'[d] = req[d]
        /\ req' = [req EXCEPT ![c] = [req[c] EXCEPT !.pc = pc]]
    BY <1>1, <2>1
  <2>3. /\ [req[c] EXCEPT !.pc = pc] \in Request
        /\ req'[c].pc = pc /\ req'[c].op = req[c].op /\ req'[c].x = req[c].x
        /\ req'[c].t = req[c].t /\ req'[c].seen = req[c].seen
        /\ req'[c].rows = req[c].rows /\ req'[c].inv = req[c].inv
    BY <1>1, <2>2, SMTT(30) DEF Request, Places
  <2> QED BY <1>1, <1>2, <2>2, <2>3 DEF Goto
<1>3. ASSUME NEW r \in Request, Begin(c, r)
      PROVE  /\ req' \in [Clients -> Request] /\ begun' \in 0..MaxRequests
             /\ req'[c] = r /\ \A d \in Clients \ {c} : req'[d] = req[d]
  <2>1. begun' \in 0..MaxRequests
    BY <1>1, <1>3, MembershipConstants DEF Begin
  <2> QED BY <1>1, <1>3, <2>1 DEF Begin
<1> QED BY <1>1, <1>2, <1>3, BlankTypes DEF End

LEMMA MemberTypes ==
  ASSUME TypeOK, NEW c \in Clients, RemovalInv(c), MemberStep(c)
  PROVE  TypeOK'
<1> USE DEF Places
<1>t. /\ req \in [Clients -> Request] /\ req[c] \in Request /\ begun \in 0..MaxRequests
      /\ mem \in [Users -> [Tenants -> Roles \cup {"none"}]] /\ req[c].role \in Roles
      /\ user \in [Users -> {"none", "unverified", "verified", "deleted"}]
  BY DEF TypeOK, Request
<1>rows. ASSUME NEW R \in SUBSET Users, NEW pc \in Places,
                req' = [req EXCEPT ![c].rows = R, ![c].pc = pc]
         PROVE  req' \in [Clients -> Request]
  <2>1. req' = [req EXCEPT ![c] = [req[c] EXCEPT !.rows = R, !.pc = pc]]
    BY <1>t, <1>rows
  <2>2. [req[c] EXCEPT !.rows = R, !.pc = pc] \in Request
    BY <1>t DEF Request
  <2> QED BY <1>t, <2>1, <2>2
<1>1. CASE UpdateRole(c)
  <2>1. PICK a \in Users, x \in Users, t \in Tenants, r \in Roles :
           Begin(c, [NoRequest EXCEPT !.op = "role", !.x = x, !.t = t, !.role = r,
                      !.seen = IF r = "owner" THEN "none" ELSE mem[x][t],
                      !.pc = IF r # "owner" /\ mem[x][t] = "owner" THEN "count" ELSE "write"])
    BY <1>1 DEF UpdateRole
  <2> DEFINE seen == IF r = "owner" THEN "none" ELSE mem[x][t]
             pc == IF r # "owner" /\ mem[x][t] = "owner" THEN "count" ELSE "write"
  <2>s. seen \in Roles \cup {"none"} /\ pc \in Places
    BY <1>t
  <2>b. Begin(c, [NoRequest EXCEPT !.op = "role", !.x = x, !.t = t, !.role = r, !.seen = seen, !.pc = pc])
    BY <2>1
  <2> HIDE DEF seen, pc
  <2>f. [NoRequest EXCEPT !.op = "role", !.x = x, !.t = t, !.role = r, !.seen = seen, !.pc = pc] \in Request
    BY <2>s, BlankTypes, ZenonT(30) DEF Request
  <2>2. req' \in [Clients -> Request] /\ begun' \in 0..MaxRequests
    BY <2>b, <2>f, OneRequest
  <2> QED BY <1>1, <2>2 DEF UpdateRole, TypeOK
<1>2. CASE Delete(c)
  <2>1. PICK a \in Users, x \in Users, t \in Tenants :
           Begin(c, [NoRequest EXCEPT !.op = "remove", !.x = x, !.t = t, !.seen = mem[x][t],
                      !.pc = IF mem[x][t] = "owner" THEN "count" ELSE "write"])
    BY <1>2 DEF Delete
  <2> DEFINE pc == IF mem[x][t] = "owner" THEN "count" ELSE "write"
  <2>s. mem[x][t] \in Roles \cup {"none"} /\ pc \in Places
    BY <1>t
  <2>b. Begin(c, [NoRequest EXCEPT !.op = "remove", !.x = x, !.t = t, !.seen = mem[x][t], !.pc = pc])
    BY <2>1
  <2> HIDE DEF pc
  <2>f. [NoRequest EXCEPT !.op = "remove", !.x = x, !.t = t, !.seen = mem[x][t], !.pc = pc] \in Request
    BY <2>s, BlankTypes DEF Request
  <2>2. req' \in [Clients -> Request] /\ begun' \in 0..MaxRequests
    BY <2>b, <2>f, OneRequest
  <2> QED BY <1>2, <2>2 DEF Delete, TypeOK
<1>3. CASE CountOwners(c)
  <2>1. Owners(req[c].t) \in SUBSET Users
    BY DEF Owners
  <2> QED BY <1>3, <1>rows, <2>1 DEF CountOwners, TypeOK
<1>4. CASE isLastOwner(c)
  <2>1. {e \in req[c].rows : mem[e][req[c].t] = "owner"} \in SUBSET Users
    BY <1>t DEF Request
  <2>2. req' \in [Clients -> Request] /\ begun' \in 0..MaxRequests
    BY <1>4, <1>t, <1>rows, <2>1, OneRequest DEF isLastOwner
  <2> QED BY <1>4, <2>2 DEF isLastOwner, TypeOK
<1>5. CASE UpdateRoleCommit(c)
  <2>1. mem' \in [Users -> [Tenants -> Roles \cup {"none"}]]
    <3>1. CASE mem' = mem
      BY <1>t, <3>1
    <3>2. CASE mem' = [mem EXCEPT ![req[c].x][req[c].t] = req[c].role]
      BY <1>t, <3>2
    <3> QED BY <1>5, <3>1, <3>2 DEF UpdateRoleCommit
  <2> QED BY <1>5, <2>1, OneRequest DEF UpdateRoleCommit, TypeOK
<1>6. CASE DeleteMembership(c)
  <2>1. CASE End(c)
    BY <1>6, <2>1, OneRequest DEF DeleteMembership, TypeOK
  <2>2. CASE req' = [req EXCEPT ![c].rows = @ \cup {req[c].x}, ![c].pc = "tally"] /\ UNCHANGED begun
    <3>1. req' \in [Clients -> Request]
      <4>1. req[c].x \in Users
        BY <1>6 DEF DeleteMembership, RemovalInv
      <4>2. req[c].rows \cup {req[c].x} \in SUBSET Users
        BY <1>t, <4>1 DEF Request
      <4>3. req' = [req EXCEPT ![c].rows = req[c].rows \cup {req[c].x}, ![c].pc = "tally"]
        BY <1>t, <2>2
      <4> QED BY <1>rows, <4>2, <4>3
    <3> QED BY <1>6, <2>2, <3>1 DEF DeleteMembership, TypeOK
  <2> QED BY <1>6, <2>1, <2>2 DEF DeleteMembership
<1>7. CASE CountForUser(c)
  BY <1>7, OneRequest DEF CountForUser, TypeOK
<1>8. CASE DeleteCommit(c)
  <2>1. mem' \in [Users -> [Tenants -> Roles \cup {"none"}]]
    BY <1>8, <1>t DEF DeleteCommit
  <2> QED BY <1>8, <2>1, OneRequest DEF DeleteCommit, TypeOK
<1>9. CASE DeleteUser(c)
  <2>1. /\ mem' \in [Users -> [Tenants -> Roles \cup {"none"}]]
        /\ user' \in [Users -> {"none", "unverified", "verified", "deleted"}]
    BY <1>9, <1>t DEF DeleteUser
  <2> QED BY <1>9, <2>1, OneRequest DEF DeleteUser, TypeOK
<1> QED BY <1>1, <1>2, <1>3, <1>4, <1>5, <1>6, <1>7, <1>8, <1>9 DEF MemberStep

LEMMA InviteTypes ==
  ASSUME TypeOK, NEW c \in Clients, InviteStep(c)
  PROVE  TypeOK'
<1> USE DEF Places
<1>t. /\ req \in [Clients -> Request] /\ req[c] \in Request /\ begun \in 0..MaxRequests
      /\ mem \in [Users -> [Tenants -> Roles \cup {"none"}]] /\ req[c].role \in Roles
      /\ user \in [Users -> {"none", "unverified", "verified", "deleted"}]
      /\ inv \in [Invites -> Invite] /\ \A i \in Invites : inv[i] \in Invite
  BY DEF TypeOK, Request
<1>u. \A i \in Invites, why \in Spent : Used(i, why) \in Invite
  BY <1>t, BlankTypes DEF Used, Invite
<1>1. CASE InviteAdmin(c)
  <2>1. PICK a \in Users, e \in Users, t \in Tenants, r \in InviteRoles :
          Begin(c, [NoRequest EXCEPT !.op = "invite", !.pc = "write", !.x = e, !.t = t, !.by = a, !.role = r,
                      !.inv = {i \in Invites : inv[i].state \in Unused /\ inv[i].e = e /\ inv[i].t = t}])
    BY <1>1 DEF InviteAdmin
  <2> DEFINE I == {i \in Invites : inv[i].state \in Unused /\ inv[i].e = e /\ inv[i].t = t}
  <2>2. I \in SUBSET Invites /\ r \in Roles
    BY MembershipConstants
  <2>3. Begin(c, [NoRequest EXCEPT !.op = "invite", !.pc = "write", !.x = e, !.t = t, !.by = a, !.role = r,
                      !.inv = I])
    BY <2>1
  <2> HIDE DEF I
  <2>f. [NoRequest EXCEPT !.op = "invite", !.pc = "write", !.x = e, !.t = t, !.by = a, !.role = r,
                      !.inv = I] \in Request
    BY <2>2, BlankTypes DEF Request
  <2>4. req' \in [Clients -> Request] /\ begun' \in 0..MaxRequests
    BY <2>3, <2>f, OneRequest
  <2> QED BY <1>1, <2>4 DEF InviteAdmin, TypeOK
<1>2. CASE InviteCreate(c)
  <2>1. PICK n \in Invites :
          inv' = [i \in Invites |->
            IF i = n THEN [state |-> "pending", e |-> req[c].x, t |-> req[c].t, role |-> req[c].role,
                           by |-> req[c].by, tok |-> 0]
            ELSE IF i \in req[c].inv THEN Used(i, "replaced") ELSE inv[i]]
    BY <1>2 DEF InviteCreate
  <2>2. [state |-> "pending", e |-> req[c].x, t |-> req[c].t, role |-> req[c].role,
         by |-> req[c].by, tok |-> 0] \in Invite
    BY <1>t, MembershipConstants DEF Invite, Request, Unused
  <2>3. \A i \in Invites : Used(i, "replaced") \in Invite
    BY <1>u DEF Spent
  <2>4. inv' \in [Invites -> Invite]
    BY <1>t, <2>1, <2>2, <2>3
  <2> QED BY <1>2, <2>4, OneRequest DEF InviteCreate, TypeOK
<1>3. CASE AcceptInvite(c)
  <2>1. PICK i \in Invites :
          Begin(c, [NoRequest EXCEPT !.op = IF Exists(inv[i].e) THEN "join" ELSE "join_new",
                      !.pc = "claim", !.x = inv[i].e, !.inv = {i}, !.tok = inv[i].tok])
    BY <1>3 DEF AcceptInvite
  <2>2. inv[i].e \in Users \cup {Null} /\ inv[i].tok \in 0..MaxResends
    BY <1>t DEF Invite
  <2>f. [NoRequest EXCEPT !.op = IF Exists(inv[i].e) THEN "join" ELSE "join_new",
                      !.pc = "claim", !.x = inv[i].e, !.inv = {i}, !.tok = inv[i].tok] \in Request
    <3> DEFINE op == IF Exists(inv[i].e) THEN "join" ELSE "join_new"
    <3>1. op \in {"join", "join_new"}
      OBVIOUS
    <3> HIDE DEF op
    <3>2. [NoRequest EXCEPT !.op = op, !.pc = "claim", !.x = inv[i].e, !.inv = {i}, !.tok = inv[i].tok]
            \in Request
      BY <2>2, <3>1, BlankTypes DEF Request
    <3> QED BY <3>2 DEF op
  <2>3. req' \in [Clients -> Request] /\ begun' \in 0..MaxRequests
    BY <2>1, <2>f, OneRequest
  <2> QED BY <1>3, <2>3 DEF AcceptInvite, TypeOK
<1>4. CASE ClaimForUse(c)
  <2>1. PICK i \in req[c].inv : (UNCHANGED inv /\ End(c)) \/ Claimed(c, i)
    BY <1>4 DEF ClaimForUse
  <2>2. i \in Invites
    BY <1>t DEF Request
  <2>3. CASE UNCHANGED inv /\ End(c)
    BY <1>4, <2>3, OneRequest DEF ClaimForUse, TypeOK
  <2>4. CASE Claimed(c, i)
    <3> DEFINE pc == IF req[c].op = "join_new" THEN "user" ELSE "join"
    <3>1. /\ req' = [req EXCEPT ![c].pc = pc, ![c].t = inv[i].t, ![c].role = inv[i].role]
          /\ inv' = [inv EXCEPT ![i] = Used(i, "claimed")] /\ UNCHANGED begun
      BY <2>4 DEF Claimed
    <3>2. pc \in {"user", "join"}
      OBVIOUS
    <3> HIDE DEF pc
    <3>3. [req[c] EXCEPT !.pc = pc, !.t = inv[i].t, !.role = inv[i].role] \in Request
      BY <1>t, <2>2, <3>2 DEF Request, Invite
    <3>4. req' = [req EXCEPT ![c] = [req[c] EXCEPT !.pc = pc, !.t = inv[i].t, !.role = inv[i].role]]
      BY <1>t, <3>1
    <3>5. req' \in [Clients -> Request]
      BY <1>t, <3>3, <3>4
    <3>6. inv' \in [Invites -> Invite]
      BY <1>t, <1>u, <2>2, <3>1 DEF Spent
    <3> QED BY <1>4, <3>1, <3>5, <3>6 DEF ClaimForUse, TypeOK
  <2> QED BY <2>1, <2>3, <2>4
<1>5. CASE acceptInviteForNewUser(c)
  <2>1. user' \in [Users -> {"none", "unverified", "verified", "deleted"}]
    BY <1>5, <1>t DEF acceptInviteForNewUser
  <2>2. req' \in [Clients -> Request] /\ begun' \in 0..MaxRequests
    BY <1>5, OneRequest DEF acceptInviteForNewUser
  <2> QED BY <1>5, <2>1, <2>2 DEF acceptInviteForNewUser, TypeOK
<1>6. CASE CreateMembership(c)
  <2>1. mem' \in [Users -> [Tenants -> Roles \cup {"none"}]]
    <3>1. CASE mem' = mem
      BY <1>t, <3>1
    <3>2. CASE mem' = [mem EXCEPT ![req[c].x][req[c].t] = req[c].role]
      BY <1>t, <3>2
    <3> QED BY <1>6, <3>1, <3>2 DEF CreateMembership
  <2> QED BY <1>6, <2>1, OneRequest DEF CreateMembership, TypeOK
<1> QED BY <1>1, <1>2, <1>3, <1>4, <1>5, <1>6 DEF InviteStep

LEMMA SignupTypes ==
  ASSUME TypeOK, NEW c \in Clients, SignupStep(c)
  PROVE  TypeOK'
<1> USE DEF Places
<1>t. /\ mem \in [Users -> [Tenants -> Roles \cup {"none"}]] /\ req[c].x \in Users \cup {Null}
      /\ user \in [Users -> {"none", "unverified", "verified", "deleted"}]
      /\ tenant \in [Tenants -> {"none", "active", "deleted"}]
      /\ ver \in [Tokens -> Token] /\ \A v \in Tokens : ver[v] \in Token /\ ver[v].e \in Users \cup {Null}
  BY DEF TypeOK, Request, Token
<1>f. ASSUME NEW op \in {"signup", "found", "resend", "verify", "bootstrap"}, NEW x \in Users \cup {Null},
             NEW pc \in Places, Begin(c, [NoRequest EXCEPT !.op = op, !.pc = pc, !.x = x])
      PROVE  req' \in [Clients -> Request] /\ begun' \in 0..MaxRequests
  <2>1. [NoRequest EXCEPT !.op = op, !.pc = pc, !.x = x] \in Request
    <3> DEFINE r == [NoRequest EXCEPT !.pc = pc, !.x = x]
    <3>1. r \in Request
      BY BlankTypes DEF Request
    <3>2. [r EXCEPT !.op = op] = [NoRequest EXCEPT !.op = op, !.pc = pc, !.x = x]
      BY BlankTypes DEF Request
    <3> HIDE DEF r
    <3>3. [r EXCEPT !.op = op] \in Request
      BY <3>1 DEF Request
    <3> QED BY <3>2, <3>3
  <2> QED BY <1>f, <2>1, OneRequest
<1>1. CASE Signup(c)
  <2>1. req' \in [Clients -> Request] /\ begun' \in 0..MaxRequests
    BY <1>1, <1>f DEF Signup
  <2> QED BY <1>1, <2>1 DEF Signup, TypeOK
<1>2. CASE signupNewUser(c)
  <2>1. user' \in [Users -> {"none", "unverified", "verified", "deleted"}]
    BY <1>2, <1>t DEF signupNewUser
  <2>2. req' \in [Clients -> Request] /\ begun' \in 0..MaxRequests
    BY <1>2, OneRequest DEF signupNewUser
  <2> QED BY <1>2, <2>1, <2>2 DEF signupNewUser, TypeOK
<1>3. CASE createTenantAndOwnerMembership(c)
  <2>1. /\ mem' \in [Users -> [Tenants -> Roles \cup {"none"}]]
        /\ tenant' \in [Tenants -> {"none", "active", "deleted"}]
    <3>1. CASE UNCHANGED <<tenant, mem>>
      BY <1>t, <3>1
    <3>2. ASSUME NEW t \in Tenants, tenant' = [tenant EXCEPT ![t] = "active"],
                 mem' = [mem EXCEPT ![req[c].x][t] = "owner"]
          PROVE  /\ mem' \in [Users -> [Tenants -> Roles \cup {"none"}]]
                 /\ tenant' \in [Tenants -> {"none", "active", "deleted"}]
      <4>1. "owner" \in Roles
        BY DEF Roles
      <4>2. mem' \in [Users -> [Tenants -> Roles \cup {"none"}]]
        BY <1>t, <3>2, <4>1
      <4> QED BY <1>t, <3>2, <4>2
    <3> QED BY <1>3, <3>1, <3>2 DEF createTenantAndOwnerMembership
  <2>2. req' \in [Clients -> Request] /\ begun' \in 0..MaxRequests
    BY <1>3, OneRequest DEF createTenantAndOwnerMembership
  <2> QED BY <1>3, <2>1, <2>2 DEF createTenantAndOwnerMembership, TypeOK
<1>4. CASE issueAndSendVerification(c)
  <2>1. ver' \in [Tokens -> Token]
    <3>1. [state |-> "pending", e |-> req[c].x] \in Token
      BY <1>t DEF Token
    <3> QED BY <1>4, <1>t, <3>1 DEF issueAndSendVerification
  <2> QED BY <1>4, <2>1, OneRequest DEF issueAndSendVerification, TypeOK
<1>5. CASE ResendVerification(c)
  <2>1. ver' \in [Tokens -> Token]
    <3>1. [NoToken EXCEPT !.state = "replaced"] \in Token
      BY BlankTypes DEF Token
    <3> QED BY <1>5, <1>t, <3>1 DEF ResendVerification
  <2>2. req' \in [Clients -> Request] /\ begun' \in 0..MaxRequests
    BY <1>5, <1>f DEF ResendVerification
  <2> QED BY <1>5, <2>1, <2>2 DEF ResendVerification, TypeOK
<1>6. CASE Verify(c)
  <2>1. ver' \in [Tokens -> Token]
    <3>1. [NoToken EXCEPT !.state = "claimed"] \in Token
      BY BlankTypes DEF Token
    <3> QED BY <1>6, <1>t, <3>1 DEF Verify
  <2>2. req' \in [Clients -> Request] /\ begun' \in 0..MaxRequests
    BY <1>6, <1>f, <1>t DEF Verify
  <2> QED BY <1>6, <2>1, <2>2 DEF Verify, TypeOK
<1>7. CASE MarkEmailVerified(c)
  <2>1. user' \in [Users -> {"none", "unverified", "verified", "deleted"}]
    BY <1>7, <1>t DEF MarkEmailVerified
  <2> QED BY <1>7, <2>1, OneRequest DEF MarkEmailVerified, TypeOK
<1>8. CASE Bootstrap(c)
  <2>1. req' \in [Clients -> Request] /\ begun' \in 0..MaxRequests
    BY <1>8, <1>f DEF Bootstrap
  <2> QED BY <1>8, <2>1 DEF Bootstrap, TypeOK
<1>9. CASE LockUsers(c)
  BY <1>9, OneRequest DEF LockUsers, TypeOK
<1>10. CASE CountUsers(c)
  <2>1. req' \in [Clients -> Request] /\ begun' \in 0..MaxRequests
    BY <1>10, OneRequest DEF CountUsers
  <2> QED BY <1>10, <2>1 DEF CountUsers, TypeOK
<1>11. CASE BootstrapFirst(c)
  <2>1. user' \in [Users -> {"none", "unverified", "verified", "deleted"}]
    BY <1>11, <1>t DEF BootstrapFirst
  <2> QED BY <1>11, <2>1, OneRequest DEF BootstrapFirst, TypeOK
<1>12. CASE DeleteTenant(c)
  <2>1. PICK t \in Tenants : Begin(c, [NoRequest EXCEPT !.op = "close", !.pc = "write", !.t = t])
    BY <1>12 DEF DeleteTenant
  <2>f. [NoRequest EXCEPT !.op = "close", !.pc = "write", !.t = t] \in Request
    BY BlankTypes, ZenonT(30) DEF Request
  <2>2. req' \in [Clients -> Request] /\ begun' \in 0..MaxRequests
    BY <2>1, <2>f, OneRequest
  <2> QED BY <1>12, <2>2 DEF DeleteTenant, TypeOK
<1>13. CASE SoftDelete(c)
  <2>1. tenant' \in [Tenants -> {"none", "active", "deleted"}]
    BY <1>13, <1>t DEF SoftDelete
  <2> QED BY <1>13, <2>1, OneRequest DEF SoftDelete, TypeOK
<1> QED BY <1>1, <1>2, <1>3, <1>4, <1>5, <1>6, <1>7, <1>8, <1>9, <1>10, <1>11, <1>12, <1>13 DEF SignupStep

LEMMA OutsideTypes ==
  ASSUME TypeOK, NEW i \in Invites, ResendInvite(i) \/ CancelInvite(i) \/ Expire(i)
  PROVE  TypeOK'
<1>t. inv \in [Invites -> Invite] /\ inv[i] \in Invite
  BY DEF TypeOK
<1>1. CASE ResendInvite(i)
  <2>1. inv' = [inv EXCEPT ![i].state = "pending", ![i].tok = @ + 1]
    BY <1>1 DEF ResendInvite
  <2>2. inv' = [inv EXCEPT ![i] = [inv[i] EXCEPT !.state = "pending", !.tok = inv[i].tok + 1]]
    BY <1>t, <2>1 DEF Invite
  <2>3. inv[i].tok + 1 \in 0..MaxResends
    BY <1>1, <1>t, MembershipConstants DEF ResendInvite, Invite
  <2>4. [inv[i] EXCEPT !.state = "pending", !.tok = inv[i].tok + 1] \in Invite
    BY <1>t, <2>3 DEF Invite, Unused
  <2>5. inv' \in [Invites -> Invite]
    BY <1>t, <2>2, <2>4
  <2> QED BY <1>1, <2>5 DEF ResendInvite, TypeOK
<1>2. CASE CancelInvite(i)
  <2>1. Used(i, "cancelled") \in Invite
    BY <1>t, BlankTypes DEF Used, Invite, Spent
  <2>2. inv' \in [Invites -> Invite]
    BY <1>2, <1>t, <2>1 DEF CancelInvite
  <2> QED BY <1>2, <2>2 DEF CancelInvite, TypeOK
<1>3. CASE Expire(i)
  <2>1. [inv[i] EXCEPT !.state = "expired"] \in Invite
    BY <1>t DEF Invite, Unused
  <2>2. inv' \in [Invites -> Invite]
    BY <1>3, <1>t, <2>1 DEF Expire
  <2> QED BY <1>3, <2>2 DEF Expire, TypeOK
<1> QED BY <1>1, <1>2, <1>3

-----------------------------------------------------------------------------
\* A request that holds no row.
Rowless(r) ==
  /\ r.rows = {} /\ r.pc # "lock"
  /\ r.op \notin {"role", "remove"} => r.seen = "none"
  /\ r.op \in {"role", "remove"} => /\ r.x \in Users /\ r.t \in Tenants /\ r.pc \in {"count", "write"}
                                    /\ r.seen = "owner" => r.pc = "count"

\* A request that has locked nothing at all.
Quiet(r) ==
  Rowless(r) /\ r.op # "invite" /\ ~(r.op = "bootstrap" /\ r.pc \in {"users", "insert"})

\* Owners whose rows a request holds stay owners.
OwnersKept ==
  \A d \in Clients : req'[d] = req[d] /\ req[d].pc # "lock" =>
    \A e \in req[d].rows : mem[e][req[d].t] = "owner" => mem'[e][req[d].t] = "owner"

LEMMA QuietNoRequest == Quiet(NoRequest)
  BY DEF Quiet, Rowless, NoRequest

\* Requests that have locked nothing come and go.
LEMMA RemovalKept ==
  ASSUME MembershipInv, OwnersKept, \A c \in Clients : req'[c] = req[c] \/ Rowless(req'[c])
  PROVE  (\A c \in Clients : RemovalInv(c))' /\ LocksApart'
<1>1. ASSUME NEW c \in Clients PROVE RemovalInv(c)'
  <2>0. RemovalInv(c)
    BY DEF MembershipInv
  <2>1. CASE Rowless(req'[c])
    BY <2>1 DEF Rowless, RemovalInv
  <2>2. CASE req'[c] = req[c]
    <3>1. Backed(c) /\ req[c].pc # "lock" => Backed(c)'
      BY <2>2 DEF Backed, OwnersKept
    <3> QED BY <2>0, <2>2, <3>1 DEF RemovalInv
  <2> QED BY <2>1, <2>2
<1>2. LocksApart'
  BY DEF MembershipInv, LocksApart, Rowless
<1> QED BY <1>1, <1>2

\* The handlers that lock nothing, or end what they locked.
Ordinary(c) ==
  \/ UpdateRole(c) \/ Delete(c) \/ UpdateRoleCommit(c) \/ DeleteCommit(c) \/ DeleteUser(c)
  \/ InviteCreate(c) \/ AcceptInvite(c) \/ ClaimForUse(c) \/ acceptInviteForNewUser(c)
  \/ CreateMembership(c) \/ Signup(c) \/ signupNewUser(c) \/ createTenantAndOwnerMembership(c)
  \/ issueAndSendVerification(c) \/ ResendVerification(c) \/ Verify(c) \/ MarkEmailVerified(c)
  \/ Bootstrap(c) \/ BootstrapFirst(c) \/ DeleteTenant(c) \/ SoftDelete(c) \/ Fail(c)

LEMMA OrdinaryRequest ==
  ASSUME MembershipInv, NEW c \in Clients, Ordinary(c)
  PROVE  Quiet(req'[c]) /\ \A d \in Clients \ {c} : req'[d] = req[d]
<1> USE DEF Places
<1>t. /\ TypeOK /\ req \in [Clients -> Request] /\ req[c] \in Request /\ RemovalInv(c)
  BY DEF MembershipInv, TypeOK
<1>b. ASSUME NEW r, Begin(c, r)
      PROVE  req'[c] = r /\ \A d \in Clients \ {c} : req'[d] = req[d]
  BY <1>b, <1>t DEF Begin
<1>e. CASE End(c)
  BY <1>e, <1>t, OneRequest, QuietNoRequest
<1>g. ASSUME NEW pc \in Places \ {"lock", "users", "insert"}, Goto(c, pc),
             req[c].op \notin {"role", "remove", "invite"}
      PROVE  Quiet(req'[c]) /\ \A d \in Clients \ {c} : req'[d] = req[d]
  BY <1>g, <1>t, OneRequest DEF Quiet, Rowless, RemovalInv
<1>1. CASE UpdateRole(c)
  <2>1. PICK x \in Users, t \in Tenants, r \in Roles :
           Begin(c, [NoRequest EXCEPT !.op = "role", !.x = x, !.t = t, !.role = r,
                      !.seen = IF r = "owner" THEN "none" ELSE mem[x][t],
                      !.pc = IF r # "owner" /\ mem[x][t] = "owner" THEN "count" ELSE "write"])
    BY <1>1 DEF UpdateRole
  <2> DEFINE seen == IF r = "owner" THEN "none" ELSE mem[x][t]
             pc == IF r # "owner" /\ mem[x][t] = "owner" THEN "count" ELSE "write"
             k == [NoRequest EXCEPT !.op = "role", !.x = x, !.t = t, !.role = r, !.seen = seen, !.pc = pc]
  <2>2. pc \in {"count", "write"} /\ (seen = "owner" => pc = "count")
    BY DEF Roles
  <2>3. Begin(c, k)
    BY <2>1
  <2> HIDE DEF seen, pc
  <2>4. Quiet(k)
    BY <2>2 DEF NoRequest, Quiet, Rowless
  <2> HIDE DEF k
  <2> QED BY <1>b, <2>3, <2>4
<1>2. CASE Delete(c)
  <2>1. PICK x \in Users, t \in Tenants :
           Begin(c, [NoRequest EXCEPT !.op = "remove", !.x = x, !.t = t, !.seen = mem[x][t],
                      !.pc = IF mem[x][t] = "owner" THEN "count" ELSE "write"])
    BY <1>2 DEF Delete
  <2> DEFINE k == [NoRequest EXCEPT !.op = "remove", !.x = x, !.t = t, !.seen = mem[x][t],
                      !.pc = IF mem[x][t] = "owner" THEN "count" ELSE "write"]
  <2>2. Quiet(k)
    BY DEF NoRequest, Quiet, Rowless
  <2>3. Begin(c, k)
    BY <2>1
  <2> HIDE DEF k
  <2> QED BY <1>b, <2>2, <2>3
<1>3. CASE UpdateRoleCommit(c) \/ DeleteCommit(c) \/ DeleteUser(c) \/ InviteCreate(c)
           \/ CreateMembership(c) \/ issueAndSendVerification(c) \/ MarkEmailVerified(c)
           \/ SoftDelete(c) \/ Fail(c)
  BY <1>3, <1>e DEF UpdateRoleCommit, DeleteCommit, DeleteUser, InviteCreate, CreateMembership,
     issueAndSendVerification, MarkEmailVerified, SoftDelete, Fail
<1>4. CASE acceptInviteForNewUser(c)
  BY <1>4, <1>e, <1>g DEF acceptInviteForNewUser
<1>5. CASE signupNewUser(c)
  BY <1>5, <1>e, <1>g DEF signupNewUser
<1>6. CASE createTenantAndOwnerMembership(c)
  BY <1>6, <1>e, <1>g DEF createTenantAndOwnerMembership
<1>7. CASE BootstrapFirst(c)
  BY <1>7, <1>g DEF BootstrapFirst
<1>8. CASE Signup(c) \/ ResendVerification(c) \/ Verify(c) \/ Bootstrap(c)
  <2>1. PICK op \in {"signup", "found", "resend", "verify", "bootstrap"},
             pc \in {"user", "tenant", "token", "mark", "table"} :
          \E x : Begin(c, [NoRequest EXCEPT !.op = op, !.pc = pc, !.x = x])
    BY <1>8 DEF Signup, ResendVerification, Verify, Bootstrap
  <2>2. PICK x : Begin(c, [NoRequest EXCEPT !.op = op, !.pc = pc, !.x = x])
    BY <2>1
  <2>3. Quiet([NoRequest EXCEPT !.op = op, !.pc = pc, !.x = x])
    BY DEF NoRequest, Quiet, Rowless
  <2> QED BY <1>b, <2>2, <2>3
<1>9. CASE DeleteTenant(c)
  <2>1. PICK t \in Tenants : Begin(c, [NoRequest EXCEPT !.op = "close", !.pc = "write", !.t = t])
    BY <1>9 DEF DeleteTenant
  <2>2. Quiet([NoRequest EXCEPT !.op = "close", !.pc = "write", !.t = t])
    BY DEF NoRequest, Quiet, Rowless
  <2> QED BY <1>b, <2>1, <2>2
<1>10. CASE AcceptInvite(c)
  <2>1. PICK op \in {"join", "join_new"} : \E x, i, tok :
          Begin(c, [NoRequest EXCEPT !.op = op, !.pc = "claim", !.x = x, !.inv = {i}, !.tok = tok])
    BY <1>10 DEF AcceptInvite
  <2>2. PICK x, i, tok :
          Begin(c, [NoRequest EXCEPT !.op = op, !.pc = "claim", !.x = x, !.inv = {i}, !.tok = tok])
    BY <2>1
  <2>3. Quiet([NoRequest EXCEPT !.op = op, !.pc = "claim", !.x = x, !.inv = {i}, !.tok = tok])
    BY DEF NoRequest, Quiet, Rowless
  <2> QED BY <1>b, <2>2, <2>3
<1>11. CASE ClaimForUse(c)
  <2>1. PICK i \in req[c].inv : End(c) \/ Claimed(c, i)
    BY <1>11 DEF ClaimForUse
  <2>2. CASE Claimed(c, i)
    <3>1. PICK pc \in {"user", "join"} :
            req' = [req EXCEPT ![c].pc = pc, ![c].t = inv[i].t, ![c].role = inv[i].role]
      BY <2>2 DEF Claimed
    <3>2. /\ req'[c].pc = pc /\ req'[c].op = req[c].op /\ req'[c].rows = req[c].rows
          /\ req'[c].seen = req[c].seen /\ \A d \in Clients \ {c} : req'[d] = req[d]
      BY <1>t, <3>1 DEF Request
    <3>3. req[c].op \in {"join", "join_new"}
      BY <1>11 DEF ClaimForUse
    <3> QED BY <1>t, <3>2, <3>3 DEF Quiet, Rowless, RemovalInv
  <2> QED BY <1>e, <2>1, <2>2
<1> QED BY <1>1, <1>2, <1>3, <1>4, <1>5, <1>6, <1>7, <1>8, <1>9, <1>10, <1>11 DEF Ordinary

\* Whoever writes a membership waits for its row, or holds it.
LEMMA OrdinaryOwners ==
  ASSUME MembershipInv, NEW c \in Clients, Ordinary(c)
  PROVE  OwnersKept
<1>t. /\ mem \in [Users -> [Tenants -> Roles \cup {"none"}]] /\ RemovalInv(c)
      /\ \A d \in Clients : req[d].rows \subseteq Users
  BY DEF MembershipInv, TypeOK, Request
<1>q. Quiet(req'[c])
  BY OrdinaryRequest
<1> SUFFICES ASSUME NEW d \in Clients, req'[d] = req[d], req[d].pc # "lock", NEW e \in req[d].rows,
                    mem[e][req[d].t] = "owner"
             PROVE  mem'[e][req[d].t] = "owner"
  BY DEF OwnersKept
<1>d. d # c /\ e \in Users
  BY <1>q, <1>t DEF Quiet, Rowless
<1>free. \A x, t : RowFree(c, x, t) => x # e \/ t # req[d].t
  BY <1>d DEF RowFree
<1>1. CASE UpdateRoleCommit(c)
  <2>1. req[c].x # e \/ req[c].t # req[d].t
    BY <1>1, <1>free DEF UpdateRoleCommit
  <2>2. mem' = mem \/ mem' = [mem EXCEPT ![req[c].x][req[c].t] = req[c].role]
    BY <1>1 DEF UpdateRoleCommit
  <2>3. CASE mem' = mem
    BY <2>3
  <2>4. CASE mem' = [mem EXCEPT ![req[c].x][req[c].t] = req[c].role]
    <3>1. CASE req[c].x # e
      BY <1>t, <1>d, <2>4, <3>1
    <3>2. CASE req[c].t # req[d].t
      BY <1>t, <1>d, <2>4, <3>2
    <3> QED BY <2>1, <3>1, <3>2
  <2> QED BY <2>2, <2>3, <2>4
<1>2. CASE DeleteCommit(c)
  <2>1. mem' = [mem EXCEPT ![req[c].x][req[c].t] = "none"]
    BY <1>2 DEF DeleteCommit
  <2>2. req[c].x \in req[c].rows /\ req[c].pc # "lock"
    BY <1>2, <1>t DEF DeleteCommit, RemovalInv
  <2>3. req[c].x # e \/ req[c].t # req[d].t
    BY <1>d, <2>2 DEF MembershipInv, LocksApart
  <2> QED BY <1>t, <1>d, <2>1, <2>3
<1>3. CASE DeleteUser(c)
  <2>1. req[c].x # e \/ mem' = mem
    <3>1. req[c].x = e /\ req[d].t \in Tenants => RowFree(c, e, req[d].t)
      BY <1>3 DEF DeleteUser
    <3>2. req[d].op \in {"role", "remove"} /\ req[d].t \in Tenants
      BY DEF MembershipInv, RemovalInv
    <3> QED BY <1>free, <3>1, <3>2
  <2>2. mem' = mem \/ mem' = [mem EXCEPT ![req[c].x] = [s \in Tenants |-> "none"]]
    BY <1>3 DEF DeleteUser
  <2> QED BY <1>t, <1>d, <2>1, <2>2
<1>4. CASE CreateMembership(c)
  <2>1. req[c].x # e \/ req[c].t # req[d].t
    BY <1>4, <1>free DEF CreateMembership
  <2>2. mem' = mem \/ mem' = [mem EXCEPT ![req[c].x][req[c].t] = req[c].role]
    BY <1>4 DEF CreateMembership
  <2>3. CASE mem' = mem
    BY <2>3
  <2>4. CASE mem' = [mem EXCEPT ![req[c].x][req[c].t] = req[c].role]
    <3>1. CASE req[c].x # e
      BY <1>t, <1>d, <2>4, <3>1
    <3>2. CASE req[c].t # req[d].t
      BY <1>t, <1>d, <2>4, <3>2
    <3> QED BY <2>1, <3>1, <3>2
  <2> QED BY <2>2, <2>3, <2>4
<1>5. CASE createTenantAndOwnerMembership(c)
  <2>1. mem' = mem \/ \E t \in Tenants : mem' = [mem EXCEPT ![req[c].x][t] = "owner"]
    BY <1>5 DEF createTenantAndOwnerMembership
  <2>2. req[d].t \in Tenants
    BY DEF MembershipInv, RemovalInv
  <2>3. ASSUME NEW t \in Tenants, mem' = [mem EXCEPT ![req[c].x][t] = "owner"]
        PROVE  mem'[e][req[d].t] = "owner"
    <3>1. CASE req[c].x = e /\ t = req[d].t
      BY <1>t, <1>d, <2>2, <2>3, <3>1
    <3>2. CASE ~(req[c].x = e /\ t = req[d].t)
      BY <1>t, <1>d, <2>2, <2>3, <3>2
    <3> QED BY <3>1, <3>2
  <2> QED BY <2>1, <2>3
<1>6. CASE UNCHANGED mem
  BY <1>6
<1>7. \/ UpdateRoleCommit(c) \/ DeleteCommit(c) \/ DeleteUser(c) \/ CreateMembership(c)
      \/ createTenantAndOwnerMembership(c) \/ UNCHANGED mem
  BY DEF Ordinary, UpdateRole, Delete, InviteCreate, AcceptInvite, ClaimForUse, acceptInviteForNewUser,
     Signup, signupNewUser, issueAndSendVerification, ResendVerification, Verify, MarkEmailVerified,
     Bootstrap, BootstrapFirst, DeleteTenant, SoftDelete, Fail
<1> QED BY <1>1, <1>2, <1>3, <1>4, <1>5, <1>6, <1>7

\* What a new invite is about to replace stays as it was.
LEMMA OrdinaryReplaces ==
  ASSUME MembershipInv, NEW c \in Clients, Ordinary(c)
  PROVE  ReplacesInv'
<1>q. Quiet(req'[c]) /\ \A d \in Clients \ {c} : req'[d] = req[d]
  BY OrdinaryRequest
<1>r. ReplacesInv /\ inv \in [Invites -> Invite] /\ \A d \in Clients : req[d].inv \subseteq Invites
  BY DEF MembershipInv, TypeOK, Request
<1>1. ASSUME NEW d \in Clients, req'[d].op = "invite"
      PROVE  d # c /\ req'[d] = req[d] /\ req[d].op = "invite"
  BY <1>1, <1>q DEF Quiet, Rowless
<1>2. ASSUME NEW d \in Clients, req'[d].op = "invite", NEW i \in req'[d].inv
      PROVE  inv'[i] = inv[i]
  <2>1. CASE InviteCreate(c)
    <3>1. PICK n \in Invites :
            /\ inv[n].state = "none"
            /\ \A j \in Invites : j # n /\ j \notin req[c].inv => inv'[j] = inv[j]
      BY <2>1 DEF InviteCreate
    <3>2. inv[i].state \in Unused /\ i \notin req[c].inv /\ i \in Invites
      BY <1>1, <1>2, <1>r, <2>1 DEF ReplacesInv, InviteCreate
    <3> QED BY <3>1, <3>2 DEF Unused
  <2>2. CASE ClaimForUse(c)
    <3>1. PICK j \in req[c].inv : InviteFree(j) /\ (UNCHANGED inv \/ inv' = [inv EXCEPT ![j] = Used(j, "claimed")])
      BY <2>2 DEF ClaimForUse, Claimed
    <3>2. j # i
      BY <1>1, <1>2, <3>1 DEF InviteFree
    <3> QED BY <1>r, <1>1, <1>2, <3>1, <3>2
  <2>3. InviteCreate(c) \/ ClaimForUse(c) \/ UNCHANGED inv
    BY DEF Ordinary, UpdateRole, Delete, UpdateRoleCommit, DeleteCommit, DeleteUser, AcceptInvite,
       acceptInviteForNewUser, CreateMembership, Signup, signupNewUser, createTenantAndOwnerMembership,
       issueAndSendVerification, ResendVerification, Verify, MarkEmailVerified,
       Bootstrap, BootstrapFirst, DeleteTenant, SoftDelete, Fail
  <2> QED BY <2>1, <2>2, <2>3
<1> QED BY <1>1, <1>2, <1>r DEF ReplacesInv

\* While a bootstrap holds the users table, no account appears.
LEMMA OrdinaryBootstrap ==
  ASSUME MembershipInv, NEW c \in Clients, Ordinary(c)
  PROVE  BootstrapInv'
<1>q. Quiet(req'[c]) /\ \A d \in Clients \ {c} : req'[d] = req[d]
  BY OrdinaryRequest
<1>t. BootstrapInv /\ user \in [Users -> {"none", "unverified", "verified", "deleted"}]
  BY DEF MembershipInv, TypeOK
<1>1. ASSUME NEW d \in Clients, HoldsUsers(d)'
      PROVE  d # c /\ req'[d] = req[d] /\ HoldsUsers(d)
  BY <1>1, <1>q DEF Quiet, Rowless, HoldsUsers
<1>2. ASSUME NEW d \in Clients, HoldsUsers(d)', NEW e \in Users, Exists(e)' PROVE Exists(e)
  <2>1. CASE acceptInviteForNewUser(c) \/ signupNewUser(c)
    BY <1>1, <1>2, <2>1 DEF acceptInviteForNewUser, signupNewUser, UsersFree, HoldsUsers
  <2>2. CASE BootstrapFirst(c)
    BY <1>1, <1>2, <1>t, <2>2 DEF BootstrapFirst, BootstrapInv, HoldsUsers
  <2>3. CASE DeleteUser(c) \/ MarkEmailVerified(c)
    BY <1>2, <1>t, <2>3 DEF DeleteUser, MarkEmailVerified, Exists
  <2>4. CASE UNCHANGED user
    BY <1>2, <2>4 DEF Exists
  <2>5. \/ acceptInviteForNewUser(c) \/ signupNewUser(c) \/ BootstrapFirst(c) \/ DeleteUser(c)
        \/ MarkEmailVerified(c) \/ UNCHANGED user
    BY DEF Ordinary, UpdateRole, Delete, UpdateRoleCommit, DeleteCommit, InviteCreate, AcceptInvite,
       ClaimForUse, CreateMembership, Signup, createTenantAndOwnerMembership,
       issueAndSendVerification, ResendVerification, Verify, Bootstrap, DeleteTenant, SoftDelete, Fail
  <2> QED BY <2>1, <2>2, <2>3, <2>4, <2>5
<1>3. ASSUME NEW d \in Clients, NEW f \in Clients, HoldsUsers(d)', HoldsUsers(f)' PROVE d = f
  BY <1>1, <1>3, <1>t DEF BootstrapInv
<1>4. ASSUME NEW d \in Clients, req'[d].op = "bootstrap", req'[d].pc = "insert", NEW e \in Users
      PROVE  ~Exists(e)'
  <2>1. HoldsUsers(d)'
    BY <1>4 DEF HoldsUsers
  <2>2. req[d].op = "bootstrap" /\ req[d].pc = "insert"
    BY <1>1, <1>4, <2>1
  <2> QED BY <1>2, <1>t, <2>1, <2>2 DEF BootstrapInv
<1> QED BY <1>3, <1>4 DEF BootstrapInv

\* Locking owners' rows, and the removal that goes on holding them.
LEMMA LockingKept ==
  ASSUME MembershipInv, NEW c \in Clients,
         CountOwners(c) \/ isLastOwner(c) \/ DeleteMembership(c) \/ CountForUser(c)
  PROVE  (\A d \in Clients : RemovalInv(d))' /\ LocksApart'
<1> USE DEF Places
<1>t. /\ TypeOK /\ req \in [Clients -> Request] /\ req[c] \in Request /\ RemovalInv(c) /\ LocksApart
      /\ \A d \in Clients : RemovalInv(d)
  BY DEF MembershipInv, TypeOK
<1>m. UNCHANGED mem
  BY DEF CountOwners, isLastOwner, DeleteMembership, CountForUser
<1>e. CASE End(c)
  <2>1. OwnersKept
    BY <1>m DEF OwnersKept
  <2>2. \A d \in Clients : req'[d] = req[d] \/ Rowless(req'[d])
    BY <1>e, <1>t, OneRequest, QuietNoRequest DEF Quiet
  <2> QED BY <2>1, <2>2, RemovalKept
<1>n. ASSUME NEW R, NEW pc,
             /\ req'[c].rows = R /\ req'[c].pc = pc /\ req'[c].op = req[c].op /\ req'[c].x = req[c].x
             /\ req'[c].t = req[c].t /\ req'[c].seen = req[c].seen
             /\ \A d \in Clients \ {c} : req'[d] = req[d],
             req[c].op \in {"role", "remove"},
             pc \in {"tally", "commit", "erase"} => req[c].x \in R,
             pc # "lock" => \A e \in R : (e \in req[c].rows /\ req[c].pc # "lock") \/ RowFree(c, e, req[c].t),
             req[c].seen = "owner" /\ pc \notin {"count", "lock"} =>
               \A y \in Users : \E e \in R : e # y /\ mem[e][req[c].t] = "owner"
      PROVE  (\A d \in Clients : RemovalInv(d))' /\ LocksApart'
  <2>1. RemovalInv(c)'
    BY <1>n, <1>t, <1>m DEF RemovalInv, Backed
  <2>2. ASSUME NEW d \in Clients, d # c PROVE RemovalInv(d)'
    <3>1. req'[d] = req[d] /\ RemovalInv(d)
      BY <1>n, <1>t, <2>2
    <3> QED BY <1>m, <3>1 DEF RemovalInv, Backed
  <2>3. ASSUME NEW d \in Clients, d # c, pc # "lock", req[d].t = req[c].t, req[d].pc # "lock"
        PROVE  R \cap req[d].rows = {}
    <3>1. ASSUME NEW e \in R, e \in req[d].rows PROVE FALSE
      <4>1. CASE e \in req[c].rows /\ req[c].pc # "lock"
        BY <1>t, <2>3, <3>1, <4>1 DEF LocksApart
      <4>2. CASE RowFree(c, e, req[c].t)
        BY <2>3, <3>1, <4>2 DEF RowFree
      <4> QED BY <1>n, <2>3, <3>1, <4>1, <4>2
    <3> QED BY <3>1
  <2>4. LocksApart'
    <3> SUFFICES ASSUME NEW a \in Clients, NEW b \in Clients, a # b, req'[a].t = req'[b].t,
                        req'[a].pc # "lock", req'[b].pc # "lock"
                 PROVE  req'[a].rows \cap req'[b].rows = {}
      BY DEF LocksApart
    <3>1. CASE a = c
      BY <1>n, <2>3, <3>1
    <3>2. CASE b = c
      BY <1>n, <2>3, <3>2
    <3>3. CASE a # c /\ b # c
      BY <1>n, <1>t, <3>3 DEF LocksApart
    <3> QED BY <3>1, <3>2, <3>3
  <2> QED BY <2>1, <2>2, <2>4
<1>f. ASSUME NEW R, NEW pc, req' = [req EXCEPT ![c].rows = R, ![c].pc = pc]
      PROVE  /\ req'[c].rows = R /\ req'[c].pc = pc /\ req'[c].op = req[c].op /\ req'[c].x = req[c].x
             /\ req'[c].t = req[c].t /\ req'[c].seen = req[c].seen
             /\ \A d \in Clients \ {c} : req'[d] = req[d]
  BY <1>f, <1>t DEF Request
<1>1. CASE CountOwners(c)
  <2>1. req' = [req EXCEPT ![c].rows = Owners(req[c].t), ![c].pc = "lock"] /\ req[c].op \in {"role", "remove"}
    BY <1>1 DEF CountOwners
  <2> QED BY <1>f, <1>n, <2>1
<1>2. CASE isLastOwner(c)
  <2> DEFINE held == {e \in req[c].rows : mem[e][req[c].t] = "owner"}
  <2>1. End(c) \/ (/\ req' = [req EXCEPT ![c].rows = held, ![c].pc = "write"]
                   /\ ~(Cardinality(held) <= 1))
    BY <1>2 DEF isLastOwner
  <2>2. /\ req[c].pc = "lock" /\ \A e \in held : RowFree(c, e, req[c].t)
        /\ req[c].op \in {"role", "remove"}
    BY <1>2, <1>t DEF isLastOwner, RemovalInv
  <2>3. ASSUME ~(Cardinality(held) <= 1), NEW y \in Users PROVE \E e \in held : e # y
    <3>1. SUFFICES ASSUME \A e \in held : e = y PROVE FALSE
      OBVIOUS
    <3>2. CASE held = {}
      <4>1. Cardinality({}) = 0
        BY FS_EmptySet
      <4> HIDE DEF held
      <4> QED BY <2>3, <3>2, <4>1
    <3>3. CASE held # {}
      <4>1. held = {y}
        BY <3>1, <3>3
      <4>2. Cardinality({y}) = 1
        BY FS_Singleton
      <4> HIDE DEF held
      <4> QED BY <2>3, <4>1, <4>2
    <3> QED BY <3>2, <3>3
  <2>4. \A e \in held : mem[e][req[c].t] = "owner"
    OBVIOUS
  <2> HIDE DEF held
  <2>5. ASSUME req' = [req EXCEPT ![c].rows = held, ![c].pc = "write"], ~(Cardinality(held) <= 1)
        PROVE  (\A d \in Clients : RemovalInv(d))' /\ LocksApart'
    <3>1. \A y \in Users : \E e \in held : e # y /\ mem[e][req[c].t] = "owner"
      BY <2>3, <2>4, <2>5
    <3>2. /\ req'[c].rows = held /\ req'[c].pc = "write" /\ req'[c].op = req[c].op /\ req'[c].x = req[c].x
          /\ req'[c].t = req[c].t /\ req'[c].seen = req[c].seen
          /\ \A d \in Clients \ {c} : req'[d] = req[d]
      BY <1>f, <2>5
    <3> HIDE DEF RemovalInv, LocksApart, RowFree
    <3> QED BY <1>n, <2>2, <3>1, <3>2
  <2> QED BY <1>e, <2>1, <2>5
<1>3. CASE DeleteMembership(c)
  <2>1. /\ req[c].op = "remove" /\ req[c].pc = "write" /\ RowFree(c, req[c].x, req[c].t)
        /\ End(c) \/ req' = [req EXCEPT ![c].rows = req[c].rows \cup {req[c].x}, ![c].pc = "tally"]
    BY <1>3, <1>t DEF DeleteMembership
  <2>2. ASSUME req' = [req EXCEPT ![c].rows = req[c].rows \cup {req[c].x}, ![c].pc = "tally"]
        PROVE  (\A d \in Clients : RemovalInv(d))' /\ LocksApart'
    <3>1. req[c].seen = "owner" =>
            \A y \in Users : \E e \in req[c].rows \cup {req[c].x} : e # y /\ mem[e][req[c].t] = "owner"
      BY <1>t, <2>1 DEF RemovalInv, Backed
    <3> DEFINE R == req[c].rows \cup {req[c].x}
    <3>2. /\ req'[c].rows = R /\ req'[c].pc = "tally" /\ req'[c].op = req[c].op /\ req'[c].x = req[c].x
          /\ req'[c].t = req[c].t /\ req'[c].seen = req[c].seen
          /\ \A d \in Clients \ {c} : req'[d] = req[d]
      BY <1>f, <2>2
    <3>3. /\ req[c].x \in R
          /\ \A e \in R : (e \in req[c].rows /\ req[c].pc # "lock") \/ RowFree(c, e, req[c].t)
      BY <2>1
    <3>4. req[c].seen = "owner" => \A y \in Users : \E e \in R : e # y /\ mem[e][req[c].t] = "owner"
      BY <3>1
    <3> HIDE DEF R
    <3> QED BY <1>n, <2>1, <3>2, <3>3, <3>4
  <2> QED BY <1>e, <2>1, <2>2
<1>4. CASE CountForUser(c)
  <2>1. PICK pc \in {"commit", "erase"} : Goto(c, pc)
    BY <1>4 DEF CountForUser
  <2>2. req[c].op = "remove" /\ req[c].pc = "tally"
    BY <1>4 DEF CountForUser
  <2>3. /\ req'[c].pc = pc /\ req'[c].op = req[c].op /\ req'[c].x = req[c].x
        /\ req'[c].t = req[c].t /\ req'[c].seen = req[c].seen /\ req'[c].rows = req[c].rows
        /\ \A d \in Clients \ {c} : req'[d] = req[d]
    BY <1>t, <2>1, OneRequest
  <2> QED BY <1>n, <1>t, <2>2, <2>3 DEF RemovalInv, Backed
<1> QED BY <1>1, <1>2, <1>3, <1>4

\* Locking the invites to replace, or the users table.
LEMMA HoldingKept ==
  ASSUME MembershipInv, NEW c \in Clients, InviteAdmin(c) \/ LockUsers(c) \/ CountUsers(c)
  PROVE  /\ (\A d \in Clients : RemovalInv(d))' /\ LocksApart'
         /\ ReplacesInv' /\ BootstrapInv'
<1> USE DEF Places
<1>t. /\ TypeOK /\ req \in [Clients -> Request] /\ req[c] \in Request /\ RemovalInv(c)
      /\ ReplacesInv /\ BootstrapInv
  BY DEF MembershipInv, TypeOK
<1>m. UNCHANGED <<mem, inv, user>>
  BY DEF InviteAdmin, LockUsers, CountUsers
<1>o. OwnersKept
  BY <1>m DEF OwnersKept
<1>r. ASSUME Rowless(req'[c]), \A d \in Clients \ {c} : req'[d] = req[d]
      PROVE  (\A d \in Clients : RemovalInv(d))' /\ LocksApart'
  <2>1. \A d \in Clients : req'[d] = req[d] \/ Rowless(req'[d])
    BY <1>r
  <2> QED BY <1>o, <2>1, RemovalKept
<1>s. ASSUME req'[c].op # "invite", \A d \in Clients \ {c} : req'[d] = req[d]
      PROVE  ReplacesInv'
  BY <1>s, <1>t, <1>m DEF ReplacesInv
<1>b. ASSUME ~HoldsUsers(c)', \A d \in Clients \ {c} : req'[d] = req[d]
      PROVE  BootstrapInv'
  BY <1>b, <1>t, <1>m DEF BootstrapInv, HoldsUsers, Exists
<1>1. CASE InviteAdmin(c)
  <2>1. PICK a \in Users, e \in Users, t \in Tenants, r \in InviteRoles :
          /\ \A i \in Invites : inv[i].state \in Unused /\ inv[i].e = e /\ inv[i].t = t => InviteFree(i)
          /\ Begin(c, [NoRequest EXCEPT !.op = "invite", !.pc = "write", !.x = e, !.t = t, !.by = a, !.role = r,
                      !.inv = {i \in Invites : inv[i].state \in Unused /\ inv[i].e = e /\ inv[i].t = t}])
    BY <1>1 DEF InviteAdmin
  <2> DEFINE I == {i \in Invites : inv[i].state \in Unused /\ inv[i].e = e /\ inv[i].t = t}
  <2>2. req'[c] = [NoRequest EXCEPT !.op = "invite", !.pc = "write", !.x = e, !.t = t, !.by = a, !.role = r,
                      !.inv = I] /\ \A d \in Clients \ {c} : req'[d] = req[d]
    BY <1>t, <2>1 DEF Begin
  <2>3. \A i \in I : inv[i].state \in Unused /\ InviteFree(i)
    BY <2>1
  <2> HIDE DEF I
  <2>4. req'[c].op = "invite" /\ req'[c].inv = I /\ Rowless(req'[c]) /\ ~HoldsUsers(c)'
    BY <2>2 DEF NoRequest, Rowless, HoldsUsers
  <2>5. ASSUME NEW d \in Clients, d # c, req[d].op = "invite" PROVE I \cap req[d].inv = {}
    BY <2>3, <2>5 DEF InviteFree
  <2>6. ReplacesInv'
    BY <1>t, <1>m, <2>2, <2>3, <2>4, <2>5 DEF ReplacesInv
  <2> QED BY <1>r, <1>b, <2>2, <2>4, <2>6
<1>2. CASE LockUsers(c)
  <2>1. /\ req[c].op = "bootstrap" /\ UsersFree /\ Goto(c, "users")
    BY <1>2 DEF LockUsers
  <2>2. /\ req'[c].pc = "users" /\ req'[c].op = "bootstrap" /\ Rowless(req'[c])
        /\ \A d \in Clients \ {c} : req'[d] = req[d]
    BY <1>t, <2>1, OneRequest DEF Rowless, RemovalInv
  <2>3. \A d \in Clients \ {c} : ~HoldsUsers(d)'
    BY <2>1, <2>2 DEF UsersFree, HoldsUsers
  <2>4. BootstrapInv'
    BY <2>2, <2>3 DEF BootstrapInv, HoldsUsers
  <2> QED BY <1>r, <1>s, <2>2, <2>4
<1>3. CASE CountUsers(c)
  <2>1. CASE End(c)
    <3>1. Quiet(req'[c]) /\ \A d \in Clients \ {c} : req'[d] = req[d]
      BY <1>t, <2>1, OneRequest, QuietNoRequest
    <3>2. Rowless(req'[c]) /\ req'[c].op # "invite" /\ ~HoldsUsers(c)'
      BY <3>1 DEF Quiet, HoldsUsers
    <3> QED BY <1>r, <1>s, <1>b, <3>1, <3>2
  <2>2. CASE Goto(c, "insert") /\ \A e \in Users : ~Exists(e)
    <3>1. req[c].op = "bootstrap" /\ HoldsUsers(c)
      BY <1>3 DEF CountUsers, HoldsUsers
    <3>2. /\ req'[c].pc = "insert" /\ req'[c].op = "bootstrap" /\ Rowless(req'[c])
          /\ \A d \in Clients \ {c} : req'[d] = req[d]
      BY <1>t, <2>2, <3>1, OneRequest DEF Rowless, RemovalInv
    <3>3. \A d \in Clients \ {c} : ~HoldsUsers(d)'
      BY <1>t, <3>1, <3>2 DEF BootstrapInv, HoldsUsers
    <3>4. \A e \in Users : ~Exists(e)'
      BY <1>m, <2>2 DEF Exists
    <3>5. BootstrapInv'
      BY <3>2, <3>3, <3>4 DEF BootstrapInv, HoldsUsers
    <3> QED BY <1>r, <1>s, <3>2, <3>5
  <2> QED BY <1>3, <2>1, <2>2 DEF CountUsers
<1> QED BY <1>1, <1>2, <1>3

\* Locking rows touches neither invites nor the users table.
LEMMA LockingElse ==
  ASSUME MembershipInv, NEW c \in Clients,
         CountOwners(c) \/ isLastOwner(c) \/ DeleteMembership(c) \/ CountForUser(c)
  PROVE  ReplacesInv' /\ BootstrapInv'
<1> USE DEF Places
<1>t. /\ TypeOK /\ req \in [Clients -> Request] /\ req[c] \in Request /\ RemovalInv(c)
      /\ ReplacesInv /\ BootstrapInv
  BY DEF MembershipInv, TypeOK
<1>m. UNCHANGED <<inv, user>> /\ req[c].op \in {"role", "remove"}
  BY <1>t DEF CountOwners, isLastOwner, DeleteMembership, CountForUser, RemovalInv
<1>1. /\ req'[c].op \in {"role", "remove", "none"}
      /\ \A d \in Clients \ {c} : req'[d] = req[d]
  <2>1. CASE End(c)
    BY <1>t, <2>1, OneRequest DEF NoRequest
  <2>2. ASSUME NEW R, NEW pc, req' = [req EXCEPT ![c].rows = R, ![c].pc = pc]
        PROVE  req'[c].op = req[c].op /\ \A d \in Clients \ {c} : req'[d] = req[d]
    BY <1>t, <2>2 DEF Request
  <2>3. CASE CountForUser(c)
    BY <1>t, <1>m, <2>3, OneRequest DEF CountForUser
  <2>4. CASE CountOwners(c)
    BY <1>m, <2>2, <2>4 DEF CountOwners
  <2>5. CASE isLastOwner(c)
    BY <1>m, <2>1, <2>2, <2>5, ZenonT(30) DEF isLastOwner
  <2>6. CASE DeleteMembership(c)
    <3>1. End(c) \/ req' = [req EXCEPT ![c].rows = req[c].rows \cup {req[c].x}, ![c].pc = "tally"]
      BY <1>t, <2>6 DEF DeleteMembership
    <3> QED BY <1>m, <2>1, <2>2, <3>1
  <2> QED BY <2>3, <2>4, <2>5, <2>6
<1>2. ReplacesInv'
  BY <1>t, <1>m, <1>1 DEF ReplacesInv
<1>3. BootstrapInv'
  BY <1>t, <1>m, <1>1 DEF BootstrapInv, HoldsUsers, Exists
<1> QED BY <1>2, <1>3

-----------------------------------------------------------------------------
LEMMA MembershipInit == Init => MembershipInv
<1> SUFFICES ASSUME Init PROVE MembershipInv
  OBVIOUS
<1>1. \A c \in Clients : req[c] = NoRequest
  BY DEF Init
<1>2. \A c \in Clients : /\ req[c].op = "none" /\ req[c].pc = "count" /\ req[c].rows = {}
                         /\ req[c].seen = "none"
  BY <1>1 DEF NoRequest
<1> QED BY <1>2, MembershipTypesInit
        DEF MembershipInv, RemovalInv, LocksApart, ReplacesInv, BootstrapInv, HoldsUsers

LEMMA MembershipNext == MembershipInv /\ [Next]_vars => MembershipInv'
<1> SUFFICES ASSUME MembershipInv, [Next]_vars PROVE MembershipInv'
  OBVIOUS
<1>t. TypeOK /\ (\A c \in Clients : RemovalInv(c)) /\ inv \in [Invites -> Invite]
  BY DEF MembershipInv, TypeOK
<1>1. ASSUME NEW c \in Clients, MemberStep(c) \/ InviteStep(c) \/ SignupStep(c) \/ Fail(c)
      PROVE  MembershipInv'
  <2>1. TypeOK'
    <3>1. CASE Fail(c)
      BY <1>t, <3>1, OneRequest DEF Fail, TypeOK
    <3> QED BY <1>1, <1>t, <3>1, MemberTypes, InviteTypes, SignupTypes
  <2>2. CASE Ordinary(c)
    <3>1. \A d \in Clients : req'[d] = req[d] \/ Rowless(req'[d])
      BY <2>2, OrdinaryRequest DEF Quiet
    <3>2. (\A d \in Clients : RemovalInv(d))' /\ LocksApart'
      BY <2>2, <3>1, OrdinaryOwners, RemovalKept
    <3> QED BY <2>1, <2>2, <3>2, OrdinaryReplaces, OrdinaryBootstrap DEF MembershipInv
  <2>3. CASE CountOwners(c) \/ isLastOwner(c) \/ DeleteMembership(c) \/ CountForUser(c)
    BY <2>1, <2>3, LockingKept, LockingElse DEF MembershipInv
  <2>4. CASE InviteAdmin(c) \/ LockUsers(c) \/ CountUsers(c)
    BY <2>1, <2>4, HoldingKept DEF MembershipInv
  <2> QED BY <1>1, <2>2, <2>3, <2>4 DEF MemberStep, InviteStep, SignupStep, Ordinary
<1>2. ASSUME NEW i \in Invites, ResendInvite(i) \/ CancelInvite(i) \/ Expire(i)
      PROVE  MembershipInv'
  <2>1. TypeOK'
    BY <1>2, <1>t, OutsideTypes
  <2>2. UNCHANGED <<user, mem, req>>
    BY <1>2 DEF ResendInvite, CancelInvite, Expire
  <2>3. (\A c \in Clients : RemovalInv(c))' /\ LocksApart' /\ BootstrapInv'
    BY <2>2 DEF MembershipInv, RemovalInv, Backed, LocksApart, BootstrapInv, HoldsUsers, Exists
  <2>4. ASSUME NEW j \in Invites, inv[j].state \in Unused, j # i \/ ~InviteFree(i)
        PROVE  inv'[j].state \in Unused
    BY <1>2, <1>t, <2>4 DEF ResendInvite, CancelInvite, Expire, Invite, Unused
  <2>5. ReplacesInv /\ \A c \in Clients : req[c].inv \subseteq Invites
    BY DEF MembershipInv, TypeOK, Request
  <2>6. \A c \in Clients : req[c].op = "invite" => \A j \in req[c].inv : inv'[j].state \in Unused
    BY <2>4, <2>5 DEF ReplacesInv, InviteFree
  <2>7. ReplacesInv'
    BY <2>2, <2>5, <2>6 DEF ReplacesInv
  <2> QED BY <2>1, <2>3, <2>7 DEF MembershipInv
<1>3. CASE UNCHANGED vars
  BY <1>3 DEF vars, MembershipInv, TypeOK, RemovalInv, Backed, LocksApart, ReplacesInv, BootstrapInv,
     HoldsUsers, Exists
<1> QED BY <1>1, <1>2, <1>3 DEF Next

\* The statement of LastOwnerKept for one request.
OwnerLeft(c) ==
  (/\ req[c].seen = "owner" /\ req'[c].op = "none"
   /\ mem[req[c].x][req[c].t] = "owner" /\ mem'[req[c].x][req[c].t] # "owner")
  => \E e \in Users : mem'[e][req[c].t] = "owner"

\* A request that takes an owner away holds the row of another one.
LEMMA OwnerLeftStep ==
  ASSUME MembershipInv, [Next]_vars, NEW c \in Clients
  PROVE  OwnerLeft(c)
<1> SUFFICES ASSUME req[c].seen = "owner", req'[c].op = "none",
                    mem[req[c].x][req[c].t] = "owner", mem'[req[c].x][req[c].t] # "owner"
             PROVE  \E e \in Users : mem'[e][req[c].t] = "owner"
  BY DEF OwnerLeft
<1>t. /\ mem \in [Users -> [Tenants -> Roles \cup {"none"}]] /\ RemovalInv(c)
      /\ req[c].rows \subseteq Users
  BY DEF MembershipInv, TypeOK, Request
<1>o. req[c].op \in {"role", "remove"} /\ req[c].x \in Users /\ req[c].t \in Tenants
  BY <1>t DEF RemovalInv
<1>1. PICK d \in Clients : Ordinary(d) /\ ~UNCHANGED mem
  <2>1. ~UNCHANGED mem
    OBVIOUS
  <2>2. ASSUME NEW d \in Clients,
               \/ CountOwners(d) \/ isLastOwner(d) \/ DeleteMembership(d) \/ CountForUser(d)
               \/ InviteAdmin(d) \/ LockUsers(d) \/ CountUsers(d)
        PROVE  UNCHANGED mem
    BY <2>2 DEF CountOwners, isLastOwner, DeleteMembership, CountForUser, InviteAdmin, LockUsers, CountUsers
  <2>3. ASSUME NEW i \in Invites, ResendInvite(i) \/ CancelInvite(i) \/ Expire(i) PROVE UNCHANGED mem
    BY <2>3 DEF ResendInvite, CancelInvite, Expire
  <2>4. ~UNCHANGED vars
    BY <2>1 DEF vars
  <2>5. ASSUME NEW d \in Clients, MemberStep(d) \/ InviteStep(d) \/ SignupStep(d) \/ Fail(d)
        PROVE  Ordinary(d)
    BY <2>1, <2>2, <2>5 DEF MemberStep, InviteStep, SignupStep, Ordinary
  <2> QED BY <2>1, <2>3, <2>4, <2>5 DEF Next
<1>2. d = c
  <2>1. d # c => req'[c] = req[c]
    BY <1>1, OrdinaryRequest
  <2> QED BY <1>o, <2>1
<1>3. UpdateRoleCommit(c) \/ DeleteCommit(c) \/ DeleteUser(c)
  BY <1>1, <1>2, <1>o DEF Ordinary, UpdateRole, Delete, InviteCreate, AcceptInvite, ClaimForUse,
     acceptInviteForNewUser, CreateMembership, Signup, signupNewUser, createTenantAndOwnerMembership,
     issueAndSendVerification, ResendVerification, Verify, MarkEmailVerified, Bootstrap, BootstrapFirst,
     DeleteTenant, SoftDelete, Fail
<1>4. PICK e \in req[c].rows : e # req[c].x /\ mem[e][req[c].t] = "owner"
  BY <1>3, <1>o, <1>t DEF UpdateRoleCommit, DeleteCommit, DeleteUser, RemovalInv, Backed
<1>5. PICK f : mem' = [mem EXCEPT ![req[c].x] = f]
  <2>1. CASE UpdateRoleCommit(c)
    <3>1. mem' = [mem EXCEPT ![req[c].x][req[c].t] = req[c].role]
      BY <1>1, <2>1 DEF UpdateRoleCommit
    <3>2. mem' = [mem EXCEPT ![req[c].x] = [mem[req[c].x] EXCEPT ![req[c].t] = req[c].role]]
      BY <3>1
    <3> QED BY <3>2
  <2>2. CASE DeleteCommit(c)
    <3>1. mem' = [mem EXCEPT ![req[c].x] = [mem[req[c].x] EXCEPT ![req[c].t] = "none"]]
      BY <2>2 DEF DeleteCommit
    <3> QED BY <3>1
  <2>3. CASE DeleteUser(c)
    BY <1>1, <2>3 DEF DeleteUser
  <2> QED BY <1>3, <2>1, <2>2, <2>3
<1>6. e \in Users /\ mem'[e] = mem[e]
  BY <1>t, <1>4, <1>5
<1> QED BY <1>4, <1>6

\* A spent invite is left alone.
LEMMA SpentStep ==
  ASSUME MembershipInv, [Next]_vars, NEW i \in Invites, inv[i].state \in Spent
  PROVE  inv'[i] = inv[i]
<1>t. inv \in [Invites -> Invite] /\ ReplacesInv /\ \A d \in Clients : req[d].inv \subseteq Invites
  BY DEF MembershipInv, TypeOK, Request
<1>s. inv[i].state \notin Unused /\ inv[i].state # "none"
  BY DEF Spent, Unused
<1>1. ASSUME NEW c \in Clients, MemberStep(c) \/ InviteStep(c) \/ SignupStep(c) \/ Fail(c)
      PROVE  inv'[i] = inv[i]
  <2>1. CASE InviteCreate(c)
    <3>1. PICK n \in Invites :
            /\ inv[n].state = "none"
            /\ \A j \in Invites : j # n /\ j \notin req[c].inv => inv'[j] = inv[j]
      BY <2>1 DEF InviteCreate
    <3>2. i \notin req[c].inv
      BY <1>t, <1>s, <2>1 DEF InviteCreate, ReplacesInv
    <3> QED BY <1>s, <3>1, <3>2
  <2>2. CASE ClaimForUse(c)
    <3>1. PICK j \in req[c].inv :
            inv' = inv \/ (inv[j].state = "pending" /\ inv' = [inv EXCEPT ![j] = Used(j, "claimed")])
      BY <2>2 DEF ClaimForUse, Claimed
    <3>2. CASE inv' = inv
      BY <3>2
    <3>3. CASE inv[j].state = "pending" /\ inv' = [inv EXCEPT ![j] = Used(j, "claimed")]
      BY <1>s, <1>t, <3>3 DEF Unused
    <3> QED BY <3>1, <3>2, <3>3
  <2>3. InviteCreate(c) \/ ClaimForUse(c) \/ UNCHANGED inv
    <3>1. MemberStep(c) => UNCHANGED inv
      BY DEF MemberStep, UpdateRole, Delete, CountOwners, isLastOwner, UpdateRoleCommit, DeleteMembership,
         CountForUser, DeleteCommit, DeleteUser
    <3>2. SignupStep(c) \/ Fail(c) => UNCHANGED inv
      BY DEF SignupStep, Signup, signupNewUser, createTenantAndOwnerMembership, issueAndSendVerification,
         ResendVerification, Verify, MarkEmailVerified, Bootstrap, LockUsers, CountUsers, BootstrapFirst,
         DeleteTenant, SoftDelete, Fail
    <3>3. InviteStep(c) => InviteCreate(c) \/ ClaimForUse(c) \/ UNCHANGED inv
      BY DEF InviteStep, InviteAdmin, AcceptInvite, acceptInviteForNewUser, CreateMembership
    <3> QED BY <1>1, <3>1, <3>2, <3>3
  <2> QED BY <2>1, <2>2, <2>3
<1>2. ASSUME NEW j \in Invites, ResendInvite(j) \/ CancelInvite(j) \/ Expire(j)
      PROVE  inv'[i] = inv[i]
  <2>1. j # i
    BY <1>2, <1>s DEF ResendInvite, CancelInvite, Expire, Unused
  <2> QED BY <1>2, <1>t, <2>1 DEF ResendInvite, CancelInvite, Expire
<1>3. CASE UNCHANGED vars
  BY <1>3 DEF vars
<1> QED BY <1>1, <1>2, <1>3 DEF Next

-----------------------------------------------------------------------------
\* Accounts, tenants, memberships, invites and requests keep their shape,
\* whatever routes run at once.
THEOREM MembershipTypes == Spec => []TypeOK
<1>1. MembershipInv => TypeOK
  BY DEF MembershipInv
<1> QED BY <1>1, MembershipInit, MembershipNext, PTL DEF Spec

\* ADM-06: a demotion or removal that read its target as an owner leaves the
\* tenant an owner, for any number of them at once (isLastOwner's FOR UPDATE).
THEOREM OwnerNeverLast == Spec => LastOwnerKept
<1>1. MembershipInv /\ [Next]_vars =>
      [\A c \in Clients :
        LET r == req[c] IN
        (/\ r.seen = "owner" /\ req'[c].op = "none"
         /\ mem[r.x][r.t] = "owner" /\ mem'[r.x][r.t] # "owner")
        => \E e \in Users : mem'[e][r.t] = "owner"]_vars
  BY OwnerLeftStep DEF OwnerLeft
<1> QED BY <1>1, MembershipInit, MembershipNext, PTL DEF Spec, LastOwnerKept

\* An invite that has been accepted, cancelled or replaced stays what it is:
\* ClaimForUse, Refresh and InvalidatePendingForEmail look at used_at again.
THEOREM InviteSpentOnce == Spec => InviteEndsOnce
<1>1. MembershipInv /\ [Next]_vars =>
      [\A i \in Invites : inv[i].state \in Spent => inv'[i] = inv[i]]_vars
  BY SpentStep
<1> QED BY <1>1, MembershipInit, MembershipNext, PTL DEF Spec, InviteEndsOnce

\* SHD-17: under the table lock of BootstrapFirst the count is still right
\* when the user is inserted.
THEOREM BootstrapFirstUser == Spec => BootstrapsOnlyEmpty
<1>1. MembershipInv /\ [Next]_vars =>
      [\A c \in Clients :
        (req[c].op = "bootstrap" /\ req[c].pc = "insert" /\ req'[c].pc = "tenant")
        => \A e \in Users : ~Exists(e)]_vars
  BY DEF MembershipInv, BootstrapInv
<1> QED BY <1>1, MembershipInit, MembershipNext, PTL DEF Spec, BootstrapsOnlyEmpty

=============================================================================
