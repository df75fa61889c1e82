---------------------------- MODULE PagesProofs ----------------------------
(***************************************************************************)
(* Safety of Pages for every number of requests, replicas, pages, services, *)
(* groups and domains, and for every mix of requests.                      *)
(***************************************************************************)
EXTENDS Pages, TLAPS

\* What SetServices has validated.
NewSound(new) ==
  \A s \in Services : new[s].on /\ new[s].par # Null =>
    new[s].par \in Services /\ new[new[s].par].on /\ new[new[s].par].par = Null

\* A request at its place: who deletes links or groups, what it found.
RequestShape(c) ==
  /\ req[c].op \notin {"set", "delete_page"} =>
       req[c].old = {} /\ req[c].pc \notin {"wait", "insert", "groups", "page"}
  /\ req[c].op # "delete_page" => req[c].pc \notin {"groups", "page"}
  /\ req[c].pc # "page" => req[c].gs = {}
  /\ req[c].pc = "clear" => req[c].old = {}
  /\ req[c].op \in {"set", "delete_page"} => req[c].p \in Pages /\ page[req[c].p].state # "none"
  /\ req[c].op = "set" => NewSound(req[c].new)
  /\ req[c].op = "attach" => req[c].p \in Pages /\ req[c].d \in Domains
  /\ req[c].op = "softdelete" => req[c].s \in Services
  /\ req[c].op = "verify" => req[c].d \in Domains

\* The links a request deletes are the page's, and none that stays depends on
\* one of them.
OldInv(c) ==
  req[c].p \in Pages =>
    /\ req[c].old \subseteq Linked(req[c].p)
    /\ \A s \in Linked(req[c].p) \ req[c].old : link[req[c].p][s].par \notin req[c].old

\* The links a request has inserted: none is there already, and what they
\* refer to is.
NewInv(c) ==
  Inserted(c) => \A s \in Submitted(req[c].new) :
    /\ PageExists(req[c].p) /\ (s \in Linked(req[c].p) => s \in req[c].old)
    /\ req[c].new[s].g # Null => group[req[c].new[s].g] = req[c].p

\* Rows are locked by one transaction.
LinksApart ==
  \A c, d \in Clients : c # d /\ req[c].p = req[d].p /\ req[c].p \in Pages =>
    /\ HoldsLinks(c, req[c].p) /\ HoldsLinks(d, req[d].p) => req[c].old \cap req[d].old = {}
    /\ Inserted(c) /\ Inserted(d) => Submitted(req[c].new) \cap Submitted(req[d].new) = {}

GroupsHeld ==
  \A c \in Clients : \A g \in req[c].gs :
    /\ group[g] = req[c].p
    /\ \A d \in Clients : (d # c => g \notin req[d].gs) /\ (Inserted(d) => g \notin GroupsOf(req[d].new))

\* The service that is being deleted is on no page, and on the way to none.
ServicesHeld ==
  \A c \in Clients : req[c].op = "softdelete" =>
    Detached(req[c].s) /\ ~ServiceShared(req[c].s)

\* The page that gets its domain has none, and nobody else gives it one.
PagesHeld ==
  \A c \in Clients : req[c].op = "attach" =>
    /\ PageExists(req[c].p) /\ page[req[c].p].dom = Null
    /\ \A d \in Clients : req[d].op = "attach" /\ req[d].p = req[c].p => d = c

\* Only pages that exist have a domain; a published one has a certificate.
DomainsInv ==
  \A p \in Pages : /\ ~PageExists(p) => page[p].dom = Null
                   /\ page[p].state = "published" => page[p].dom \in Domains /\ key[page[p].dom].v > 0

IssueInv ==
  \A r \in Replicas : /\ iss[r].pc # "idle" => iss[r].h \in Domains
                      /\ iss[r].pc = "obtained" => key[iss[r].h].v > 0

\* A row the backfill has rewritten is as it read it.
BackfillInv ==
  /\ \A r \in Replicas : ~back[r].on => back[r].done = {}
  /\ \A q, r \in Replicas : back[q].on /\ back[r].on => q = r
  /\ \A r \in Replicas : \A d \in back[r].done :
       back[r].seen[d] > 0 /\ key[d] = [v |-> back[r].seen[d], sealed |-> FALSE]

LinksInv == /\ \A c \in Clients : RequestShape(c) /\ OldInv(c) /\ NewInv(c)
            /\ LinksApart /\ GroupsHeld /\ PlacementsSound
TLSInv == DomainsInv /\ IssueInv /\ BackfillInv
PagesInv == TypeOK /\ LinksInv /\ ServicesHeld /\ PagesHeld /\ TLSInv

-----------------------------------------------------------------------------
LEMMA PagesConstants ==
  /\ Null \notin Pages /\ Null \notin Services /\ Null \notin Groups /\ Null \notin Domains
  /\ "none" \notin Pages /\ "gone" \notin Pages
  /\ MaxRequests \in Nat /\ MaxIssues \in Nat /\ MaxCrashes \in Nat
  BY PagesAssumption

Issuing == [h : Domains \cup {Null}, renew : BOOLEAN,
            pc : {"idle", "lock", "obtain", "obtained", "failed"}]
Backfill == [on : BOOLEAN, seen : [Domains -> Nat], done : SUBSET Domains]
Key == [v : Nat, sealed : BOOLEAN]
States == {"none", "draft", "pending_tls", "published", "tls_failed", "gone"}
Points == {"clear", "wait", "insert", "groups", "page", "commit"}

LEMMA BlankTypes ==
  NoPlace \in Place /\ NoRequest \in Request /\ NoIssue \in Issuing /\ NoBackfill \in Backfill
<1>1. NoPlace \in Place
  BY DEF NoPlace, Place
<1>2. [s \in Services |-> NoPlace] \in [Services -> Place]
  BY <1>1
<1>3. NoRequest \in Request
  BY <1>2 DEF NoRequest, Request
<1> QED BY <1>1, <1>3 DEF NoIssue, Issuing, NoBackfill, Backfill

LEMMA PagesTypesInit == Init => TypeOK
<1> SUFFICES ASSUME Init PROVE TypeOK
  OBVIOUS
<1>1. PICK p \in Pages, old \in SUBSET Pages, d \in Domains : Stored(p, old, d)
  BY DEF Init
<1>2. page \in [Pages -> Page]
  BY <1>1 DEF Stored, Page
<1>3. dom \in [Domains -> {"none", "pending", "verified", "error", "gone"}]
  BY <1>1 DEF Stored
<1>4. key \in [Domains -> [v : Nat, sealed : BOOLEAN]]
  BY <1>1 DEF Stored
<1>5. link \in [Pages -> [Services -> Place]]
  BY BlankTypes DEF Init
<1>6. group \in [Groups -> Pages \cup {"none", "gone"}] /\ svc \in [Services -> {"live", "deleted"}]
  BY DEF Init
<1>7. req \in [Clients -> Request] /\ iss \in [Replicas -> Issuing] /\ back \in [Replicas -> Backfill]
  BY BlankTypes DEF Init
<1>8. begun \in 0..MaxRequests /\ issued \in 0..MaxIssues /\ crashes \in 0..MaxCrashes /\ load \in Workloads
  BY PagesConstants DEF Init
<1> QED BY <1>2, <1>3, <1>4, <1>5, <1>6, <1>7, <1>8 DEF TypeOK, Issuing, Backfill

\* A request that begins, moves or ends: its type, and the others'.
LEMMA OneRequest ==
  ASSUME TypeOK, NEW c \in Clients
  PROVE  /\ End(c) => /\ req' \in [Clients -> Request] /\ begun' \in 0..MaxRequests
                      /\ req'[c] = NoRequest /\ \A d \in Clients \ {c} : req'[d] = req[d]
         /\ \A r \in Request : Begin(c, r) =>
              /\ req' \in [Clients -> Request] /\ begun' \in 0..MaxRequests
              /\ req'[c] = r /\ \A d \in Clients \ {c} : req'[d] = req[d]
         /\ \A pc \in Points : Goto(c, pc) =>
              /\ req' \in [Clients -> Request] /\ begun' \in 0..MaxRequests
              /\ req'[c] = [req[c] EXCEPT !.pc = pc] /\ \A d \in Clients \ {c} : req'[d] = req[d]
<1>1. req \in [Clients -> Request] /\ req[c] \in Request /\ begun \in 0..MaxRequests
  BY DEF TypeOK
<1>2. ASSUME NEW pc \in Points, Goto(c, pc)
      PROVE  /\ req' \in [Clients -> Request] /\ begun' \in 0..MaxRequests
             /\ req'[c] = [req[c] EXCEPT !.pc = pc] /\ \A d \in Clients \ {c} : req'[d] = req[d]
  <2>1. req' = [req EXCEPT ![c].pc = pc]
    BY <1>2 DEF Goto
  <2>2. /\ req'[c] = [req[c] EXCEPT !.pc = pc] /\ \A d \in Clients \ {c} : req'[d] = req[d]
        /\ req' = [req EXCEPT ![c] = [req[c] EXCEPT !.pc = pc]]
    BY <1>1, <2>1
  <2>3. [req[c] EXCEPT !.pc = pc] \in Request
    BY <1>1 DEF Request, Points
  <2> QED BY <1>1, <1>2, <2>2, <2>3 DEF Goto
<1>3. ASSUME NEW r \in Request, Begin(c, r)
      PROVE  /\ req' \in [Clients -> Request] /\ begun' \in 0..MaxRequests
             /\ req'[c] = r /\ \A d \in Clients \ {c} : req'[d] = req[d]
  <2>1. begun' \in 0..MaxRequests
    BY <1>1, <1>3, PagesConstants DEF Begin, Counted
  <2> QED BY <1>1, <1>3, <2>1 DEF Begin
<1> QED BY <1>1, <1>2, <1>3, BlankTypes DEF End

\* A transaction that commits: those who wait for its rows lose them.
LEMMA CommittedTypes ==
  ASSUME TypeOK, NEW c \in Clients, Committed(c)
  PROVE  /\ req' \in [Clients -> Request] /\ begun' \in 0..MaxRequests /\ req'[c] = NoRequest
         /\ \A d \in Clients \ {c} :
              IF req[d].pc = "wait" /\ req[d].p = req[c].p
              THEN req'[d] = [req[d] EXCEPT !.old = req[d].old \ req[c].old] ELSE req'[d] = req[d]
<1>1. req \in [Clients -> Request] /\ begun \in 0..MaxRequests
  BY DEF TypeOK
<1>2. req' = [d \in Clients |-> IF d = c THEN NoRequest
                               ELSE IF req[d].pc = "wait" /\ req[d].p = req[c].p
                               THEN [req[d] EXCEPT !.old = req[d].old \ req[c].old] ELSE req[d]]
  BY <1>1 DEF Committed, Request
<1>3. \A d \in Clients : [req[d] EXCEPT !.old = req[d].old \ req[c].old] \in Request
  BY <1>1, SMTT(30) DEF Request
<1>4. req' \in [Clients -> Request]
  BY <1>1, <1>2, <1>3, BlankTypes
<1> QED BY <1>1, <1>2, <1>4 DEF Committed

\* Forgetting parents keeps the shape of what is asked for.
LEMMA SanitizedTypes ==
  ASSUME NEW ask \in Placements, NEW E
  PROVE  Sanitized(ask, E) \in [Services -> Place]
<1>1. \A s \in Services : ask[s] \in Place
  BY BlankTypes DEF Placements, Place
<1>2. \A s \in Services : [ask[s] EXCEPT !.par = Null] \in Place
  BY <1>1 DEF Place
<1> QED BY <1>1, <1>2 DEF Sanitized

LEMMA PlacementTypes ==
  ASSUME TypeOK, NEW c \in Clients, RequestShape(c), PlacementStep(c)
  PROVE  TypeOK'
<1> USE DEF Points
<1>t. /\ req \in [Clients -> Request] /\ req[c] \in Request /\ begun \in 0..MaxRequests
      /\ link \in [Pages -> [Services -> Place]] /\ svc \in [Services -> {"live", "deleted"}]
  BY DEF TypeOK
<1>1. CASE SetServices(c)
  <2>1. PICK p \in Pages, ask \in Placements :
          Begin(c, [NoRequest EXCEPT !.op = "set", !.p = p, !.new = Sanitized(ask, Linked(p))])
    BY <1>1 DEF SetServices
  <2> DEFINE new == Sanitized(ask, Linked(p))
  <2>2. new \in [Services -> Place] /\ Begin(c, [NoRequest EXCEPT !.op = "set", !.p = p, !.new = new])
    BY <2>1, SanitizedTypes
  <2> HIDE DEF new
  <2>3. [NoRequest EXCEPT !.op = "set", !.p = p, !.new = new] \in Request
    BY <2>2, BlankTypes DEF Request
  <2>4. req' \in [Clients -> Request] /\ begun' \in 0..MaxRequests
    BY <2>2, <2>3, OneRequest
  <2> QED BY <1>1, <2>4 DEF SetServices, tlsVars, TypeOK
<1>2. CASE ClearLinks(c)
  <2> DEFINE L == Linked(req[c].p)
  <2>1. req' = [req EXCEPT ![c] = [req[c] EXCEPT !.old = L, !.pc = "wait"]]
    BY <1>2, <1>t DEF ClearLinks
  <2>2. L \in SUBSET Services
    BY DEF Linked
  <2> HIDE DEF L
  <2>3. [req[c] EXCEPT !.old = L, !.pc = "wait"] \in Request
    BY <1>t, <2>2 DEF Request
  <2>4. req' \in [Clients -> Request]
    BY <1>t, <2>1, <2>3
  <2> QED BY <1>2, <2>4 DEF ClearLinks, tlsVars, TypeOK
<1>3. CASE Cleared(c)
  BY <1>3, OneRequest DEF Cleared, tlsVars, TypeOK
<1>4. CASE InsertLinks(c)
  <2>1. req' \in [Clients -> Request] /\ begun' \in 0..MaxRequests
    BY <1>4, OneRequest DEF InsertLinks
  <2> QED BY <1>4, <2>1 DEF InsertLinks, tlsVars, TypeOK
<1>5. CASE CommitLinks(c)
  <2>1. req' \in [Clients -> Request] /\ begun' \in 0..MaxRequests
    BY <1>5, CommittedTypes DEF CommitLinks
  <2>2. link' \in [Pages -> [Services -> Place]]
    <3> DEFINE r == req[c]
               L == [s \in Services |-> IF r.new[s].on THEN r.new[s]
                                        ELSE IF s \in r.old THEN NoPlace ELSE link[r.p][s]]
    <3>1. r.new \in [Services -> Place] /\ r.p \in Pages
      BY <1>5, <1>t DEF CommitLinks, Inserted, RequestShape, Request
    <3>2. L \in [Services -> Place]
      BY <1>t, <3>1, BlankTypes
    <3>3. link' = [link EXCEPT ![r.p] = L]
      BY <1>5, <1>t, <3>1 DEF CommitLinks
    <3> HIDE DEF L, r
    <3> QED BY <1>t, <3>2, <3>3
  <2> QED BY <1>5, <2>1, <2>2 DEF CommitLinks, tlsVars, TypeOK
<1>6. CASE DeleteService(c)
  <2>1. PICK s \in Services : Begin(c, [NoRequest EXCEPT !.op = "softdelete", !.pc = "commit", !.s = s])
    BY <1>6 DEF DeleteService
  <2>2. [NoRequest EXCEPT !.op = "softdelete", !.pc = "commit", !.s = s] \in Request
    BY BlankTypes DEF Request
  <2>3. req' \in [Clients -> Request] /\ begun' \in 0..MaxRequests
    BY <2>1, <2>2, OneRequest
  <2> QED BY <1>6, <2>3 DEF DeleteService, tlsVars, TypeOK
<1>7. CASE SoftDeleteCommit(c)
  <2>1. svc' \in [Services -> {"live", "deleted"}]
    BY <1>7, <1>t DEF SoftDeleteCommit
  <2> QED BY <1>7, <2>1, OneRequest DEF SoftDeleteCommit, tlsVars, TypeOK
<1> QED BY <1>1, <1>2, <1>3, <1>4, <1>5, <1>6, <1>7 DEF PlacementStep

LEMMA PageTypes ==
  ASSUME TypeOK, NEW c \in Clients, RequestShape(c), PageStep(c)
  PROVE  TypeOK'
<1> USE DEF Points
<1>t. /\ req \in [Clients -> Request] /\ req[c] \in Request /\ begun \in 0..MaxRequests
      /\ link \in [Pages -> [Services -> Place]] /\ page \in [Pages -> Page]
      /\ group \in [Groups -> Pages \cup {"none", "gone"}]
      /\ dom \in [Domains -> {"none", "pending", "verified", "error", "gone"}]
  BY DEF TypeOK
<1>1. CASE DeletePage(c)
  <2>1. PICK p \in Pages : Begin(c, [NoRequest EXCEPT !.op = "delete_page", !.p = p])
    BY <1>1 DEF DeletePage
  <2>2. [NoRequest EXCEPT !.op = "delete_page", !.p = p] \in Request
    BY BlankTypes DEF Request
  <2>3. req' \in [Clients -> Request] /\ begun' \in 0..MaxRequests
    BY <2>1, <2>2, OneRequest
  <2> QED BY <1>1, <2>3 DEF DeletePage, tlsVars, TypeOK
<1>2. CASE DeleteGroups(c)
  <2> DEFINE G == {g \in Groups : group[g] = req[c].p}
  <2>1. req' = [req EXCEPT ![c] = [req[c] EXCEPT !.gs = G, !.pc = "page"]]
    BY <1>2, <1>t DEF DeleteGroups
  <2>2. G \in SUBSET Groups
    OBVIOUS
  <2> HIDE DEF G
  <2>3. [req[c] EXCEPT !.gs = G, !.pc = "page"] \in Request
    BY <1>t, <2>2 DEF Request
  <2>4. req' \in [Clients -> Request]
    BY <1>t, <2>1, <2>3
  <2> QED BY <1>2, <2>4 DEF DeleteGroups, tlsVars, TypeOK
<1>3. CASE DeletePageCommit(c)
  <2>1. req' \in [Clients -> Request] /\ begun' \in 0..MaxRequests
    BY <1>3, CommittedTypes, OneRequest DEF DeletePageCommit
  <2>2. CASE UNCHANGED <<page, link, group>>
    BY <1>3, <2>1, <2>2 DEF DeletePageCommit, tlsVars, TypeOK
  <2>3. CASE /\ page' = [page EXCEPT ![req[c].p] = [state |-> "gone", dom |-> Null]]
             /\ link' = [link EXCEPT ![req[c].p] = [s \in Services |-> NoPlace]]
             /\ group' = [g \in Groups |-> IF g \in req[c].gs THEN "gone" ELSE group[g]]
    <3>1. [state |-> "gone", dom |-> Null] \in Page /\ [s \in Services |-> NoPlace] \in [Services -> Place]
      BY BlankTypes DEF Page
    <3>2. page' \in [Pages -> Page] /\ link' \in [Pages -> [Services -> Place]]
      BY <1>t, <2>3, <3>1
    <3>3. group' \in [Groups -> Pages \cup {"none", "gone"}]
      BY <1>t, <2>3
    <3> QED BY <1>3, <2>1, <3>2, <3>3 DEF DeletePageCommit, tlsVars, TypeOK
  <2> QED BY <1>3, <2>2, <2>3 DEF DeletePageCommit
<1>4. CASE LockPage(c)
  <2>1. PICK p \in Pages, d \in Domains :
          Begin(c, [NoRequest EXCEPT !.op = "attach", !.pc = "commit", !.p = p, !.d = d])
    BY <1>4 DEF LockPage
  <2>2. [NoRequest EXCEPT !.op = "attach", !.pc = "commit", !.p = p, !.d = d] \in Request
    BY BlankTypes DEF Request
  <2>3. req' \in [Clients -> Request] /\ begun' \in 0..MaxRequests
    BY <2>1, <2>2, OneRequest
  <2> QED BY <1>4, <2>3 DEF LockPage, tlsVars, TypeOK
<1>5. CASE AttachDomain(c)
  <2>1. req[c].d \in Domains
    BY <1>5 DEF AttachDomain, RequestShape
  <2>2. [state |-> "pending_tls", dom |-> req[c].d] \in Page
    BY <2>1 DEF Page
  <2>3. page' = page \/ page' = [page EXCEPT ![req[c].p] = [state |-> "pending_tls", dom |-> req[c].d]]
    BY <1>5 DEF AttachDomain, Attached
  <2>4. page' \in [Pages -> Page]
    BY <1>t, <2>2, <2>3
  <2> QED BY <1>5, <2>4, OneRequest DEF AttachDomain, tlsVars, TypeOK
<1>6. CASE Verify(c)
  <2>1. PICK d \in Domains, res \in {"verified", "error"} :
          Begin(c, [NoRequest EXCEPT !.op = "verify", !.pc = "commit", !.d = d, !.res = res])
    BY <1>6 DEF Verify, mapDomainVerificationResult
  <2>2. [NoRequest EXCEPT !.op = "verify", !.pc = "commit", !.d = d, !.res = res] \in Request
    BY BlankTypes DEF Request
  <2>3. req' \in [Clients -> Request] /\ begun' \in 0..MaxRequests
    BY <2>1, <2>2, OneRequest
  <2> QED BY <1>6, <2>3 DEF Verify, tlsVars, TypeOK
<1>7. CASE SetVerificationResult(c)
  <2>1. req[c].res \in {"pending", "verified", "error"}
    BY <1>t DEF Request
  <2>2. dom' \in [Domains -> {"none", "pending", "verified", "error", "gone"}]
    BY <1>7, <1>t, <2>1 DEF SetVerificationResult
  <2> QED BY <1>7, <2>2, OneRequest DEF SetVerificationResult, tlsVars, TypeOK
<1>8. CASE Fail(c)
  BY <1>8, OneRequest DEF Fail, tlsVars, TypeOK
<1> QED BY <1>1, <1>2, <1>3, <1>4, <1>5, <1>6, <1>7, <1>8 DEF PageStep

LEMMA CreationTypes ==
  ASSUME TypeOK, CreateGroup \/ DeleteGroup \/ CreatePage \/ CreateDomain \/ DeleteDomain
  PROVE  TypeOK'
<1>t. /\ begun \in 0..MaxRequests
      /\ link \in [Pages -> [Services -> Place]] /\ page \in [Pages -> Page]
      /\ group \in [Groups -> Pages \cup {"none", "gone"}]
      /\ dom \in [Domains -> {"none", "pending", "verified", "error", "gone"}]
  BY DEF TypeOK
<1>b. \A kind : Counted(kind) => begun' \in 0..MaxRequests
  BY <1>t, PagesConstants DEF Counted
<1>1. CASE CreateGroup
  <2>1. group' \in [Groups -> Pages \cup {"none", "gone"}]
    BY <1>1, <1>t DEF CreateGroup, InsertGroup
  <2> QED BY <1>1, <1>b, <2>1 DEF CreateGroup, tlsVars, TypeOK
<1>2. CASE DeleteGroup
  <2>1. PICK g \in Groups :
          /\ group' = [group EXCEPT ![g] = "gone"]
          /\ link' = [p \in Pages |-> [s \in Services |->
                IF link[p][s].g = g THEN [link[p][s] EXCEPT !.g = Null] ELSE link[p][s]]]
    BY <1>2 DEF DeleteGroup, DeleteGroupRow
  <2>2. group' \in [Groups -> Pages \cup {"none", "gone"}]
    BY <1>t, <2>1
  <2>3. \A p \in Pages, s \in Services : link[p][s] \in Place /\ [link[p][s] EXCEPT !.g = Null] \in Place
    BY <1>t DEF Place
  <2>4. link' \in [Pages -> [Services -> Place]]
    BY <2>1, <2>3
  <2> QED BY <1>2, <1>b, <2>2, <2>4 DEF DeleteGroup, tlsVars, TypeOK
<1>3. CASE CreatePage
  <2>1. PICK p \in Pages, S \in SUBSET Services, d \in Domains \cup {Null} :
          /\ page' = [page EXCEPT ![p] = [state |-> "draft", dom |-> d]]
          /\ link' = [link EXCEPT ![p] = [s \in Services |-> [NoPlace EXCEPT !.on = s \in S]]]
    BY <1>3 DEF CreatePage, InsertPage
  <2>2. [state |-> "draft", dom |-> d] \in Page
    BY DEF Page
  <2>3. ASSUME NEW s \in Services PROVE [NoPlace EXCEPT !.on = s \in S] \in Place
    <3>1. CASE s \in S
      <4>1. [NoPlace EXCEPT !.on = TRUE] \in Place
        BY DEF NoPlace, Place
      <4>2. (s \in S) = TRUE
        BY <3>1
      <4> QED BY <4>1, <4>2
    <3>2. CASE s \notin S
      <4>1. [NoPlace EXCEPT !.on = FALSE] \in Place
        BY DEF NoPlace, Place
      <4>2. (s \in S) = FALSE
        BY <3>2
      <4> QED BY <4>1, <4>2
    <3> QED BY <3>1, <3>2
  <2>4. page' \in [Pages -> Page] /\ link' \in [Pages -> [Services -> Place]]
    BY <1>t, <2>1, <2>2, <2>3
  <2> QED BY <1>3, <1>b, <2>4 DEF CreatePage, tlsVars, TypeOK
<1>4. CASE CreateDomain
  <2>1. dom' \in [Domains -> {"none", "pending", "verified", "error", "gone"}]
    BY <1>4, <1>t DEF CreateDomain, InsertDomain
  <2> QED BY <1>4, <1>b, <2>1 DEF CreateDomain, tlsVars, TypeOK
<1>5. CASE DeleteDomain
  <2>1. dom' \in [Domains -> {"none", "pending", "verified", "error", "gone"}]
    BY <1>5, <1>t DEF DeleteDomain, DeleteDomainRow
  <2> QED BY <1>5, <1>b, <2>1 DEF DeleteDomain, tlsVars, TypeOK
<1> QED BY <1>1, <1>2, <1>3, <1>4, <1>5

-----------------------------------------------------------------------------
(* Certificates and the backfill.                                           *)

CertStep(r) == Issue(r) \/ IssueStep(r) \/ EncryptLegacyKeys(r) \/ SealStep(r) \/ Crash(r)

LEMMA CertificateTypes ==
  ASSUME TypeOK, TLSInv, NEW r \in Replicas, CertStep(r)
  PROVE  TypeOK'
<1>t. /\ iss \in [Replicas -> Issuing] /\ iss[r] \in Issuing
      /\ back \in [Replicas -> Backfill] /\ back[r] \in Backfill
      /\ key \in [Domains -> Key] /\ issued \in 0..MaxIssues /\ crashes \in 0..MaxCrashes
      /\ page \in [Pages -> Page]
  BY DEF TypeOK, Issuing, Backfill, Key
<1>o. ASSUME iss' \in [Replicas -> Issuing], back' \in [Replicas -> Backfill], key' \in [Domains -> Key],
             issued' \in 0..MaxIssues, crashes' \in 0..MaxCrashes, page' \in [Pages -> Page],
             UNCHANGED <<load, svc, group, link, dom, req, begun>>
      PROVE  TypeOK'
  BY <1>o DEF TypeOK, Issuing, Backfill, Key
<1>1. CASE Issue(r)
  <2>1. PICK d \in Domains : iss' = [iss EXCEPT ![r] = [h |-> d, renew |-> key[d].v > 0, pc |-> "lock"]]
    BY <1>1 DEF Issue
  <2>2. [h |-> d, renew |-> key[d].v > 0, pc |-> "lock"] \in Issuing
    <3>1. (key[d].v > 0) \in BOOLEAN
      OBVIOUS
    <3>2. \A b \in BOOLEAN : [h |-> d, renew |-> b, pc |-> "lock"] \in Issuing
      BY DEF Issuing
    <3> QED BY <3>1, <3>2
  <2>3. iss' \in [Replicas -> Issuing]
    BY <1>t, <2>1, <2>2
  <2>4. issued' \in 0..MaxIssues
    BY <1>1, <1>t, PagesConstants DEF Issue
  <2> QED BY <1>1, <1>o, <1>t, <2>3, <2>4 DEF Issue
<1>pc. ASSUME NEW pc \in {"idle", "lock", "obtain", "obtained", "failed"}, iss' = [iss EXCEPT ![r].pc = pc]
       PROVE  iss' \in [Replicas -> Issuing]
  <2>1. [iss[r] EXCEPT !.pc = pc] \in Issuing
    BY <1>t DEF Issuing
  <2>2. iss' = [iss EXCEPT ![r] = [iss[r] EXCEPT !.pc = pc]]
    BY <1>pc, <1>t
  <2> QED BY <1>t, <2>1, <2>2
<1>no. iss' = [iss EXCEPT ![r] = NoIssue] => iss' \in [Replicas -> Issuing]
  BY <1>t, BlankTypes
<1>2. CASE Lock(r)
  <2>1. iss' \in [Replicas -> Issuing]
    BY <1>2, <1>no, <1>pc DEF Lock
  <2> QED BY <1>2, <1>o, <1>t, <2>1 DEF Lock
<1>3. CASE Store(r)
  <2>1. iss[r].h \in Domains
    BY <1>3 DEF Store, TLSInv, IssueInv
  <2>2. key' = [key EXCEPT ![iss[r].h] = [v |-> key[iss[r].h].v + 1, sealed |-> TRUE]]
    BY <1>3, <1>t, <2>1 DEF Store
  <2>3. [v |-> key[iss[r].h].v + 1, sealed |-> TRUE] \in Key
    BY <1>t, <2>1 DEF Key
  <2>4. key' \in [Domains -> Key]
    BY <1>t, <2>2, <2>3
  <2> QED BY <1>3, <1>o, <1>pc, <1>t, <2>4 DEF Store
<1>4. CASE Refused(r)
  BY <1>4, <1>o, <1>pc, <1>t DEF Refused
<1>5. CASE OnEvent(r)
  <2>1. PICK state \in States : page' = Mark(iss[r].h, state)
    BY <1>5 DEF OnEvent, States
  <2>2. \A p \in Pages : page[p] \in Page /\ [page[p] EXCEPT !.state = state] \in Page
    BY <1>t DEF Page, States
  <2>3. page' \in [Pages -> Page]
    BY <2>1, <2>2 DEF Mark
  <2> QED BY <1>5, <1>o, <1>no, <1>t, <2>3 DEF OnEvent, Unlock
<1>bk. back' = [back EXCEPT ![r] = NoBackfill] => back' \in [Replicas -> Backfill]
  BY <1>t, BlankTypes
<1>6. CASE Crash(r)
  <2>1. crashes' \in 0..MaxCrashes
    BY <1>6, <1>t, PagesConstants DEF Crash
  <2> QED BY <1>6, <1>o, <1>no, <1>bk, <1>t, <2>1 DEF Crash
<1>7. CASE EncryptLegacyKeys(r)
  <2> DEFINE seen == [d \in Domains |-> IF key[d].sealed THEN 0 ELSE key[d].v]
  <2>1. back' = [back EXCEPT ![r] = [on |-> TRUE, done |-> {}, seen |-> seen]]
    BY <1>7 DEF EncryptLegacyKeys
  <2>2. seen \in [Domains -> Nat]
    BY <1>t DEF Key
  <2> HIDE DEF seen
  <2>3. [on |-> TRUE, done |-> {}, seen |-> seen] \in Backfill
    BY <2>2 DEF Backfill
  <2>4. back' \in [Replicas -> Backfill]
    BY <1>t, <2>1, <2>3
  <2> QED BY <1>7, <1>o, <1>t, <2>4 DEF EncryptLegacyKeys
<1>8. CASE SealRow(r)
  <2>1. PICK d \in Domains :
          back' = [back EXCEPT ![r].done = @ \cup {d}] \/ back' = [back EXCEPT ![r].seen[d] = 0]
    BY <1>8 DEF SealRow
  <2>2. \/ back' = [back EXCEPT ![r] = [back[r] EXCEPT !.done = back[r].done \cup {d}]]
        \/ back' = [back EXCEPT ![r] = [back[r] EXCEPT !.seen = [back[r].seen EXCEPT ![d] = 0]]]
    BY <1>t, <2>1 DEF Backfill
  <2>3. [back[r].seen EXCEPT ![d] = 0] \in [Domains -> Nat] /\ back[r].done \cup {d} \in SUBSET Domains
    BY <1>t DEF Backfill
  <2>4. /\ [back[r] EXCEPT !.done = back[r].done \cup {d}] \in Backfill
        /\ [back[r] EXCEPT !.seen = [back[r].seen EXCEPT ![d] = 0]] \in Backfill
    BY <1>t, <2>3 DEF Backfill
  <2>5. back' \in [Replicas -> Backfill]
    BY <1>t, <2>2, <2>4
  <2> QED BY <1>8, <1>o, <1>t, <2>5 DEF SealRow
<1>9. CASE CommitSealed(r)
  <2>1. \A d \in Domains : [v |-> back[r].seen[d], sealed |-> TRUE] \in Key
    BY <1>t DEF Key, Backfill
  <2>2. key' \in [Domains -> Key]
    BY <1>9, <1>t, <2>1 DEF CommitSealed
  <2> QED BY <1>9, <1>o, <1>bk, <1>t, <2>2 DEF CommitSealed
<1> QED BY <1>1, <1>2, <1>3, <1>4, <1>5, <1>6, <1>7, <1>8, <1>9 DEF CertStep, IssueStep, SealStep

\* A stored key is renewed or sealed, never put back.
LEMMA KeysStep ==
  ASSUME TypeOK, TLSInv, NEW r \in Replicas, CertStep(r), NEW d \in Domains
  PROVE  key'[d].v >= key[d].v /\ (key[d].sealed => key'[d].sealed)
<1>t. key \in [Domains -> Key] /\ key[d].v \in Nat /\ back[r] \in Backfill
  BY DEF TypeOK, Key, Backfill
<1>1. CASE UNCHANGED key
  BY <1>1, <1>t
<1>2. CASE Store(r)
  <2>1. iss[r].h \in Domains
    BY <1>2 DEF Store, TLSInv, IssueInv
  <2>2. key' = [key EXCEPT ![iss[r].h] = [v |-> key[iss[r].h].v + 1, sealed |-> TRUE]]
    BY <1>2, <1>t, <2>1 DEF Store
  <2>3. CASE d = iss[r].h
    <3>1. key'[d] = [v |-> key[d].v + 1, sealed |-> TRUE]
      BY <1>t, <2>2, <2>3
    <3> QED BY <1>t, <3>1
  <2>4. CASE d # iss[r].h
    <3>1. key'[d] = key[d]
      BY <1>t, <2>2, <2>4
    <3> QED BY <1>t, <3>1
  <2> QED BY <2>3, <2>4
<1>3. CASE CommitSealed(r)
  <2>1. CASE d \in back[r].done
    <3>1. key[d] = [v |-> back[r].seen[d], sealed |-> FALSE]
      BY <2>1 DEF TLSInv, BackfillInv
    <3>2. key'[d] = [v |-> back[r].seen[d], sealed |-> TRUE]
      BY <1>3, <2>1 DEF CommitSealed
    <3>3. key'[d].v = key[d].v /\ key'[d].sealed
      BY <3>1, <3>2
    <3> QED BY <1>t, <3>3
  <2>2. CASE d \notin back[r].done
    <3>1. key'[d] = key[d]
      BY <1>3, <2>2 DEF CommitSealed
    <3> QED BY <1>t, <3>1
  <2> QED BY <2>1, <2>2
<1>4. UNCHANGED key \/ Store(r) \/ CommitSealed(r)
  BY DEF CertStep, IssueStep, SealStep, Issue, Lock, Refused, OnEvent, EncryptLegacyKeys, SealRow, Crash
<1> QED BY <1>1, <1>2, <1>3, <1>4

LEMMA IssueKept ==
  ASSUME TypeOK, TLSInv, NEW r \in Replicas, CertStep(r)
  PROVE  IssueInv'
<1>t. iss \in [Replicas -> Issuing] /\ key \in [Domains -> Key] /\ key' \in [Domains -> Key]
  BY CertificateTypes DEF TypeOK, Issuing, Key
<1>k. \A d \in Domains : key[d].v > 0 => key'[d].v > 0
  <2>1. ASSUME NEW d \in Domains PROVE key[d].v > 0 => key'[d].v > 0
    <3>1. key[d].v \in Nat /\ key'[d].v \in Nat /\ key'[d].v >= key[d].v
      BY <1>t, KeysStep DEF Key
    <3> QED BY <3>1
  <2> QED BY <2>1
<1>i. IssueInv
  BY DEF TLSInv
<1> SUFFICES ASSUME NEW q \in Replicas
             PROVE  /\ iss'[q].pc # "idle" => iss'[q].h \in Domains
                    /\ iss'[q].pc = "obtained" => key'[iss'[q].h].v > 0
  BY DEF IssueInv
<1>1. CASE iss'[q] = iss[q]
  BY <1>1, <1>i, <1>k DEF IssueInv
<1>2. CASE iss'[q] = NoIssue
  BY <1>2 DEF NoIssue
<1>3. CASE q = r /\ Issue(r)
  <2>1. PICK d \in Domains : iss' = [iss EXCEPT ![r] = [h |-> d, renew |-> key[d].v > 0, pc |-> "lock"]]
    BY <1>3 DEF Issue
  <2>2. iss'[q] = [h |-> d, renew |-> key[d].v > 0, pc |-> "lock"]
    BY <1>3, <1>t, <2>1
  <2> QED BY <2>2
<1>4. CASE q = r /\ (Lock(r) \/ Refused(r))
  <2>1. iss'[q] = NoIssue \/ (/\ iss'[q].h = iss[q].h /\ iss'[q].pc \in {"obtain", "failed"}
                              /\ iss[q].pc # "idle")
    BY <1>4, <1>t DEF Lock, Refused, Issuing
  <2> QED BY <1>2, <1>i, <2>1 DEF IssueInv
<1>5. CASE q = r /\ Store(r)
  <2>1. iss[r].h \in Domains /\ iss'[q].h = iss[r].h
    BY <1>5, <1>t, <1>i DEF Store, IssueInv, Issuing
  <2>2. key'[iss[r].h] = [v |-> key[iss[r].h].v + 1, sealed |-> TRUE]
    BY <1>5, <1>t, <2>1 DEF Store
  <2>3. key[iss[r].h].v \in Nat
    BY <1>t, <2>1 DEF Key
  <2>4. key'[iss[r].h].v > 0
    BY <2>2, <2>3
  <2> QED BY <2>1, <2>4
<1>6. \/ iss'[q] = iss[q] \/ iss'[q] = NoIssue
      \/ q = r /\ (Issue(r) \/ Lock(r) \/ Refused(r) \/ Store(r))
  BY <1>t DEF CertStep, IssueStep, SealStep, Issue, Lock, Store, Refused, OnEvent, Unlock,
     EncryptLegacyKeys, SealRow, CommitSealed, Crash
<1> QED BY <1>1, <1>2, <1>3, <1>4, <1>5, <1>6

LEMMA BackfillKept ==
  ASSUME TypeOK, TLSInv, NEW r \in Replicas, CertStep(r)
  PROVE  BackfillInv'
<1>t. /\ back \in [Replicas -> Backfill] /\ back[r] \in Backfill /\ key \in [Domains -> Key] /\ BackfillInv
      /\ \A q \in Replicas : back[q].done \subseteq Domains
  BY DEF TypeOK, Backfill, Key, TLSInv
<1>1. CASE UNCHANGED <<key, back>>
  BY <1>1, <1>t DEF BackfillInv
<1>2. CASE Store(r)
  <2>1. UNCHANGED back /\ \A q \in Replicas : \A d \in back[q].done : key'[d] = key[d]
    BY <1>2, <1>t DEF Store, KeyFree
  <2> QED BY <1>t, <2>1 DEF BackfillInv
<1>n. ASSUME back' = [back EXCEPT ![r] = NoBackfill], \A q \in Replicas \ {r} : \A d \in back[q].done : key'[d] = key[d]
      PROVE  BackfillInv'
  <2>1. ~back'[r].on /\ back'[r].done = {} /\ \A q \in Replicas \ {r} : back'[q] = back[q]
    BY <1>n, <1>t DEF NoBackfill
  <2> QED BY <1>n, <1>t, <2>1 DEF BackfillInv
<1>3. CASE Crash(r)
  BY <1>3, <1>n DEF Crash
<1>4. CASE CommitSealed(r)
  <2>1. \A q \in Replicas \ {r} : back[q].done = {}
    BY <1>4, <1>t DEF CommitSealed, BackfillInv
  <2> QED BY <1>4, <1>n, <2>1 DEF CommitSealed
<1>5. CASE EncryptLegacyKeys(r)
  <2>1. PICK seen : back' = [back EXCEPT ![r] = [on |-> TRUE, done |-> {}, seen |-> seen]]
    BY <1>5 DEF EncryptLegacyKeys
  <2>2. back'[r].done = {} /\ back'[r].on /\ \A q \in Replicas \ {r} : back'[q] = back[q]
    BY <1>t, <2>1
  <2>3. UNCHANGED key /\ \A q \in Replicas : ~back[q].on
    BY <1>5 DEF EncryptLegacyKeys
  <2> QED BY <1>t, <2>2, <2>3 DEF BackfillInv
<1>6. CASE SealRow(r)
  <2>1. PICK d \in Domains :
          /\ back[r].on /\ back[r].seen[d] > 0 /\ d \notin back[r].done
          /\ \/ key[d] = [v |-> back[r].seen[d], sealed |-> FALSE] /\ back' = [back EXCEPT ![r].done = @ \cup {d}]
             \/ back' = [back EXCEPT ![r].seen[d] = 0]
    BY <1>6 DEF SealRow
  <2>2. UNCHANGED key /\ \A q \in Replicas \ {r} : back'[q] = back[q]
    BY <1>6, <1>t, <2>1 DEF SealRow
  <2>3. back'[r].on
    BY <1>t, <2>1 DEF Backfill
  <2>4. \A e \in back'[r].done :
          back'[r].seen[e] > 0 /\ key[e] = [v |-> back'[r].seen[e], sealed |-> FALSE]
    <3>1. CASE key[d] = [v |-> back[r].seen[d], sealed |-> FALSE] /\ back' = [back EXCEPT ![r].done = @ \cup {d}]
      <4>1. back'[r].done = back[r].done \cup {d} /\ back'[r].seen = back[r].seen
        BY <1>t, <3>1 DEF Backfill
      <4>2. \A e \in back[r].done :
              back[r].seen[e] > 0 /\ key[e] = [v |-> back[r].seen[e], sealed |-> FALSE]
        BY <1>t DEF BackfillInv
      <4>3. ASSUME NEW e \in back'[r].done
            PROVE  back'[r].seen[e] > 0 /\ key[e] = [v |-> back'[r].seen[e], sealed |-> FALSE]
        <5>1. CASE e = d
          BY <2>1, <3>1, <4>1, <5>1
        <5>2. CASE e \in back[r].done
          BY <4>1, <4>2, <5>2
        <5> QED BY <4>1, <5>1, <5>2
      <4> QED BY <4>3
    <3>2. CASE back' = [back EXCEPT ![r].seen[d] = 0]
      <4>1. back'[r].done = back[r].done /\ back'[r].seen = [back[r].seen EXCEPT ![d] = 0]
        BY <1>t, <3>2 DEF Backfill
      <4>2. \A e \in back[r].done : back'[r].seen[e] = back[r].seen[e]
        BY <1>t, <2>1, <4>1 DEF Backfill
      <4> QED BY <1>t, <4>1, <4>2 DEF BackfillInv
    <3> QED BY <2>1, <3>1, <3>2
  <2> QED BY <1>t, <2>1, <2>2, <2>3, <2>4 DEF BackfillInv
<1>7. UNCHANGED <<key, back>> \/ Store(r) \/ Crash(r) \/ CommitSealed(r) \/ EncryptLegacyKeys(r) \/ SealRow(r)
  BY DEF CertStep, IssueStep, SealStep, Issue, Lock, Refused, OnEvent
<1> QED BY <1>1, <1>2, <1>3, <1>4, <1>5, <1>6, <1>7

LEMMA DomainsKept ==
  ASSUME TypeOK, TLSInv, NEW r \in Replicas, CertStep(r)
  PROVE  DomainsInv'
<1>t. /\ key \in [Domains -> Key] /\ key' \in [Domains -> Key] /\ page \in [Pages -> Page]
  BY CertificateTypes DEF TypeOK, Key
<1>k. \A d \in Domains : key[d].v > 0 => key'[d].v > 0
  <2>1. ASSUME NEW d \in Domains PROVE key[d].v > 0 => key'[d].v > 0
    <3>1. key[d].v \in Nat /\ key'[d].v \in Nat /\ key'[d].v >= key[d].v
      BY <1>t, KeysStep DEF Key
    <3> QED BY <3>1
  <2> QED BY <2>1
<1>i. IssueInv /\ DomainsInv
  BY DEF TLSInv
<1>1. CASE UNCHANGED page
  BY <1>1, <1>i, <1>k DEF DomainsInv, PageExists
<1>2. CASE OnEvent(r)
  <2>1. /\ iss[r].h \in Domains /\ UNCHANGED key
        /\ page' = Mark(iss[r].h, IF iss[r].pc = "obtained" THEN "published" ELSE "tls_failed")
    BY <1>2, <1>i DEF OnEvent, IssueInv
  <2>2. ASSUME NEW p \in Pages
        PROVE  /\ ~PageExists(p)' => page'[p].dom = Null
               /\ page'[p].state = "published" => page'[p].dom \in Domains /\ key'[page'[p].dom].v > 0
    <3>1. CASE page'[p] = page[p]
      BY <1>i, <1>k, <3>1 DEF DomainsInv, PageExists
    <3>2. CASE page[p].dom = iss[r].h
      <4>1. page'[p] = [page[p] EXCEPT !.state = IF iss[r].pc = "obtained" THEN "published" ELSE "tls_failed"]
        BY <2>1, <3>2 DEF Mark
      <4>2. /\ page'[p].dom = iss[r].h
            /\ page'[p].state = IF iss[r].pc = "obtained" THEN "published" ELSE "tls_failed"
        BY <1>t, <3>2, <4>1 DEF Page
      <4> QED BY <1>i, <2>1, <4>2 DEF PageExists, IssueInv
    <3> QED BY <2>1, <3>1, <3>2 DEF Mark
  <2> QED BY <2>2 DEF DomainsInv
<1>3. UNCHANGED page \/ OnEvent(r)
  BY DEF CertStep, IssueStep, SealStep, Issue, Lock, Refused, Store, EncryptLegacyKeys, SealRow, CommitSealed, Crash
<1> QED BY <1>1, <1>2, <1>3

-----------------------------------------------------------------------------
(* Links and groups.                                                        *)

\* A request that holds neither links nor groups.
Quiet(r) ==
  /\ r.old = {} /\ r.gs = {} /\ r.pc \in {"clear", "commit"} /\ (r.op = "set" => r.pc = "clear")
  /\ r.op \in {"set", "delete_page"} => r.p \in Pages /\ page[r.p].state # "none"
  /\ r.op = "set" => NewSound(r.new)
  /\ r.op = "attach" => r.p \in Pages /\ r.d \in Domains
  /\ r.op = "softdelete" => r.s \in Services
  /\ r.op = "verify" => r.d \in Domains

\* No page appears or disappears.
SamePages ==
  \A p \in Pages : /\ page'[p].state = "none" => page[p].state = "none"
                   /\ PageExists(p)' <=> PageExists(p)

LEMMA QuietNoRequest == Quiet(NoRequest)
  BY DEF Quiet, NoRequest

\* Requests that hold nothing come and go.
LEMMA QuietKeepsLinks ==
  ASSUME LinksInv, UNCHANGED <<link, group>>, SamePages,
         \A c \in Clients : req'[c] = req[c] \/ Quiet(req'[c])
  PROVE  LinksInv'
<1>i. /\ \A c \in Clients : RequestShape(c) /\ OldInv(c) /\ NewInv(c)
      /\ LinksApart /\ GroupsHeld /\ PlacementsSound
  BY DEF LinksInv
<1>1. ASSUME NEW c \in Clients, Quiet(req'[c])
      PROVE  RequestShape(c)' /\ OldInv(c)' /\ NewInv(c)' /\ ~Inserted(c)' /\ req'[c].old = {} /\ req'[c].gs = {}
  <2>1. ~Inserted(c)' /\ req'[c].old = {} /\ req'[c].gs = {}
    BY <1>1 DEF Quiet, Inserted
  <2>2. RequestShape(c)'
    BY <1>1 DEF Quiet, RequestShape, SamePages
  <2>3. OldInv(c)' /\ NewInv(c)'
    BY <2>1 DEF OldInv, NewInv
  <2> QED BY <2>1, <2>2, <2>3
<1>2. ASSUME NEW c \in Clients, req'[c] = req[c]
      PROVE  RequestShape(c)' /\ OldInv(c)' /\ NewInv(c)'
  <2>0. RequestShape(c) /\ OldInv(c) /\ NewInv(c)
    BY <1>i
  <2>1. RequestShape(c)'
    BY <1>2, <2>0 DEF RequestShape, SamePages
  <2>2. OldInv(c)'
    BY <1>2, <2>0 DEF OldInv, Linked
  <2>3. NewInv(c)'
    <3>1. Inserted(c) => req[c].p \in Pages
      BY <2>0 DEF Inserted, RequestShape
    <3> QED BY <1>2, <2>0, <3>1 DEF NewInv, Inserted, Linked, SamePages
  <2> QED BY <2>1, <2>2, <2>3
<1>3. LinksApart'
  <2> SUFFICES ASSUME NEW c \in Clients, NEW d \in Clients, c # d, req'[c].p = req'[d].p, req'[c].p \in Pages
               PROVE  /\ HoldsLinks(c, req[c].p)' /\ HoldsLinks(d, req[d].p)' => req'[c].old \cap req'[d].old = {}
                      /\ Inserted(c)' /\ Inserted(d)' => Submitted(req'[c].new) \cap Submitted(req'[d].new) = {}
    BY DEF LinksApart
  <2>1. CASE Quiet(req'[c]) \/ Quiet(req'[d])
    BY <1>1, <2>1
  <2>2. CASE req'[c] = req[c] /\ req'[d] = req[d]
    BY <1>i, <2>2 DEF LinksApart, HoldsLinks, Inserted
  <2> QED BY <2>1, <2>2
<1>4. GroupsHeld'
  <2> SUFFICES ASSUME NEW c \in Clients, NEW g \in req'[c].gs, NEW d \in Clients
               PROVE  /\ group'[g] = req'[c].p
                      /\ d # c => g \notin req'[d].gs
                      /\ Inserted(d)' => g \notin GroupsOf(req'[d].new)
    BY DEF GroupsHeld
  <2>1. req'[c] = req[c]
    BY <1>1
  <2>2. CASE Quiet(req'[d])
    BY <1>1, <1>i, <2>1, <2>2 DEF GroupsHeld
  <2>3. CASE req'[d] = req[d]
    BY <1>i, <2>1, <2>3 DEF GroupsHeld, Inserted
  <2> QED BY <2>2, <2>3
<1>5. PlacementsSound'
  BY <1>i DEF PlacementsSound, Linked, SamePages
<1> QED BY <1>1, <1>2, <1>3, <1>4, <1>5 DEF LinksInv

\* A link's and a placement's fields.
LEMMA LinkTypes ==
  ASSUME TypeOK
  PROVE  /\ \A p \in Pages, s \in Services :
              link[p][s].g \in Groups \cup {Null} /\ link[p][s].par \in Services \cup {Null}
         /\ \A c \in Clients, s \in Services :
              req[c].new[s].g \in Groups \cup {Null} /\ req[c].new[s].par \in Services \cup {Null}
         /\ \A c \in Clients : req[c].old \subseteq Services /\ req[c].gs \subseteq Groups
  BY DEF TypeOK, Request, Place

\* What passes validate has parents that are shown and have none.
LEMMA ValidSound ==
  ASSUME NEW new \in [Services -> Place], NEW G, validate(new, G)
  PROVE  NewSound(new)
<1>1. ASSUME NEW s \in Services, new[s].on, new[s].par # Null
      PROVE  new[s].par \in Services /\ new[new[s].par].on /\ new[new[s].par].par = Null
  <2>1. s \in Submitted(new)
    BY <1>1 DEF Submitted
  <2>2. new[s].par \in Parents(new)
    BY <1>1, <2>1 DEF Parents
  <2>3. new[s].par \in Submitted(new) /\ new[new[s].par].par = Null
    BY <2>2 DEF validate
  <2> QED BY <2>3 DEF Submitted
<1> QED BY <1>1 DEF NewSound

\* The handlers that hold neither links nor groups, or end.
Ordinary(c) ==
  \/ SetServices(c) \/ DeleteService(c) \/ SoftDeleteCommit(c) \/ DeletePage(c) \/ LockPage(c)
  \/ AttachDomain(c) \/ Verify(c) \/ SetVerificationResult(c) \/ Fail(c)

LEMMA OrdinaryRequest ==
  ASSUME PagesInv, NEW c \in Clients, Ordinary(c)
  PROVE  /\ Quiet(req'[c]) /\ \A d \in Clients \ {c} : req'[d] = req[d]
         /\ UNCHANGED <<link, group>>
<1>t. TypeOK /\ req \in [Clients -> Request]
  BY DEF PagesInv, TypeOK
<1>b. ASSUME NEW r, Begin(c, r)
      PROVE  req'[c] = r /\ \A d \in Clients \ {c} : req'[d] = req[d]
  BY <1>b, <1>t DEF Begin
<1>e. CASE End(c)
  <2>1. Quiet(req'[c]) /\ \A d \in Clients \ {c} : req'[d] = req[d]
    BY <1>e, <1>t, OneRequest, QuietNoRequest
  <2>2. UNCHANGED <<link, group>>
    BY DEF Ordinary, SetServices, DeleteService, SoftDeleteCommit, DeletePage, LockPage, AttachDomain, Verify,
       SetVerificationResult, Fail
  <2> QED BY <2>1, <2>2
<1>1. CASE SetServices(c)
  <2>1. PICK p \in Pages, ask \in Placements :
          /\ PageExists(p) /\ validate(Sanitized(ask, Linked(p)), validGroupIDs(p))
          /\ Begin(c, [NoRequest EXCEPT !.op = "set", !.p = p, !.new = Sanitized(ask, Linked(p))])
    BY <1>1 DEF SetServices
  <2> DEFINE new == Sanitized(ask, Linked(p))
             k == [NoRequest EXCEPT !.op = "set", !.p = p, !.new = new]
  <2>2. Begin(c, k)
    BY <2>1
  <2>3. new \in [Services -> Place] /\ validate(new, validGroupIDs(p))
    BY <2>1, SanitizedTypes
  <2> HIDE DEF new
  <2>4. NewSound(new)
    BY <2>3, ValidSound
  <2>5. Quiet(k)
    BY <2>1, <2>4 DEF NoRequest, Quiet, PageExists
  <2> HIDE DEF k
  <2> QED BY <1>1, <1>b, <2>2, <2>5 DEF SetServices
<1>2. CASE DeleteService(c)
  <2>1. PICK s \in Services : Begin(c, [NoRequest EXCEPT !.op = "softdelete", !.pc = "commit", !.s = s])
    BY <1>2 DEF DeleteService
  <2>2. Quiet([NoRequest EXCEPT !.op = "softdelete", !.pc = "commit", !.s = s])
    BY DEF NoRequest, Quiet
  <2> QED BY <1>2, <1>b, <2>1, <2>2 DEF DeleteService
<1>3. CASE DeletePage(c)
  <2>1. PICK p \in Pages : PageExists(p) /\ Begin(c, [NoRequest EXCEPT !.op = "delete_page", !.p = p])
    BY <1>3 DEF DeletePage
  <2>2. Quiet([NoRequest EXCEPT !.op = "delete_page", !.p = p])
    BY <2>1 DEF NoRequest, Quiet, PageExists
  <2> QED BY <1>3, <1>b, <2>1, <2>2 DEF DeletePage
<1>4. CASE LockPage(c)
  <2>1. PICK p \in Pages, d \in Domains :
          Begin(c, [NoRequest EXCEPT !.op = "attach", !.pc = "commit", !.p = p, !.d = d])
    BY <1>4 DEF LockPage
  <2>2. Quiet([NoRequest EXCEPT !.op = "attach", !.pc = "commit", !.p = p, !.d = d])
    BY DEF NoRequest, Quiet
  <2> QED BY <1>4, <1>b, <2>1, <2>2 DEF LockPage
<1>5. CASE Verify(c)
  <2>1. PICK d, res :
          /\ d \in Domains
          /\ Begin(c, [NoRequest EXCEPT !.op = "verify", !.pc = "commit", !.d = d, !.res = res])
    BY <1>5 DEF Verify
  <2>2. Quiet([NoRequest EXCEPT !.op = "verify", !.pc = "commit", !.d = d, !.res = res])
    BY <2>1 DEF NoRequest, Quiet
  <2> QED BY <1>5, <1>b, <2>1, <2>2 DEF Verify
<1>6. CASE SoftDeleteCommit(c) \/ AttachDomain(c) \/ SetVerificationResult(c) \/ Fail(c)
  BY <1>6, <1>e DEF SoftDeleteCommit, AttachDomain, SetVerificationResult, Fail
<1> QED BY <1>1, <1>2, <1>3, <1>4, <1>5, <1>6 DEF Ordinary

\* A page that gets its domain stays; nothing else touches pages.
LEMMA OrdinaryPages ==
  ASSUME PagesInv, NEW c \in Clients, Ordinary(c)
  PROVE  SamePages
<1>1. CASE UNCHANGED page
  BY <1>1 DEF SamePages, PageExists
<1>2. CASE AttachDomain(c)
  <2>1. /\ req[c].p \in Pages /\ PageExists(req[c].p) /\ page \in [Pages -> Page]
        /\ page' = page \/ page' = [page EXCEPT ![req[c].p] = [state |-> "pending_tls", dom |-> req[c].d]]
    BY <1>2 DEF AttachDomain, Attached, PagesInv, PagesHeld, LinksInv, RequestShape, TypeOK
  <2>2. \A p \in Pages : page'[p] = page[p] \/ (p = req[c].p /\ page'[p].state = "pending_tls")
    BY <2>1
  <2> QED BY <2>1, <2>2 DEF SamePages, PageExists
<1>3. UNCHANGED page \/ AttachDomain(c)
  BY DEF Ordinary, SetServices, DeleteService, SoftDeleteCommit, DeletePage, LockPage, Verify,
     SetVerificationResult, Fail
<1> QED BY <1>1, <1>2, <1>3

\* One request moves while it holds links or groups.
LEMMA OneMoves ==
  ASSUME LinksInv, UNCHANGED <<link, group, page>>, NEW c \in Clients,
         \A d \in Clients \ {c} : req'[d] = req[d],
         RequestShape(c)', OldInv(c)', NewInv(c)',
         \A d \in Clients \ {c} : req[d].p = req'[c].p /\ req[d].p \in Pages =>
           /\ HoldsLinks(c, req[c].p)' /\ HoldsLinks(d, req[d].p) => req'[c].old \cap req[d].old = {}
           /\ Inserted(c)' /\ Inserted(d) => Submitted(req'[c].new) \cap Submitted(req[d].new) = {},
         \A g \in req'[c].gs :
           /\ group[g] = req'[c].p /\ ~Inserted(c)'
           /\ \A d \in Clients \ {c} : g \notin req[d].gs /\ (Inserted(d) => g \notin GroupsOf(req[d].new)),
         Inserted(c)' => \A d \in Clients \ {c} : \A g \in req[d].gs : g \notin GroupsOf(req'[c].new)
  PROVE  LinksInv'
<1>i. /\ \A d \in Clients : RequestShape(d) /\ OldInv(d) /\ NewInv(d)
      /\ LinksApart /\ GroupsHeld /\ PlacementsSound
  BY DEF LinksInv
<1>1. ASSUME NEW d \in Clients \ {c} PROVE RequestShape(d)' /\ OldInv(d)' /\ NewInv(d)'
  <2>1. req'[d] = req[d] /\ RequestShape(d) /\ OldInv(d) /\ NewInv(d)
    BY <1>i, <1>1
  <2> QED BY <2>1 DEF RequestShape, OldInv, NewInv, Inserted, Linked, PageExists
<1>2. LinksApart'
  <2> SUFFICES ASSUME NEW a \in Clients, NEW d \in Clients, a # d, req'[a].p = req'[d].p, req'[a].p \in Pages
               PROVE  /\ HoldsLinks(a, req[a].p)' /\ HoldsLinks(d, req[d].p)' => req'[a].old \cap req'[d].old = {}
                      /\ Inserted(a)' /\ Inserted(d)' => Submitted(req'[a].new) \cap Submitted(req'[d].new) = {}
    BY DEF LinksApart
  <2>1. CASE a = c
    <3>1. req'[d] = req[d]
      BY <2>1
    <3>2. HoldsLinks(d, req[d].p)' = HoldsLinks(d, req[d].p) /\ Inserted(d)' = Inserted(d)
      BY <3>1 DEF HoldsLinks, Inserted
    <3> QED BY <2>1, <3>1, <3>2
  <2>2. CASE d = c
    <3>1. req'[a] = req[a]
      BY <2>2
    <3>2. HoldsLinks(a, req[a].p)' = HoldsLinks(a, req[a].p) /\ Inserted(a)' = Inserted(a)
      BY <3>1 DEF HoldsLinks, Inserted
    <3> QED BY <2>2, <3>1, <3>2
  <2>3. CASE a # c /\ d # c
    BY <1>i, <2>3 DEF LinksApart, HoldsLinks, Inserted
  <2> QED BY <2>1, <2>2, <2>3
<1>3. GroupsHeld'
  <2> SUFFICES ASSUME NEW a \in Clients, NEW g \in req'[a].gs, NEW d \in Clients
               PROVE  /\ group'[g] = req'[a].p
                      /\ d # a => g \notin req'[d].gs
                      /\ Inserted(d)' => g \notin GroupsOf(req'[d].new)
    BY DEF GroupsHeld
  <2>1. CASE a = c
    BY <2>1 DEF Inserted
  <2>2. CASE a # c /\ d = c
    BY <1>i, <2>2 DEF GroupsHeld
  <2>3. CASE a # c /\ d # c
    BY <1>i, <2>3 DEF GroupsHeld, Inserted
  <2> QED BY <2>1, <2>2, <2>3
<1>4. PlacementsSound'
  BY <1>i DEF PlacementsSound, Linked, PageExists
<1> QED BY <1>1, <1>2, <1>3, <1>4 DEF LinksInv

LEMMA ClearLinksKept ==
  ASSUME PagesInv, NEW c \in Clients, ClearLinks(c) \/ Cleared(c)
  PROVE  LinksInv'
<1> USE DEF Points
<1>t. /\ TypeOK /\ req \in [Clients -> Request] /\ req[c] \in Request
      /\ LinksInv /\ RequestShape(c) /\ OldInv(c) /\ NewInv(c) /\ LinksApart /\ GroupsHeld
  BY DEF PagesInv, LinksInv, TypeOK
<1>u. UNCHANGED <<link, group, page>>
  BY DEF ClearLinks, Cleared
<1>1. CASE ClearLinks(c)
  <2> DEFINE L == Linked(req[c].p)
  <2>1. req[c].op \in {"set", "delete_page"} /\ req' = [req EXCEPT ![c].old = L, ![c].pc = "wait"]
    BY <1>1 DEF ClearLinks
  <2>2. req[c].gs = {}
    BY <1>1, <1>t DEF ClearLinks, RequestShape
  <2>3. /\ req'[c].old = L /\ req'[c].pc = "wait" /\ req'[c].op = req[c].op /\ req'[c].p = req[c].p
        /\ req'[c].new = req[c].new /\ req'[c].gs = req[c].gs /\ \A d \in Clients \ {c} : req'[d] = req[d]
    BY <1>t, <2>1 DEF Request
  <2>4. RequestShape(c)'
    BY <1>t, <1>u, <2>1, <2>2, <2>3 DEF RequestShape
  <2>5. OldInv(c)'
    BY <1>u, <2>3 DEF OldInv, Linked
  <2>6. ~Inserted(c)' /\ ~HoldsLinks(c, req[c].p)'
    BY <2>3 DEF Inserted, HoldsLinks
  <2>7. NewInv(c)'
    BY <2>6 DEF NewInv
  <2> QED BY <1>t, <1>u, <2>2, <2>3, <2>4, <2>5, <2>6, <2>7, OneMoves
<1>2. CASE Cleared(c)
  <2>1. PICK pc \in {"insert", "groups"} : Goto(c, pc) /\ (req[c].op # "set" => pc = "groups") /\ (req[c].op = "set" => pc = "insert")
    BY <1>2 DEF Cleared
  <2>2. /\ req'[c].old = req[c].old /\ req'[c].pc = pc /\ req'[c].op = req[c].op /\ req'[c].p = req[c].p
        /\ req'[c].new = req[c].new /\ req'[c].gs = req[c].gs /\ \A d \in Clients \ {c} : req'[d] = req[d]
    <3>1. req'[c] = [req[c] EXCEPT !.pc = pc] /\ \A d \in Clients \ {c} : req'[d] = req[d]
      BY <1>t, <2>1, OneRequest
    <3> QED BY <1>t, <3>1 DEF Request
  <2>3. req[c].pc = "wait" /\ req[c].op \in {"set", "delete_page"}
    BY <1>2, <1>t DEF Cleared, RequestShape
  <2>4. RequestShape(c)'
    BY <1>t, <1>u, <2>1, <2>2, <2>3 DEF RequestShape
  <2>5. OldInv(c)'
    BY <1>t, <1>u, <2>2 DEF OldInv, Linked
  <2>6. ~Inserted(c)'
    BY <2>2 DEF Inserted
  <2>7. NewInv(c)'
    BY <2>6 DEF NewInv
  <2>8. \A d \in Clients \ {c} : req[d].p = req'[c].p /\ req[d].p \in Pages =>
           (HoldsLinks(c, req[c].p)' /\ HoldsLinks(d, req[d].p) => req'[c].old \cap req[d].old = {})
    BY <1>2, <2>2 DEF Cleared
  <2>9. \A g \in req'[c].gs : /\ group[g] = req'[c].p
           /\ \A d \in Clients \ {c} : g \notin req[d].gs /\ (Inserted(d) => g \notin GroupsOf(req[d].new))
    BY <1>t, <2>2 DEF GroupsHeld
  <2> QED BY <1>t, <1>u, <2>2, <2>4, <2>5, <2>6, <2>7, <2>8, <2>9, OneMoves
<1> QED BY <1>1, <1>2

LEMMA InsertLinksKept ==
  ASSUME PagesInv, NEW c \in Clients, InsertLinks(c), Goto(c, "commit"),
         Submitted(req[c].new) # {} => PageExists(req[c].p),
         \A g \in GroupsOf(req[c].new) : group[g] = req[c].p,
         Submitted(req[c].new) \cap (Linked(req[c].p) \ req[c].old) = {}
  PROVE  LinksInv'
<1> USE DEF Points
<1>t. /\ TypeOK /\ req \in [Clients -> Request] /\ req[c] \in Request
      /\ LinksInv /\ RequestShape(c) /\ OldInv(c) /\ LinksApart /\ GroupsHeld
  BY DEF PagesInv, LinksInv, TypeOK
<1>u. UNCHANGED <<link, group, page>> /\ req[c].op = "set" /\ req[c].pc = "insert"
  BY DEF InsertLinks
<1>1. /\ req'[c].old = req[c].old /\ req'[c].pc = "commit" /\ req'[c].op = req[c].op /\ req'[c].p = req[c].p
      /\ req'[c].new = req[c].new /\ req'[c].gs = req[c].gs /\ \A d \in Clients \ {c} : req'[d] = req[d]
  <2>1. req'[c] = [req[c] EXCEPT !.pc = "commit"] /\ \A d \in Clients \ {c} : req'[d] = req[d]
    BY <1>t, OneRequest
  <2> QED BY <1>t, <2>1 DEF Request
<1>2. RequestShape(c)' /\ req'[c].gs = {}
  BY <1>t, <1>u, <1>1 DEF RequestShape
<1>3. OldInv(c)'
  BY <1>t, <1>u, <1>1 DEF OldInv, Linked
<1>4. NewInv(c)'
  <2> SUFFICES ASSUME NEW s \in Submitted(req[c].new)
               PROVE  /\ PageExists(req[c].p) /\ (s \in Linked(req[c].p) => s \in req[c].old)
                      /\ req[c].new[s].g # Null => group[req[c].new[s].g] = req[c].p
    BY <1>1, <1>u DEF NewInv, Linked, PageExists
  <2>1. req[c].new[s].g # Null => req[c].new[s].g \in GroupsOf(req[c].new)
    BY DEF GroupsOf
  <2> QED BY <2>1
<1>5. ASSUME NEW d \in Clients \ {c}, req[d].p = req[c].p, req[d].p \in Pages
      PROVE  /\ HoldsLinks(d, req[d].p) => req[c].old \cap req[d].old = {}
             /\ Inserted(d) => Submitted(req[c].new) \cap Submitted(req[d].new) = {}
  <2>1. HoldsLinks(c, req[c].p)
    BY <1>u DEF HoldsLinks
  <2>2. Inserted(d) => Submitted(req[d].new) \cap Submitted(req[c].new) = {}
    BY <1>5 DEF InsertLinks
  <2> QED BY <1>t, <1>5, <2>1, <2>2 DEF LinksApart
<1>6. \A d \in Clients \ {c} : \A g \in req[d].gs : g \notin GroupsOf(req[c].new)
  BY DEF InsertLinks, GroupLocked
<1> QED BY <1>t, <1>u, <1>1, <1>2, <1>3, <1>4, <1>5, <1>6, OneMoves

LEMMA DeleteGroupsKept ==
  ASSUME PagesInv, NEW c \in Clients, DeleteGroups(c)
  PROVE  LinksInv'
<1>t. /\ TypeOK /\ req \in [Clients -> Request] /\ req[c] \in Request
      /\ LinksInv /\ RequestShape(c) /\ OldInv(c) /\ LinksApart
  BY DEF PagesInv, LinksInv, TypeOK
<1>u. UNCHANGED <<link, group, page>> /\ req[c].op = "delete_page" /\ req[c].pc = "groups"
  BY DEF DeleteGroups
<1> DEFINE G == {g \in Groups : group[g] = req[c].p}
<1>1. /\ req'[c].old = req[c].old /\ req'[c].pc = "page" /\ req'[c].op = req[c].op /\ req'[c].p = req[c].p
      /\ req'[c].new = req[c].new /\ req'[c].gs = G /\ \A d \in Clients \ {c} : req'[d] = req[d]
  BY <1>t DEF DeleteGroups, Request
<1>2. RequestShape(c)'
  BY <1>t, <1>u, <1>1 DEF RequestShape
<1>3. OldInv(c)'
  BY <1>t, <1>u, <1>1 DEF OldInv, Linked
<1>4. ~Inserted(c)'
  BY <1>1, <1>u DEF Inserted
<1>5. NewInv(c)'
  BY <1>4 DEF NewInv
<1>6. ASSUME NEW d \in Clients \ {c}, req[d].p = req[c].p, req[d].p \in Pages, HoldsLinks(d, req[d].p)
      PROVE  req[c].old \cap req[d].old = {}
  <2>1. HoldsLinks(c, req[c].p)
    BY <1>u DEF HoldsLinks
  <2> QED BY <1>t, <1>6, <2>1 DEF LinksApart
<1>7. \A g \in G : /\ group[g] = req[c].p
        /\ \A d \in Clients \ {c} : g \notin req[d].gs /\ (Inserted(d) => g \notin GroupsOf(req[d].new))
  BY DEF DeleteGroups, GroupShared, GroupLocked
<1> HIDE DEF G
<1> QED BY <1>t, <1>u, <1>1, <1>2, <1>3, <1>4, <1>5, <1>6, <1>7, OneMoves

\* Once c commits, the others hold what they held, and c's rows are nobody's.
LEMMA CommittedRequests ==
  ASSUME TypeOK, LinksInv, NEW c \in Clients, Committed(c), req[c].p \in Pages, HoldsLinks(c, req[c].p)
  PROVE  /\ req'[c] = NoRequest
         /\ \A d \in Clients \ {c} :
              /\ req'[d].op = req[d].op /\ req'[d].pc = req[d].pc /\ req'[d].p = req[d].p
              /\ req'[d].new = req[d].new /\ req'[d].gs = req[d].gs
              /\ req'[d].d = req[d].d /\ req'[d].s = req[d].s
              /\ req'[d].old \subseteq req[d].old
              /\ req[d].pc # "wait" \/ req[d].p # req[c].p => req'[d].old = req[d].old
              /\ req[d].p = req[c].p =>
                   req'[d].old \cap req[c].old = {} /\ req[d].old \subseteq req'[d].old \cup req[c].old
<1>t. /\ req \in [Clients -> Request] /\ LinksApart /\ \A d \in Clients : RequestShape(d)
  BY DEF TypeOK, LinksInv
<1>1. ASSUME NEW d \in Clients \ {c}
      PROVE  /\ req'[d].op = req[d].op /\ req'[d].pc = req[d].pc /\ req'[d].p = req[d].p
             /\ req'[d].new = req[d].new /\ req'[d].gs = req[d].gs
             /\ req'[d].d = req[d].d /\ req'[d].s = req[d].s
             /\ req'[d].old \subseteq req[d].old
             /\ req[d].pc # "wait" \/ req[d].p # req[c].p => req'[d].old = req[d].old
             /\ req[d].p = req[c].p =>
                  req'[d].old \cap req[c].old = {} /\ req[d].old \subseteq req'[d].old \cup req[c].old
  <2>1. CASE req[d].pc = "wait" /\ req[d].p = req[c].p
    <3>1. req'[d] = [req[d] EXCEPT !.old = req[d].old \ req[c].old]
      BY <2>1, CommittedTypes
    <3> QED BY <1>t, <2>1, <3>1 DEF Request
  <2>2. CASE ~(req[d].pc = "wait" /\ req[d].p = req[c].p)
    <3>1. req'[d] = req[d]
      BY <2>2, CommittedTypes
    <3>2. req[d].p = req[c].p => req[d].old \cap req[c].old = {}
      <4>1. CASE req[d].pc = "clear"
        BY <1>t, <4>1 DEF RequestShape
      <4>2. CASE req[d].p = req[c].p /\ req[d].pc # "clear"
        <5>1. req[d].pc \in {"insert", "commit", "groups", "page"}
          BY <1>t, <2>2, <4>2 DEF Request
        <5>2. HoldsLinks(d, req[d].p)
          BY <5>1 DEF HoldsLinks
        <5> QED BY <1>t, <4>2, <5>2 DEF LinksApart
      <4> QED BY <4>1, <4>2
    <3> QED BY <3>1, <3>2
  <2> QED BY <2>1, <2>2
<1> QED BY <1>1, CommittedTypes

LEMMA CommittedApart ==
  ASSUME TypeOK, LinksInv, NEW c \in Clients, Committed(c), req[c].p \in Pages, HoldsLinks(c, req[c].p)
  PROVE  LinksApart'
<1>i. LinksApart /\ req'[c].p = Null /\ Null \notin Pages
  BY CommittedRequests, PagesConstants DEF LinksInv, NoRequest
<1> SUFFICES ASSUME NEW a \in Clients, NEW d \in Clients, a # d, req'[a].p = req'[d].p, req'[a].p \in Pages
             PROVE  /\ HoldsLinks(a, req[a].p)' /\ HoldsLinks(d, req[d].p)' => req'[a].old \cap req'[d].old = {}
                    /\ Inserted(a)' /\ Inserted(d)' => Submitted(req'[a].new) \cap Submitted(req'[d].new) = {}
  BY DEF LinksApart
<1>1. a # c /\ d # c
  BY <1>i
<1>2. /\ req[a].p = req[d].p /\ req[a].p \in Pages
      /\ req'[a].old \subseteq req[a].old /\ req'[d].old \subseteq req[d].old
      /\ req'[a].new = req[a].new /\ req'[d].new = req[d].new
      /\ HoldsLinks(a, req[a].p)' => HoldsLinks(a, req[a].p)
      /\ HoldsLinks(d, req[d].p)' => HoldsLinks(d, req[d].p)
      /\ Inserted(a)' => Inserted(a)
      /\ Inserted(d)' => Inserted(d)
  BY <1>1, CommittedRequests DEF HoldsLinks, Inserted
<1>3. /\ HoldsLinks(a, req[a].p) /\ HoldsLinks(d, req[d].p) => req[a].old \cap req[d].old = {}
      /\ Inserted(a) /\ Inserted(d) => Submitted(req[a].new) \cap Submitted(req[d].new) = {}
  BY <1>i, <1>2 DEF LinksApart
<1> QED BY <1>2, <1>3

LEMMA CommitLinksKept ==
  ASSUME PagesInv, NEW c \in Clients, CommitLinks(c)
  PROVE  LinksInv'
<1>0. PICK p \in Pages : p = req[c].p
  BY DEF PagesInv, LinksInv, CommitLinks, Inserted, RequestShape
<1> DEFINE new == req[c].new
           old == req[c].old
<1>i. /\ TypeOK /\ LinksInv /\ \A d \in Clients : RequestShape(d) /\ OldInv(d) /\ NewInv(d)
      /\ LinksApart /\ GroupsHeld /\ PlacementsSound
  BY DEF PagesInv, LinksInv
<1>t. /\ link \in [Pages -> [Services -> Place]] /\ p \in Pages /\ NewSound(new) /\ Inserted(c)
      /\ old \subseteq Services /\ Null \notin Services /\ UNCHANGED <<group, page>>
  BY <1>i, <1>0, LinkTypes, PagesConstants DEF CommitLinks, Inserted, RequestShape, TypeOK
<1>r. /\ req'[c] = NoRequest
      /\ \A d \in Clients \ {c} :
              /\ req'[d].op = req[d].op /\ req'[d].pc = req[d].pc /\ req'[d].p = req[d].p
              /\ req'[d].new = req[d].new /\ req'[d].gs = req[d].gs
              /\ req'[d].d = req[d].d /\ req'[d].s = req[d].s
              /\ req'[d].old \subseteq req[d].old
              /\ req[d].pc # "wait" \/ req[d].p # p => req'[d].old = req[d].old
              /\ req[d].p = p => req'[d].old \cap old = {} /\ req[d].old \subseteq req'[d].old \cup old
  <2>1. HoldsLinks(c, req[c].p) /\ Committed(c)
    BY DEF CommitLinks, Inserted, HoldsLinks
  <2> QED BY <1>0, <1>i, <1>t, <2>1, CommittedRequests
<1>n. /\ req'[c].op = "none" /\ req'[c].pc = "clear" /\ req'[c].p = Null /\ req'[c].old = {} /\ req'[c].gs = {}
      /\ Null \notin Pages
  BY <1>r, PagesConstants DEF NoRequest
<1>l. /\ \A q \in Pages \ {p} : link'[q] = link[q]
      /\ \A s \in Services : link'[p][s] = IF new[s].on THEN new[s] ELSE IF s \in old THEN NoPlace ELSE link[p][s]
  BY <1>0, <1>t DEF CommitLinks
<1>q. \A q \in Pages \ {p} : Linked(q)' = Linked(q)
  BY <1>l DEF Linked
<1>p. \A s \in Services : s \in Linked(p)' <=> new[s].on \/ (s \in Linked(p) /\ s \notin old)
  <2> SUFFICES ASSUME NEW s \in Services PROVE link'[p][s].on <=> new[s].on \/ (link[p][s].on /\ s \notin old)
    BY DEF Linked
  <2>1. CASE new[s].on
    BY <1>l, <2>1
  <2>2. CASE ~new[s].on /\ s \in old
    BY <1>l, <2>2 DEF NoPlace
  <2>3. CASE ~new[s].on /\ s \notin old
    BY <1>l, <2>3
  <2> QED BY <2>1, <2>2, <2>3
<1>o. \A s \in Services : new[s].on /\ s \in Linked(p) => s \in old
  BY <1>0, <1>i, <1>t DEF NewInv, Submitted
<1> HIDE DEF new, old
<1>1. ASSUME NEW d \in Clients PROVE RequestShape(d)'
  <2>1. CASE d = c
    BY <1>n, <2>1 DEF RequestShape
  <2>2. CASE d # c
    BY <1>i, <1>r, <1>t, <2>2 DEF RequestShape
  <2> QED BY <2>1, <2>2
<1>2. ASSUME NEW d \in Clients PROVE OldInv(d)'
  <2>1. CASE d = c
    BY <1>n, <2>1 DEF OldInv
  <2>2. CASE d # c /\ req[d].p # p
    BY <1>i, <1>r, <1>l, <1>q, <2>2 DEF OldInv
  <2>3. CASE d # c /\ req[d].p = p
    <3>1. OldInv(d) /\ req'[d].p = p /\ req[d].old \subseteq Linked(p) /\ Linked(p) \subseteq Services
      BY <1>i, <1>r, <1>t, <2>3 DEF OldInv, Linked
    <3>2. req'[d].old \subseteq req[d].old /\ req'[d].old \cap old = {} /\ req[d].old \subseteq req'[d].old \cup old
      BY <1>r, <2>3
    <3>3. req'[d].old \subseteq Linked(p)'
      BY <1>p, <3>1, <3>2
    <3>4. ASSUME NEW s \in Linked(p)', s \notin req'[d].old PROVE link'[p][s].par \notin req'[d].old
      <4>0. s \in Services
        BY DEF Linked
      <4>1. CASE new[s].on
        <5>1. link'[p][s].par = new[s].par
          BY <1>l, <4>0, <4>1
        <5>2. CASE new[s].par = Null
          BY <1>t, <3>1, <3>2, <5>1, <5>2
        <5>3. CASE new[s].par # Null
          <6>1. new[s].par \in Services /\ new[new[s].par].on
            BY <1>t, <4>0, <4>1, <5>3 DEF NewSound
          <6> QED BY <1>o, <3>1, <3>2, <5>1, <6>1
        <5> QED BY <5>2, <5>3
      <4>2. CASE ~new[s].on
        <5>1. s \in Linked(p) /\ s \notin old
          BY <1>p, <3>4, <4>0, <4>2
        <5>2. link'[p][s] = link[p][s]
          BY <1>l, <4>0, <4>2, <5>1
        <5>3. s \notin req[d].old
          BY <3>2, <3>4, <5>1
        <5>4. link[p][s].par \notin req[d].old
          BY <1>t, <2>3, <3>1, <5>1, <5>3 DEF OldInv
        <5> QED BY <3>2, <5>2, <5>4
      <4> QED BY <4>1, <4>2
    <3> QED BY <3>1, <3>3, <3>4 DEF OldInv
  <2> QED BY <2>1, <2>2, <2>3
<1>3. ASSUME NEW d \in Clients, Inserted(d)' PROVE NewInv(d)'
  <2>1. d # c /\ Inserted(d) /\ req'[d].old = req[d].old /\ req'[d].p = req[d].p /\ req'[d].new = req[d].new
    BY <1>3, <1>n, <1>r DEF Inserted
  <2>2. RequestShape(d) /\ NewInv(d) /\ req[d].p \in Pages
    BY <1>i, <2>1 DEF RequestShape, Inserted
  <2>3. CASE req[d].p # p
    BY <1>q, <1>t, <2>1, <2>2, <2>3 DEF NewInv, PageExists
  <2>4. CASE req[d].p = p
    <3>1. Submitted(new) \cap Submitted(req[d].new) = {}
      BY <1>0, <1>i, <1>t, <2>1, <2>4 DEF LinksApart, new
    <3>2. \A s \in Submitted(req[d].new) : ~new[s].on /\ s \in Services
      BY <3>1 DEF Submitted
    <3>3. \A s \in Submitted(req[d].new) : s \in Linked(p)' => s \in Linked(p)
      BY <1>p, <3>2
    <3> QED BY <1>t, <2>1, <2>2, <2>4, <3>3 DEF NewInv, PageExists
  <2> QED BY <2>3, <2>4
<1>4. LinksApart'
  BY <1>0, <1>i, <1>t, CommittedApart DEF CommitLinks, Inserted, HoldsLinks
<1>5. GroupsHeld'
  <2> SUFFICES ASSUME NEW a \in Clients, NEW g \in req'[a].gs, NEW d \in Clients
               PROVE  /\ group'[g] = req'[a].p
                      /\ d # a => g \notin req'[d].gs
                      /\ Inserted(d)' => g \notin GroupsOf(req'[d].new)
    BY DEF GroupsHeld
  <2>1. a # c /\ g \in req[a].gs /\ req'[a].p = req[a].p
    BY <1>n, <1>r
  <2>2. CASE d = c
    BY <1>i, <1>n, <1>t, <2>1, <2>2 DEF GroupsHeld, Inserted
  <2>3. CASE d # c
    <3>1. req'[d].gs = req[d].gs /\ req'[d].new = req[d].new /\ (Inserted(d)' => Inserted(d))
      BY <1>r, <2>3 DEF Inserted
    <3> QED BY <1>i, <1>t, <2>1, <3>1 DEF GroupsHeld
  <2> QED BY <2>2, <2>3
<1>6. PlacementsSound'
  <2> SUFFICES ASSUME NEW q \in Pages
               PROVE  /\ ~PageExists(q)' => Linked(q)' = {}
                      /\ \A s \in Linked(q)' :
                           /\ link'[q][s].g # Null => group'[link'[q][s].g] = q
                           /\ link'[q][s].par # Null => /\ link'[q][s].par \in Linked(q)'
                                                        /\ link'[q][link'[q][s].par].par = Null
    BY DEF PlacementsSound
  <2>1. CASE q # p
    BY <1>i, <1>l, <1>q, <1>t, <2>1 DEF PlacementsSound, PageExists
  <2>2. CASE q = p
    <3>1. NewInv(c) /\ OldInv(c)
      BY <1>i
    <3>2. ~PageExists(p)' => Linked(p)' = {}
      <4>1. PageExists(p)' <=> PageExists(p)
        BY <1>t DEF PageExists
      <4>2. ~PageExists(p) => Linked(p) = {} /\ \A s \in Services : ~new[s].on
        BY <1>0, <1>i, <1>t, <3>1 DEF PlacementsSound, NewInv, Submitted, new
      <4>3. Linked(p)' \subseteq Services
        BY DEF Linked
      <4> QED BY <1>p, <4>1, <4>2, <4>3
    <3>3. ASSUME NEW s \in Linked(p)'
          PROVE  /\ link'[p][s].g # Null => group'[link'[p][s].g] = p
                 /\ link'[p][s].par # Null => /\ link'[p][s].par \in Linked(p)'
                                              /\ link'[p][link'[p][s].par].par = Null
      <4>0. s \in Services
        BY DEF Linked
      <4>1. CASE new[s].on
        <5>1. link'[p][s] = new[s]
          BY <1>l, <4>0, <4>1
        <5>2. new[s].g # Null => group[new[s].g] = p
          BY <1>0, <1>t, <3>1, <4>0, <4>1 DEF NewInv, Submitted, new
        <5>3. ASSUME new[s].par # Null PROVE new[s].par \in Linked(p)' /\ link'[p][new[s].par].par = Null
          <6>1. new[s].par \in Services /\ new[new[s].par].on /\ new[new[s].par].par = Null
            BY <1>t, <4>0, <4>1, <5>3 DEF NewSound
          <6> QED BY <1>l, <1>p, <6>1
        <5> QED BY <1>t, <5>1, <5>2, <5>3
      <4>2. CASE ~new[s].on
        <5>1. s \in Linked(p) /\ s \notin old
          BY <1>p, <3>3, <4>0, <4>2
        <5>2. link'[p][s] = link[p][s]
          BY <1>l, <4>0, <4>2, <5>1
        <5>3. link[p][s].g # Null => group[link[p][s].g] = p
          BY <1>i, <1>t, <5>1 DEF PlacementsSound
        <5>4. ASSUME link[p][s].par # Null
              PROVE  link[p][s].par \in Linked(p)' /\ link'[p][link[p][s].par].par = Null
          <6>1. link[p][s].par \in Linked(p) /\ link[p][link[p][s].par].par = Null
            BY <1>i, <1>t, <5>1, <5>4 DEF PlacementsSound
          <6>2. link[p][s].par \notin old /\ link[p][s].par \in Services
            BY <1>0, <1>t, <3>1, <5>1, <6>1 DEF OldInv, Linked, old
          <6>3. ~new[link[p][s].par].on
            BY <1>o, <6>1, <6>2
          <6> QED BY <1>l, <1>p, <6>1, <6>2, <6>3
        <5> QED BY <1>t, <5>2, <5>3, <5>4
      <4> QED BY <4>1, <4>2
    <3> QED BY <2>2, <3>2, <3>3
  <2> QED BY <2>1, <2>2
<1> QED BY <1>1, <1>2, <1>3, <1>4, <1>5, <1>6 DEF LinksInv, NewInv

\* The page goes, with the links and the groups that were found.
LEMMA DeletePageKept ==
  ASSUME PagesInv, NEW c \in Clients, DeletePageCommit(c), ~UNCHANGED <<page, link, group>>
  PROVE  LinksInv'
<1>i. /\ TypeOK /\ LinksInv /\ \A d \in Clients : RequestShape(d) /\ OldInv(d) /\ NewInv(d)
      /\ GroupsHeld /\ PlacementsSound
  BY DEF PagesInv, LinksInv
<1>0. PICK p \in Pages : p = req[c].p
  BY <1>i DEF DeletePageCommit, RequestShape
<1> DEFINE old == req[c].old
           gs == req[c].gs
<1>t. /\ Committed(c) /\ HoldsLinks(c, req[c].p) /\ ~PageShared(p) /\ Linked(p) \subseteq old
      /\ page' = [page EXCEPT ![p] = [state |-> "gone", dom |-> Null]]
      /\ link' = [link EXCEPT ![p] = [s \in Services |-> NoPlace]]
      /\ group' = [g \in Groups |-> IF g \in gs THEN "gone" ELSE group[g]]
  BY <1>0 DEF DeletePageCommit, HoldsLinks
<1>y. link \in [Pages -> [Services -> Place]] /\ page \in [Pages -> Page]
  BY <1>i DEF TypeOK
<1>r. /\ req'[c] = NoRequest
      /\ \A d \in Clients \ {c} :
              /\ req'[d].op = req[d].op /\ req'[d].pc = req[d].pc /\ req'[d].p = req[d].p
              /\ req'[d].new = req[d].new /\ req'[d].gs = req[d].gs
              /\ req'[d].d = req[d].d /\ req'[d].s = req[d].s
              /\ req'[d].old \subseteq req[d].old
              /\ req[d].pc # "wait" \/ req[d].p # p => req'[d].old = req[d].old
              /\ req[d].p = p => req'[d].old \cap old = {}
  BY <1>0, <1>i, <1>t, CommittedRequests
<1>n. /\ req'[c].op = "none" /\ req'[c].pc = "clear" /\ req'[c].p = Null /\ req'[c].old = {} /\ req'[c].gs = {}
      /\ Null \notin Pages
  BY <1>r, PagesConstants DEF NoRequest
<1>q. \A q \in Pages \ {p} : /\ link'[q] = link[q] /\ Linked(q)' = Linked(q)
                             /\ page'[q] = page[q] /\ PageExists(q)' = PageExists(q)
  BY <1>t, <1>y DEF Linked, PageExists
<1>p. Linked(p)' = {} /\ page'[p].state = "gone"
  BY <1>t, <1>y DEF Linked, NoPlace
<1>g. \A g \in Groups : g \notin gs => group'[g] = group[g]
  BY <1>t
<1>h. \A g \in gs : g \in Groups /\ group[g] = p /\ \A d \in Clients :
            (d # c => g \notin req[d].gs) /\ (Inserted(d) => g \notin GroupsOf(req[d].new))
  BY <1>0, <1>i, LinkTypes DEF GroupsHeld
<1> HIDE DEF old, gs
<1>1. ASSUME NEW d \in Clients PROVE RequestShape(d)'
  <2>1. CASE d = c
    BY <1>n, <2>1 DEF RequestShape
  <2>2. CASE d # c
    <3>1. \A q \in Pages : page[q].state # "none" => page'[q].state # "none"
      BY <1>p, <1>q
    <3>2. RequestShape(d)
      BY <1>i
    <3>3. req[d].old = {} => req'[d].old = {}
      BY <1>r, <2>2
    <3> QED BY <1>r, <2>2, <3>1, <3>2, <3>3 DEF RequestShape
  <2> QED BY <2>1, <2>2
<1>2. ASSUME NEW d \in Clients PROVE OldInv(d)'
  <2>1. CASE d = c
    BY <1>n, <2>1 DEF OldInv
  <2>2. CASE d # c /\ req[d].p # p
    BY <1>i, <1>r, <1>q, <2>2 DEF OldInv
  <2>3. CASE d # c /\ req[d].p = p
    <3>1. req'[d].p = p /\ req[d].old \subseteq Linked(p)
      BY <1>i, <1>r, <2>3 DEF OldInv
    <3>2. req'[d].old = {}
      BY <1>r, <1>t, <2>3, <3>1
    <3> QED BY <3>2 DEF OldInv
  <2> QED BY <2>1, <2>2, <2>3
<1>3. ASSUME NEW d \in Clients, Inserted(d)' PROVE NewInv(d)'
  <2>1. d # c /\ Inserted(d) /\ req'[d].old = req[d].old /\ req'[d].p = req[d].p /\ req'[d].new = req[d].new
    BY <1>3, <1>n, <1>r DEF Inserted
  <2>2. RequestShape(d) /\ NewInv(d) /\ req[d].p \in Pages /\ req[d].p # p
    BY <1>i, <1>t, <2>1 DEF RequestShape, Inserted, PageShared
  <2>3. ASSUME NEW s \in Submitted(req[d].new), req[d].new[s].g # Null
        PROVE  group'[req[d].new[s].g] = group[req[d].new[s].g]
    <3>1. req[d].new[s].g \in GroupsOf(req[d].new) /\ req[d].new[s].g \in Groups
      BY <1>i, <2>3, LinkTypes DEF GroupsOf, Submitted
    <3> QED BY <1>g, <1>h, <2>1, <3>1
  <2> QED BY <1>q, <2>1, <2>2, <2>3 DEF NewInv
<1>4. LinksApart'
  BY <1>0, <1>i, <1>t, CommittedApart
<1>5. GroupsHeld'
  <2> SUFFICES ASSUME NEW a \in Clients, NEW g \in req'[a].gs, NEW d \in Clients
               PROVE  /\ group'[g] = req'[a].p
                      /\ d # a => g \notin req'[d].gs
                      /\ Inserted(d)' => g \notin GroupsOf(req'[d].new)
    BY DEF GroupsHeld
  <2>1. a # c /\ g \in req[a].gs /\ req'[a].p = req[a].p /\ g \in Groups
    BY <1>i, <1>n, <1>r, LinkTypes
  <2>2. group'[g] = group[g]
    BY <1>g, <1>h, <2>1
  <2>3. CASE d = c
    BY <1>i, <1>n, <2>1, <2>2, <2>3 DEF GroupsHeld, Inserted
  <2>4. CASE d # c
    <3>1. req'[d].gs = req[d].gs /\ req'[d].new = req[d].new /\ (Inserted(d)' => Inserted(d))
      BY <1>r, <2>4 DEF Inserted
    <3> QED BY <1>i, <2>1, <2>2, <3>1 DEF GroupsHeld
  <2> QED BY <2>3, <2>4
<1>6. PlacementsSound'
  <2> SUFFICES ASSUME NEW q \in Pages
               PROVE  /\ ~PageExists(q)' => Linked(q)' = {}
                      /\ \A s \in Linked(q)' :
                           /\ link'[q][s].g # Null => group'[link'[q][s].g] = q
                           /\ link'[q][s].par # Null => /\ link'[q][s].par \in Linked(q)'
                                                        /\ link'[q][link'[q][s].par].par = Null
    BY DEF PlacementsSound
  <2>1. CASE q = p
    BY <1>p, <2>1
  <2>2. CASE q # p
    <3>1. ASSUME NEW s \in Linked(q), link[q][s].g # Null PROVE group'[link[q][s].g] = q
      <4>1. group[link[q][s].g] = q /\ link[q][s].g \in Groups
        BY <1>i, <3>1, LinkTypes DEF PlacementsSound, Linked
      <4>2. link[q][s].g \notin gs
        BY <1>h, <2>2, <4>1
      <4> QED BY <1>g, <4>1, <4>2
    <3> QED BY <1>i, <1>q, <2>2, <3>1 DEF PlacementsSound
  <2> QED BY <2>1, <2>2
<1> QED BY <1>1, <1>2, <1>3, <1>4, <1>5, <1>6 DEF LinksInv, NewInv

\* A group, or a page with its links, appears; a group goes.
LEMMA CreationKept ==
  ASSUME PagesInv, CreateGroup \/ DeleteGroup \/ CreatePage
  PROVE  LinksInv'
<1>i. /\ TypeOK /\ \A d \in Clients : RequestShape(d) /\ OldInv(d) /\ NewInv(d)
      /\ LinksApart /\ GroupsHeld /\ PlacementsSound /\ UNCHANGED req
  BY DEF PagesInv, LinksInv, CreateGroup, DeleteGroup, CreatePage
<1>y. /\ link \in [Pages -> [Services -> Place]] /\ page \in [Pages -> Page]
      /\ group \in [Groups -> Pages \cup {"none", "gone"}] /\ "none" \notin Pages
      /\ \A p \in Pages : Linked(p) \subseteq Services
  BY <1>i, PagesConstants DEF TypeOK, Linked
<1>a. LinksApart'
  BY <1>i DEF LinksApart, HoldsLinks, Inserted
\* The groups that requests and links refer to are as they were.
<1>m. ASSUME NEW g0 \in Groups, \A g \in Groups \ {g0} : group'[g] = group[g],
             \A c \in Clients : g0 \notin req[c].gs /\ (Inserted(c) => g0 \notin GroupsOf(req[c].new)),
             \A p \in Pages : PageExists(p)' = PageExists(p) /\ Linked(p)' = Linked(p)
      PROVE  GroupsHeld' /\ \A c \in Clients : NewInv(c)'
  <2>1. GroupsHeld'
    BY <1>i, <1>m, LinkTypes DEF GroupsHeld, Inserted
  <2>2. ASSUME NEW c \in Clients, Inserted(c), NEW s \in Submitted(req[c].new)
        PROVE  /\ PageExists(req[c].p)' /\ (s \in Linked(req[c].p)' => s \in req[c].old)
               /\ req[c].new[s].g # Null => group'[req[c].new[s].g] = req[c].p
    <3>1. req[c].p \in Pages
      BY <1>i, <2>2 DEF RequestShape, Inserted
    <3>2. req[c].new[s].g # Null => req[c].new[s].g \in GroupsOf(req[c].new) /\ req[c].new[s].g \in Groups
      BY <1>i, LinkTypes DEF GroupsOf, Submitted
    <3>3. NewInv(c)
      BY <1>i
    <3> QED BY <1>i, <1>m, <2>2, <3>1, <3>2, <3>3 DEF NewInv
  <2>3. ASSUME NEW c \in Clients PROVE NewInv(c)'
    BY <1>i, <2>2 DEF NewInv, Inserted
  <2> QED BY <2>1, <2>3
<1>1. CASE CreateGroup
  <2>1. PICK p \in Pages, g0 \in Groups : group[g0] = "none" /\ group' = [group EXCEPT ![g0] = p]
    BY <1>1 DEF CreateGroup, InsertGroup
  <2>2. UNCHANGED <<page, link>>
    BY <1>1 DEF CreateGroup
  <2>3. \A q \in Pages : PageExists(q)' = PageExists(q) /\ Linked(q)' = Linked(q)
    BY <2>2 DEF PageExists, Linked
  <2>4. \A g \in Groups \ {g0} : group'[g] = group[g]
    BY <1>y, <2>1
  <2>5. ASSUME NEW c \in Clients PROVE g0 \notin req[c].gs
    <3>1. CASE req[c].gs = {}
      BY <3>1
    <3>2. CASE req[c].gs # {}
      <4>1. req[c].p \in Pages
        BY <1>i, <3>2 DEF RequestShape
      <4> QED BY <1>i, <1>y, <2>1, <4>1 DEF GroupsHeld
    <3> QED BY <3>1, <3>2
  <2>6. ASSUME NEW c \in Clients, Inserted(c) PROVE g0 \notin GroupsOf(req[c].new)
    <3>1. req[c].p \in Pages /\ NewInv(c)
      BY <1>i, <2>6 DEF RequestShape, Inserted
    <3> QED BY <1>y, <2>1, <2>6, <3>1 DEF NewInv, GroupsOf
  <2>7. GroupsHeld' /\ \A c \in Clients : NewInv(c)'
    BY <1>m, <2>3, <2>4, <2>5, <2>6
  <2>8. PlacementsSound'
    <3>1. ASSUME NEW q \in Pages, NEW s \in Linked(q), link[q][s].g # Null
          PROVE  group'[link[q][s].g] = q
      <4>1. group[link[q][s].g] = q /\ link[q][s].g \in Groups
        BY <1>i, <1>y, <3>1, LinkTypes DEF PlacementsSound
      <4> QED BY <1>y, <2>1, <2>4, <4>1
    <3> QED BY <1>i, <2>2, <2>3, <3>1 DEF PlacementsSound
  <2>9. \A c \in Clients : RequestShape(c)' /\ OldInv(c)'
    BY <1>i, <2>2, <2>3 DEF RequestShape, OldInv
  <2> QED BY <1>a, <2>7, <2>8, <2>9 DEF LinksInv
<1>2. CASE DeleteGroup
  <2>1. PICK g0 \in Groups : DeleteGroupRow(g0)
    BY <1>2 DEF DeleteGroup
  <2>2. UNCHANGED page
    BY <1>2 DEF DeleteGroup
  <2>3. ASSUME NEW q \in Pages, NEW s \in Services
        PROVE  /\ link'[q][s].on = link[q][s].on /\ link'[q][s].par = link[q][s].par
               /\ link'[q][s].g = IF link[q][s].g = g0 THEN Null ELSE link[q][s].g
    <3>1. link'[q][s] = IF link[q][s].g = g0 THEN [link[q][s] EXCEPT !.g = Null] ELSE link[q][s]
      BY <2>1 DEF DeleteGroupRow
    <3>2. link[q][s] \in Place
      BY <1>y
    <3> QED BY <3>1, <3>2 DEF Place
  <2>4. \A q \in Pages : PageExists(q)' = PageExists(q) /\ Linked(q)' = Linked(q)
    BY <2>2, <2>3 DEF PageExists, Linked
  <2>5. group'[g0] = "gone" /\ \A g \in Groups \ {g0} : group'[g] = group[g]
    BY <1>y, <2>1 DEF DeleteGroupRow
  <2>6. \A c \in Clients : g0 \notin req[c].gs /\ (Inserted(c) => g0 \notin GroupsOf(req[c].new))
    BY <2>1 DEF DeleteGroupRow, GroupShared, GroupLocked
  <2>7. GroupsHeld' /\ \A c \in Clients : NewInv(c)'
    BY <1>m, <2>4, <2>5, <2>6
  <2>8. PlacementsSound'
    <3>1. ASSUME NEW q \in Pages, NEW s \in Linked(q)
          PROVE  /\ link'[q][s].g # Null => group'[link'[q][s].g] = q
                 /\ link'[q][s].par # Null => /\ link'[q][s].par \in Linked(q)
                                              /\ link'[q][link'[q][s].par].par = Null
      <4>1. /\ s \in Services /\ link[q][s].g \in Groups \cup {Null}
            /\ link[q][s].g # Null => group[link[q][s].g] = q
            /\ link[q][s].par # Null => /\ link[q][s].par \in Linked(q) /\ link[q][s].par \in Services
                                        /\ link[q][link[q][s].par].par = Null
        BY <1>i, <1>y, LinkTypes DEF PlacementsSound
      <4> QED BY <2>3, <2>5, <4>1
    <3> QED BY <1>i, <2>4, <3>1 DEF PlacementsSound
  <2>9. \A c \in Clients : RequestShape(c)' /\ OldInv(c)'
    <3>1. ASSUME NEW c \in Clients, req[c].p \in Pages, NEW s \in Linked(req[c].p) \ req[c].old
          PROVE  link'[req[c].p][s].par \notin req[c].old
      <4>1. OldInv(c) /\ s \in Services
        BY <1>i, <1>y, <3>1
      <4> QED BY <2>3, <3>1, <4>1 DEF OldInv
    <3> QED BY <1>i, <2>2, <2>4, <3>1 DEF RequestShape, OldInv
  <2> QED BY <1>a, <2>7, <2>8, <2>9 DEF LinksInv
<1>3. CASE CreatePage
  <2>1. PICK p \in Pages, S \in SUBSET Services, d \in Domains \cup {Null} : InsertPage(p, d, S)
    BY <1>3 DEF CreatePage
  <2>2. UNCHANGED group /\ page[p].state = "none" /\ page'[p].state = "draft"
    BY <1>3, <1>y, <2>1 DEF CreatePage, InsertPage
  <2>3. \A q \in Pages \ {p} : /\ link'[q] = link[q] /\ page'[q] = page[q]
                               /\ Linked(q)' = Linked(q) /\ PageExists(q)' = PageExists(q)
    BY <1>y, <2>1 DEF InsertPage, Linked, PageExists
  <2>4. \A s \in Services : link'[p][s].g = Null /\ link'[p][s].par = Null
    BY <1>y, <2>1 DEF InsertPage, NoPlace
  <2>5. PageExists(p)'
    BY <2>2 DEF PageExists
  <2>6. \A c \in Clients : req[c].op \in {"set", "delete_page"} => req[c].p \in Pages \ {p}
    BY <1>i, <2>2 DEF RequestShape
  <2>7. ASSUME NEW c \in Clients PROVE RequestShape(c)' /\ OldInv(c)' /\ NewInv(c)'
    <3>0. RequestShape(c) /\ OldInv(c) /\ NewInv(c)
      BY <1>i
    <3>1. CASE req[c].op \in {"set", "delete_page"}
      BY <1>i, <2>2, <2>3, <2>6, <3>0, <3>1 DEF RequestShape, OldInv, NewInv, Inserted
    <3>2. CASE req[c].op \notin {"set", "delete_page"}
      <4>1. req[c].old = {} /\ ~Inserted(c)
        BY <3>0, <3>2 DEF RequestShape, Inserted
      <4>2. RequestShape(c)'
        BY <1>i, <3>0, <3>2 DEF RequestShape
      <4> QED BY <1>i, <4>1, <4>2 DEF OldInv, NewInv, Inserted
    <3> QED BY <3>1, <3>2
  <2>8. GroupsHeld'
    BY <1>i, <2>2 DEF GroupsHeld, Inserted
  <2>9. PlacementsSound'
    <3>1. Linked(p)' \subseteq Services
      BY DEF Linked
    <3>2. \A q \in Pages \ {p} : 
             /\ ~PageExists(q)' => Linked(q)' = {}
             /\ \A s \in Linked(q)' :
                  /\ link'[q][s].g # Null => group'[link'[q][s].g] = q
                  /\ link'[q][s].par # Null => /\ link'[q][s].par \in Linked(q)'
                                               /\ link'[q][link'[q][s].par].par = Null
      BY <1>i, <2>2, <2>3 DEF PlacementsSound
    <3> QED BY <2>4, <2>5, <3>1, <3>2 DEF PlacementsSound
  <2> QED BY <1>a, <2>7, <2>8, <2>9 DEF LinksInv
<1> QED BY <1>1, <1>2, <1>3

-----------------------------------------------------------------------------
(* Services that are being deleted, pages that get a domain.                *)

\* The steps of the requests that delete links.
Linking(c) ==
  \/ ClearLinks(c) \/ Cleared(c) \/ InsertLinks(c) \/ CommitLinks(c) \/ DeleteGroups(c) \/ DeletePageCommit(c)

LEMMA LinkingRequests ==
  ASSUME PagesInv, NEW c \in Clients, Linking(c), NEW d \in Clients
  PROVE  \/ d = c /\ req'[d].op = "none" /\ ~Inserted(d)'
         \/ /\ req'[d].op = req[d].op /\ req'[d].p = req[d].p /\ req'[d].s = req[d].s /\ req'[d].new = req[d].new
            /\ Inserted(d)' => Inserted(d) \/ (d = c /\ InsertLinks(c))
<1> USE DEF Points
<1>t. TypeOK /\ LinksInv /\ req \in [Clients -> Request] /\ \A a \in Clients : req[a] \in Request /\ RequestShape(a)
  BY DEF PagesInv, LinksInv, TypeOK
<1>e. ASSUME End(c)
      PROVE  \/ d = c /\ req'[d].op = "none" /\ ~Inserted(d)'
             \/ req'[d] = req[d]
  <2>1. req'[c] = NoRequest /\ (d # c => req'[d] = req[d])
    BY <1>e, <1>t, OneRequest
  <2>2. req'[c].op = "none" /\ ~Inserted(c)'
    BY <2>1 DEF NoRequest, Inserted
  <2> QED BY <2>1, <2>2
<1>f. req'[d] = req[d] =>
        /\ req'[d].op = req[d].op /\ req'[d].p = req[d].p /\ req'[d].s = req[d].s /\ req'[d].new = req[d].new
        /\ Inserted(d)' => Inserted(d)
  BY DEF Inserted
<1>1. CASE ClearLinks(c)
  <2>1. req' = [req EXCEPT ![c].old = Linked(req[c].p), ![c].pc = "wait"]
    BY <1>1 DEF ClearLinks
  <2>2. /\ req'[d].op = req[d].op /\ req'[d].p = req[d].p /\ req'[d].s = req[d].s /\ req'[d].new = req[d].new
        /\ d # c => req'[d] = req[d]
        /\ req'[c].pc = "wait"
    BY <1>t, <2>1 DEF Request
  <2> QED BY <2>2 DEF Inserted
<1>2. CASE DeleteGroups(c)
  <2>1. PICK G : req' = [req EXCEPT ![c].gs = G, ![c].pc = "page"]
    BY <1>2 DEF DeleteGroups
  <2>2. /\ req'[d].op = req[d].op /\ req'[d].p = req[d].p /\ req'[d].s = req[d].s /\ req'[d].new = req[d].new
        /\ d # c => req'[d] = req[d]
        /\ req'[c].pc = "page"
    BY <1>t, <2>1 DEF Request
  <2> QED BY <2>2 DEF Inserted
<1>g. ASSUME NEW pc \in Points, Goto(c, pc)
      PROVE  /\ req'[d].op = req[d].op /\ req'[d].p = req[d].p /\ req'[d].s = req[d].s /\ req'[d].new = req[d].new
             /\ d # c => req'[d] = req[d]
             /\ req'[c].pc = pc
  <2>1. req'[c] = [req[c] EXCEPT !.pc = pc] /\ \A a \in Clients \ {c} : req'[a] = req[a]
    BY <1>g, <1>t, OneRequest
  <2> QED BY <1>t, <2>1 DEF Request
<1>3. CASE Cleared(c)
  <2>1. PICK pc \in {"insert", "groups"} : Goto(c, pc)
    BY <1>3 DEF Cleared
  <2> QED BY <1>g, <2>1 DEF Inserted
<1>4. CASE InsertLinks(c)
  <2>1. Goto(c, "commit") \/ End(c)
    BY <1>4 DEF InsertLinks
  <2> QED BY <1>4, <1>e, <1>f, <1>g, <2>1 DEF Inserted
<1>5. CASE Committed(c) /\ req[c].p \in Pages /\ HoldsLinks(c, req[c].p)
  <2>1. req'[c].op = "none" /\ ~Inserted(c)'
    BY <1>5, <1>t, CommittedRequests DEF NoRequest, Inserted
  <2>2. d # c => /\ req'[d].op = req[d].op /\ req'[d].p = req[d].p /\ req'[d].s = req[d].s
                 /\ req'[d].new = req[d].new /\ req'[d].pc = req[d].pc
    BY <1>5, <1>t, CommittedRequests
  <2> QED BY <2>1, <2>2 DEF Inserted
<1>6. CASE CommitLinks(c)
  BY <1>5, <1>6, <1>t DEF CommitLinks, Inserted, HoldsLinks, RequestShape
<1>7. CASE DeletePageCommit(c)
  <2>1. End(c) \/ Committed(c)
    BY <1>7 DEF DeletePageCommit
  <2> QED BY <1>5, <1>7, <1>e, <1>f, <1>t, <2>1 DEF DeletePageCommit, HoldsLinks, RequestShape
<1> QED BY <1>1, <1>2, <1>3, <1>4, <1>6, <1>7 DEF Linking

LEMMA OrdinaryOps ==
  ASSUME PagesInv, NEW c \in Clients, Ordinary(c)
  PROVE  /\ req'[c].op = "softdelete" => DeleteService(c)
         /\ req'[c].op = "attach" => LockPage(c)
<1>t. req \in [Clients -> Request]
  BY DEF PagesInv, TypeOK
<1>b. ASSUME NEW r, Begin(c, r) PROVE req'[c] = r
  BY <1>b, <1>t DEF Begin
<1>e. End(c) => req'[c].op = "none"
  BY <1>t DEF End, NoRequest
<1>1. CASE SoftDeleteCommit(c) \/ AttachDomain(c) \/ SetVerificationResult(c) \/ Fail(c)
  BY <1>1, <1>e DEF SoftDeleteCommit, AttachDomain, SetVerificationResult, Fail
<1>2. CASE SetServices(c)
  <2>1. PICK p, new : Begin(c, [NoRequest EXCEPT !.op = "set", !.p = p, !.new = new])
    BY <1>2 DEF SetServices
  <2> QED BY <1>b, <2>1 DEF NoRequest
<1>3. CASE DeletePage(c)
  <2>1. PICK p : Begin(c, [NoRequest EXCEPT !.op = "delete_page", !.p = p])
    BY <1>3 DEF DeletePage
  <2> QED BY <1>b, <2>1 DEF NoRequest
<1>4. CASE LockPage(c)
  <2>1. PICK p, d : Begin(c, [NoRequest EXCEPT !.op = "attach", !.pc = "commit", !.p = p, !.d = d])
    BY <1>4 DEF LockPage
  <2> QED BY <1>4, <1>b, <2>1 DEF NoRequest
<1>5. CASE Verify(c)
  <2>1. PICK d, res : Begin(c, [NoRequest EXCEPT !.op = "verify", !.pc = "commit", !.d = d, !.res = res])
    BY <1>5 DEF Verify
  <2> QED BY <1>b, <2>1 DEF NoRequest
<1>6. CASE DeleteService(c)
  <2>1. PICK s : Begin(c, [NoRequest EXCEPT !.op = "softdelete", !.pc = "commit", !.s = s])
    BY <1>6 DEF DeleteService
  <2> QED BY <1>6, <1>b, <2>1 DEF NoRequest
<1> QED BY <1>1, <1>2, <1>3, <1>4, <1>5, <1>6 DEF Ordinary

\* What keeps a service that is being deleted off the pages.
LEMMA ServicesFrame ==
  ASSUME ServicesHeld, \A c \in Clients : RequestShape(c),
         \A s \in Services, p \in Pages :
           s \in Linked(p)' => s \in Linked(p) \/ ~ServiceLocked(s) \/ ServiceShared(s),
         \A s \in Services : ServiceShared(s)' => ServiceShared(s) \/ ~ServiceLocked(s),
         \A c \in Clients : req'[c].op = "softdelete" => req[c].op = "softdelete" /\ req'[c].s = req[c].s
  PROVE  ServicesHeld'
<1> SUFFICES ASSUME NEW c \in Clients, req'[c].op = "softdelete"
             PROVE  Detached(req[c].s)' /\ ~ServiceShared(req[c].s)'
  BY DEF ServicesHeld
<1>1. PICK s \in Services : s = req[c].s /\ s = req'[c].s
  BY DEF RequestShape
<1>2. Detached(s) /\ ~ServiceShared(s) /\ ServiceLocked(s)
  BY <1>1 DEF ServicesHeld, ServiceLocked
<1>3. Detached(s)' /\ ~ServiceShared(s)'
  BY <1>2 DEF Detached
<1> QED BY <1>1, <1>3 DEF Detached, ServiceShared

\* Nothing is deleted from under a request that shows it, or the other way.
LEMMA ServicesKept ==
  ASSUME PagesInv, NEW c \in Clients, Linking(c) \/ Ordinary(c)
  PROVE  ServicesHeld'
<1>t. /\ ServicesHeld /\ \A d \in Clients : RequestShape(d)
      /\ TypeOK /\ link \in [Pages -> [Services -> Place]] /\ req \in [Clients -> Request]
  BY DEF PagesInv, LinksInv, TypeOK
<1>1. CASE DeleteService(c)
  <2>1. PICK s \in Services : /\ ~ServiceShared(s) /\ Detached(s)
                              /\ Begin(c, [NoRequest EXCEPT !.op = "softdelete", !.pc = "commit", !.s = s])
    BY <1>1 DEF DeleteService, SoftDelete
  <2>2. /\ req'[c] = [NoRequest EXCEPT !.op = "softdelete", !.pc = "commit", !.s = s]
        /\ \A d \in Clients \ {c} : req'[d] = req[d]
    BY <1>t, <2>1 DEF Begin
  <2>3. req'[c].op = "softdelete" /\ req'[c].s = s
    BY <2>2 DEF NoRequest
  <2>4. UNCHANGED link
    BY <1>1 DEF DeleteService
  <2>5. ASSUME NEW x PROVE (Detached(x) => Detached(x)') /\ (ServiceShared(x)' => ServiceShared(x))
    BY <2>2, <2>3, <2>4 DEF Detached, Linked, ServiceShared, Inserted
  <2>6. ASSUME NEW d \in Clients, req'[d].op = "softdelete"
        PROVE  Detached(req[d].s)' /\ ~ServiceShared(req[d].s)'
    <3>1. PICK x : x = req'[d].s
      OBVIOUS
    <3>2. Detached(x) /\ ~ServiceShared(x)
      BY <1>t, <2>1, <2>2, <2>3, <2>6, <3>1 DEF ServicesHeld
    <3>3. Detached(x)' /\ ~ServiceShared(x)'
      BY <2>5, <3>2
    <3> QED BY <3>1, <3>3 DEF Detached, ServiceShared
  <2> QED BY <2>6 DEF ServicesHeld
<1>2. CASE Ordinary(c) /\ ~DeleteService(c)
  <2>1. /\ Quiet(req'[c]) /\ \A d \in Clients \ {c} : req'[d] = req[d]
        /\ UNCHANGED link
    BY <1>2, OrdinaryRequest
  <2>2. \A s \in Services, p \in Pages : s \in Linked(p)' => s \in Linked(p)
    BY <2>1 DEF Linked
  <2>3. \A s \in Services : ServiceShared(s)' => ServiceShared(s)
    BY <2>1 DEF ServiceShared, Inserted, Quiet
  <2>4. req'[c].op # "softdelete"
    BY <1>2, OrdinaryOps
  <2> QED BY <1>t, <2>1, <2>2, <2>3, <2>4, ServicesFrame
<1>3. CASE Linking(c)
  <2>1. \A d \in Clients : req'[d].op = "softdelete" => req[d].op = "softdelete" /\ req'[d].s = req[d].s
    BY <1>3, LinkingRequests
  <2>2. ASSUME NEW s \in Services, ServiceShared(s)' PROVE ServiceShared(s) \/ ~ServiceLocked(s)
    <3>1. PICK d \in Clients : Inserted(d)' /\ s \in Submitted(req'[d].new) \cup Parents(req'[d].new)
      BY <2>2 DEF ServiceShared
    <3>2. req'[d].new = req[d].new /\ (Inserted(d) \/ (d = c /\ InsertLinks(c)))
      BY <1>3, <3>1, LinkingRequests
    <3>3. CASE Inserted(d)
      BY <3>1, <3>2, <3>3 DEF ServiceShared
    <3>4. CASE d = c /\ InsertLinks(c)
      BY <3>1, <3>2, <3>4 DEF InsertLinks
    <3> QED BY <3>2, <3>3, <3>4
  <2>3. ASSUME NEW s \in Services, NEW p \in Pages, s \in Linked(p)' PROVE s \in Linked(p) \/ ServiceShared(s)
    <3>1. CASE UNCHANGED link
      BY <2>3, <3>1 DEF Linked
    <3>2. CASE CommitLinks(c)
      <4>1. req[c].p \in Pages /\ Inserted(c)
        BY <1>t, <3>2 DEF CommitLinks, Inserted, RequestShape
      <4>2. CASE p # req[c].p
        <5>1. link'[p] = link[p]
          BY <1>t, <3>2, <4>1, <4>2 DEF CommitLinks
        <5> QED BY <2>3, <5>1 DEF Linked
      <4>3. CASE p = req[c].p
        <5>1. link'[p][s] = IF req[c].new[s].on THEN req[c].new[s]
                            ELSE IF s \in req[c].old THEN NoPlace ELSE link[p][s]
          BY <1>t, <3>2, <4>1, <4>3 DEF CommitLinks
        <5>2. CASE req[c].new[s].on
          BY <4>1, <5>2 DEF ServiceShared, Submitted
        <5>3. CASE ~req[c].new[s].on /\ s \in req[c].old
          BY <2>3, <5>1, <5>3 DEF Linked, NoPlace
        <5>4. CASE ~req[c].new[s].on /\ s \notin req[c].old
          BY <2>3, <5>1, <5>4 DEF Linked
        <5> QED BY <5>2, <5>3, <5>4
      <4> QED BY <4>2, <4>3
    <3>3. CASE link' = [link EXCEPT ![req[c].p] = [x \in Services |-> NoPlace]]
      <4>1. link'[p] = link[p] \/ link'[p][s] = NoPlace
        BY <1>t, <3>3
      <4> QED BY <2>3, <4>1 DEF Linked, NoPlace
    <3>4. \/ UNCHANGED link \/ CommitLinks(c)
          \/ link' = [link EXCEPT ![req[c].p] = [x \in Services |-> NoPlace]]
      BY <1>3 DEF Linking, ClearLinks, Cleared, InsertLinks, DeleteGroups, DeletePageCommit
    <3> QED BY <3>1, <3>2, <3>3, <3>4
  <2> QED BY <1>t, <2>1, <2>2, <2>3, ServicesFrame
<1> QED BY <1>1, <1>2, <1>3

LEMMA CreationServices ==
  ASSUME PagesInv, CreateGroup \/ DeleteGroup \/ CreatePage
  PROVE  ServicesHeld'
<1>t. /\ ServicesHeld /\ (\A d \in Clients : RequestShape(d)) /\ UNCHANGED req
      /\ TypeOK /\ link \in [Pages -> [Services -> Place]]
  BY DEF PagesInv, LinksInv, TypeOK, CreateGroup, DeleteGroup, CreatePage
<1>1. \A s \in Services : ServiceShared(s)' => ServiceShared(s)
  BY <1>t DEF ServiceShared, Inserted
<1>2. ASSUME NEW s \in Services, NEW p \in Pages, s \in Linked(p)'
      PROVE  s \in Linked(p) \/ ~ServiceLocked(s)
  <2>1. CASE CreateGroup
    BY <1>2, <2>1 DEF CreateGroup, Linked
  <2>2. CASE DeleteGroup
    <3>1. PICK g0 \in Groups : DeleteGroupRow(g0)
      BY <2>2 DEF DeleteGroup
    <3>2. link'[p][s] = IF link[p][s].g = g0 THEN [link[p][s] EXCEPT !.g = Null] ELSE link[p][s]
      BY <3>1 DEF DeleteGroupRow
    <3>3. link[p][s] \in Place
      BY <1>t
    <3>4. link'[p][s].on = link[p][s].on
      BY <3>2, <3>3 DEF Place
    <3> QED BY <1>2, <3>4 DEF Linked
  <2>3. CASE CreatePage
    <3>1. PICK q \in Pages, S \in SUBSET Services, d \in Domains \cup {Null} : InsertPage(q, d, S)
      BY <2>3 DEF CreatePage
    <3>2. CASE p # q
      <4>1. link'[p] = link[p]
        BY <1>t, <3>1, <3>2 DEF InsertPage
      <4> QED BY <1>2, <4>1 DEF Linked
    <3>3. CASE p = q
      <4>1. link'[p][s] = [NoPlace EXCEPT !.on = s \in S]
        BY <1>t, <3>1, <3>3 DEF InsertPage
      <4>2. link'[p][s].on = (s \in S)
        BY <4>1 DEF NoPlace
      <4>3. s \in S
        BY <1>2, <4>2 DEF Linked
      <4> QED BY <3>1, <4>3 DEF InsertPage
    <3> QED BY <3>2, <3>3
  <2> QED BY <2>1, <2>2, <2>3
<1> QED BY <1>t, <1>1, <1>2, ServicesFrame

\* What keeps the row of a page that gets its domain.
LEMMA AttachFrame ==
  ASSUME PagesHeld,
         \A d \in Clients : req'[d].op = "attach" =>
           /\ req[d].op = "attach" /\ req'[d].p = req[d].p /\ page'[req[d].p] = page[req[d].p]
  PROVE  PagesHeld'
  BY DEF PagesHeld, PageExists

LEMMA PagesKept ==
  ASSUME PagesInv, NEW c \in Clients, Linking(c) \/ Ordinary(c)
  PROVE  PagesHeld'
<1>t. /\ PagesHeld /\ page \in [Pages -> Page] /\ req \in [Clients -> Request]
      /\ \A d \in Clients : RequestShape(d)
  BY DEF PagesInv, LinksInv, TypeOK
<1>1. CASE LockPage(c)
  <2>1. PICK p \in Pages, d \in Domains :
          /\ PageExists(p) /\ page[p].dom = Null /\ ~PageLocked(p)
          /\ Begin(c, [NoRequest EXCEPT !.op = "attach", !.pc = "commit", !.p = p, !.d = d])
    BY <1>1 DEF LockPage
  <2>2. /\ req'[c] = [NoRequest EXCEPT !.op = "attach", !.pc = "commit", !.p = p, !.d = d]
        /\ \A e \in Clients \ {c} : req'[e] = req[e]
    BY <1>t, <2>1 DEF Begin
  <2>3. req'[c].op = "attach" /\ req'[c].p = p /\ UNCHANGED page
    BY <1>1, <2>2 DEF NoRequest, LockPage
  <2>4. \A e \in Clients \ {c} : req[e].op = "attach" => req[e].p # p
    BY <2>1 DEF PageLocked
  <2>5. PageExists(p)' /\ page'[p].dom = Null
    BY <2>1, <2>3 DEF PageExists
  <2>6. ASSUME NEW e \in Clients, req'[e].op = "attach"
        PROVE  /\ PageExists(req[e].p)' /\ page'[req'[e].p].dom = Null
               /\ \A f \in Clients : req'[f].op = "attach" /\ req'[f].p = req'[e].p => f = e
    <3>1. CASE e = c
      <4>1. req'[e].p = p
        BY <2>3, <3>1
      <4>2. PageExists(req[e].p)' /\ page'[req'[e].p].dom = Null
        BY <2>5, <4>1 DEF PageExists
      <4>3. ASSUME NEW f \in Clients, req'[f].op = "attach", req'[f].p = req'[e].p PROVE f = e
        BY <2>2, <2>4, <3>1, <4>1, <4>3
      <4> QED BY <4>2, <4>3
    <3>2. CASE e # c
      <4>1. req'[e] = req[e] /\ req[e].op = "attach" /\ req[e].p # p
        BY <2>2, <2>4, <2>6, <3>2
      <4>2. /\ PageExists(req[e].p) /\ page[req[e].p].dom = Null
            /\ \A f \in Clients : req[f].op = "attach" /\ req[f].p = req[e].p => f = e
        BY <1>t, <4>1 DEF PagesHeld
      <4>3. PageExists(req[e].p)' /\ page'[req'[e].p].dom = Null
        BY <2>3, <4>1, <4>2 DEF PageExists
      <4>4. ASSUME NEW f \in Clients, req'[f].op = "attach", req'[f].p = req'[e].p PROVE f = e
        BY <2>2, <2>3, <4>1, <4>2, <4>4
      <4> QED BY <4>3, <4>4
    <3> QED BY <3>1, <3>2
  <2> QED BY <2>6 DEF PagesHeld
<1>2. CASE Ordinary(c) /\ ~LockPage(c)
  <2>1. req'[c].op # "attach" /\ \A d \in Clients \ {c} : req'[d] = req[d]
    BY <1>2, OrdinaryOps, OrdinaryRequest
  <2>2. CASE AttachDomain(c)
    <3>1. \A q \in Pages \ {req[c].p} : page'[q] = page[q]
      BY <1>t, <2>2 DEF AttachDomain, Attached
    <3>2. \A d \in Clients \ {c} : req[d].op = "attach" => req[d].p \in Pages /\ req[d].p # req[c].p
      BY <1>t, <2>2 DEF PagesHeld, AttachDomain, RequestShape
    <3> QED BY <1>t, <2>1, <3>1, <3>2, AttachFrame
  <2>3. CASE UNCHANGED page
    BY <1>t, <2>1, <2>3, AttachFrame
  <2>4. UNCHANGED page \/ AttachDomain(c)
    BY <1>2 DEF Ordinary, SetServices, DeleteService, SoftDeleteCommit, DeletePage, LockPage, Verify,
       SetVerificationResult, Fail
  <2> QED BY <2>2, <2>3, <2>4
<1>3. CASE Linking(c)
  <2>1. \A d \in Clients : req'[d].op = "attach" => req[d].op = "attach" /\ req'[d].p = req[d].p
    BY <1>3, LinkingRequests
  <2>2. CASE UNCHANGED page
    BY <1>t, <2>1, <2>2, AttachFrame
  <2>3. CASE DeletePageCommit(c)
    <3>1. ~PageLocked(req[c].p) /\ \A q \in Pages \ {req[c].p} : page'[q] = page[q]
      BY <1>t, <2>3 DEF DeletePageCommit
    <3>2. \A d \in Clients : req[d].op = "attach" => req[d].p \in Pages /\ req[d].p # req[c].p
      BY <1>t, <3>1 DEF PageLocked, RequestShape
    <3> QED BY <1>t, <2>1, <3>1, <3>2, AttachFrame
  <2>4. UNCHANGED page \/ DeletePageCommit(c)
    BY <1>3 DEF Linking, ClearLinks, Cleared, InsertLinks, CommitLinks, DeleteGroups
  <2> QED BY <2>2, <2>3, <2>4
<1> QED BY <1>1, <1>2, <1>3

\* Pages change under their domains, keys do not.
LEMMA RequestsKeepTLS ==
  ASSUME PagesInv, NEW c \in Clients, Linking(c) \/ Ordinary(c)
  PROVE  TLSInv'
<1>t. page \in [Pages -> Page] /\ TLSInv /\ DomainsInv /\ \A d \in Clients : RequestShape(d)
  BY DEF PagesInv, LinksInv, TypeOK, TLSInv
<1>u. UNCHANGED tlsVars
  BY DEF Linking, ClearLinks, Cleared, InsertLinks, CommitLinks, DeleteGroups, DeletePageCommit,
     Ordinary, SetServices, DeleteService, SoftDeleteCommit, DeletePage, LockPage, AttachDomain, Verify,
     SetVerificationResult, Fail
<1>1. IssueInv' /\ BackfillInv'
  BY <1>t, <1>u DEF tlsVars, TLSInv, IssueInv, BackfillInv
<1>2. DomainsInv'
  <2>1. \A p \in Pages : \/ page'[p] = page[p]
                         \/ page'[p].state = "gone" /\ page'[p].dom = Null
                         \/ page'[p].state = "pending_tls"
    <3>1. CASE AttachDomain(c)
      BY <1>t, <3>1 DEF AttachDomain, Attached
    <3>2. CASE DeletePageCommit(c)
      BY <1>t, <3>2 DEF DeletePageCommit
    <3>3. AttachDomain(c) \/ DeletePageCommit(c) \/ UNCHANGED page
      BY DEF Linking, ClearLinks, Cleared, InsertLinks, CommitLinks, DeleteGroups,
         Ordinary, SetServices, DeleteService, SoftDeleteCommit, DeletePage, LockPage, Verify,
         SetVerificationResult, Fail
    <3> QED BY <3>1, <3>2, <3>3
  <2>2. UNCHANGED key
    BY <1>u DEF tlsVars
  <2> QED BY <1>t, <2>1, <2>2 DEF DomainsInv, PageExists
<1> QED BY <1>1, <1>2 DEF TLSInv

LEMMA CreationTLS ==
  ASSUME PagesInv, CreateGroup \/ DeleteGroup \/ CreatePage
  PROVE  TLSInv' /\ PagesHeld'
<1>t. /\ page \in [Pages -> Page] /\ TLSInv /\ DomainsInv /\ PagesHeld /\ UNCHANGED <<tlsVars, req>>
      /\ \A d \in Clients : RequestShape(d)
  BY DEF PagesInv, LinksInv, TypeOK, TLSInv, CreateGroup, DeleteGroup, CreatePage
<1>1. \A p \in Pages : page'[p] = page[p] \/ (page[p].state = "none" /\ page'[p].state = "draft")
  BY <1>t DEF CreateGroup, DeleteGroup, CreatePage, InsertPage
<1>2. IssueInv' /\ BackfillInv' /\ UNCHANGED key
  BY <1>t DEF tlsVars, TLSInv, IssueInv, BackfillInv
<1>3. DomainsInv'
  BY <1>t, <1>1, <1>2 DEF DomainsInv, PageExists
<1>4. \A d \in Clients : req[d].op = "attach" => page'[req[d].p] = page[req[d].p]
  BY <1>t, <1>1 DEF PagesHeld, PageExists, RequestShape
<1>5. PagesHeld'
  BY <1>t, <1>4, AttachFrame
<1> QED BY <1>2, <1>3, <1>5 DEF TLSInv

\* An event changes a page that exists, and keeps its domain.
LEMMA CertificatePages ==
  ASSUME PagesInv, NEW r \in Replicas, CertStep(r)
  PROVE  /\ SamePages /\ \A p \in Pages : page'[p].dom = page[p].dom
         /\ \A p \in Pages : page[p].dom = Null => page'[p] = page[p]
<1>t. page \in [Pages -> Page] /\ IssueInv /\ DomainsInv
  BY DEF PagesInv, TLSInv, TypeOK
<1>1. CASE UNCHANGED page
  BY <1>1 DEF SamePages, PageExists
<1>2. CASE OnEvent(r)
  <2>1. PICK state \in {"published", "tls_failed"} : page' = Mark(iss[r].h, state)
    BY <1>2 DEF OnEvent
  <2>2. iss[r].h \in Domains /\ Null \notin Domains
    BY <1>2, <1>t, PagesConstants DEF OnEvent, IssueInv
  <2>3. \A p \in Pages : \/ page'[p] = page[p]
                         \/ /\ page[p].dom = iss[r].h /\ page'[p].dom = page[p].dom
                            /\ page'[p].state = state
    BY <1>t, <2>1 DEF Mark, Page
  <2> QED BY <1>t, <2>2, <2>3 DEF SamePages, PageExists, DomainsInv
<1>3. UNCHANGED page \/ OnEvent(r)
  BY DEF CertStep, IssueStep, SealStep, Issue, Lock, Refused, Store, EncryptLegacyKeys, SealRow, CommitSealed, Crash
<1> QED BY <1>1, <1>2, <1>3

-----------------------------------------------------------------------------
LEMMA PagesInit == Init => PagesInv
<1> SUFFICES ASSUME Init PROVE PagesInv
  OBVIOUS
<1>1. PICK p \in Pages, old \in SUBSET Pages, d \in Domains : Stored(p, old, d)
  BY DEF Init
<1>2. \A c \in Clients : req[c] = NoRequest
  BY DEF Init
<1>3. \A c \in Clients : /\ req[c].op = "none" /\ req[c].pc = "clear" /\ req[c].p = Null
                         /\ req[c].old = {} /\ req[c].gs = {}
  BY <1>2 DEF NoRequest
<1>4. \A q \in Pages : Linked(q) = {}
  BY DEF Init, Linked, NoPlace
<1>5. LinksInv
  <2>1. \A c \in Clients : RequestShape(c) /\ OldInv(c) /\ NewInv(c)
    BY <1>3, PagesConstants DEF RequestShape, OldInv, NewInv, Inserted
  <2>2. LinksApart /\ GroupsHeld /\ PlacementsSound
    BY <1>3, <1>4, PagesConstants DEF LinksApart, GroupsHeld, PlacementsSound
  <2> QED BY <2>1, <2>2 DEF LinksInv
<1>6. ServicesHeld /\ PagesHeld
  BY <1>3 DEF ServicesHeld, PagesHeld
<1>7. DomainsInv
  <2>1. \A q \in Pages : \/ page[q].dom = Null /\ page[q].state # "published"
                         \/ page[q].state = "published" /\ page[q].dom = d /\ old # {}
    BY <1>1 DEF Stored
  <2>2. old # {} => key[d].v > 0
    BY <1>1 DEF Stored
  <2> QED BY <2>1, <2>2 DEF DomainsInv, PageExists
<1>8. IssueInv /\ BackfillInv
  <2>1. \A r \in Replicas : iss[r].pc = "idle" /\ ~back[r].on /\ back[r].done = {}
    BY DEF Init, NoIssue, NoBackfill
  <2> QED BY <2>1 DEF IssueInv, BackfillInv
<1> QED BY <1>5, <1>6, <1>7, <1>8, PagesTypesInit DEF PagesInv, TLSInv

LEMMA PagesNext == PagesInv /\ [Next]_vars => PagesInv'
<1> SUFFICES ASSUME PagesInv, [Next]_vars PROVE PagesInv'
  OBVIOUS
<1>t. /\ TypeOK /\ LinksInv /\ ServicesHeld /\ PagesHeld /\ TLSInv /\ page \in [Pages -> Page]
      /\ \A c \in Clients : RequestShape(c)
  BY DEF PagesInv, LinksInv, TypeOK
\* Neither requests nor links move.
<1>f. ASSUME UNCHANGED <<link, group, req>>, SamePages PROVE LinksInv' /\ ServicesHeld'
  <2>1. LinksInv'
    BY <1>f, <1>t, QuietKeepsLinks
  <2>2. \A s \in Services, p \in Pages : s \in Linked(p)' => s \in Linked(p)
    BY <1>f DEF Linked
  <2>3. \A s \in Services : ServiceShared(s)' => ServiceShared(s)
    BY <1>f DEF ServiceShared, Inserted
  <2>4. ServicesHeld'
    BY <1>f, <1>t, <2>2, <2>3, ServicesFrame
  <2> QED BY <2>1, <2>4
<1>1. ASSUME NEW c \in Clients, PlacementStep(c) \/ PageStep(c) PROVE PagesInv'
  <2>1. TypeOK'
    BY <1>1, <1>t, PlacementTypes, PageTypes
  <2>2. Linking(c) \/ Ordinary(c)
    BY <1>1 DEF PlacementStep, PageStep, Linking, Ordinary
  <2>3. LinksInv'
    <3>1. CASE Ordinary(c)
      <4>1. \A d \in Clients : req'[d] = req[d] \/ Quiet(req'[d])
        BY <3>1, OrdinaryRequest
      <4> QED BY <1>t, <3>1, <4>1, OrdinaryRequest, OrdinaryPages, QuietKeepsLinks
    <3>2. CASE ClearLinks(c) \/ Cleared(c)
      BY <3>2, ClearLinksKept
    <3>e. ASSUME End(c), UNCHANGED <<link, group, page>> PROVE LinksInv'
      <4>1. \A d \in Clients : req'[d] = req[d] \/ Quiet(req'[d])
        BY <1>t, <3>e, OneRequest, QuietNoRequest
      <4>2. SamePages
        BY <3>e DEF SamePages, PageExists
      <4> QED BY <1>t, <3>e, <4>1, <4>2, QuietKeepsLinks
    <3>3. CASE InsertLinks(c)
      <4>1. \/ End(c)
            \/ /\ Goto(c, "commit")
               /\ Submitted(req[c].new) # {} => PageExists(req[c].p)
               /\ \A g \in GroupsOf(req[c].new) : group[g] = req[c].p
               /\ Submitted(req[c].new) \cap (Linked(req[c].p) \ req[c].old) = {}
        BY <3>3 DEF InsertLinks
      <4>2. UNCHANGED <<link, group, page>>
        BY <3>3 DEF InsertLinks
      <4> QED BY <3>3, <3>e, <4>1, <4>2, InsertLinksKept
    <3>4. CASE CommitLinks(c)
      BY <3>4, CommitLinksKept
    <3>5. CASE DeleteGroups(c)
      BY <3>5, DeleteGroupsKept
    <3>6. CASE DeletePageCommit(c)
      <4>1. CASE UNCHANGED <<page, link, group>>
        <5>1. End(c)
          <6>1. page' # page \/ End(c)
            <7>1. PageExists(req[c].p) /\ page' = [page EXCEPT ![req[c].p] = [state |-> "gone", dom |-> Null]]
                  => page' # page
              <8>1. req[c].p \in Pages
                BY <1>t, <3>6 DEF DeletePageCommit, RequestShape
              <8> QED BY <1>t, <8>1 DEF PageExists
            <7> QED BY <3>6, <7>1 DEF DeletePageCommit
          <6> QED BY <4>1, <6>1
        <5> QED BY <3>e, <4>1, <5>1
      <4> QED BY <3>6, <4>1, DeletePageKept
    <3> QED BY <2>2, <3>1, <3>2, <3>3, <3>4, <3>5, <3>6 DEF Linking
  <2> QED BY <2>1, <2>2, <2>3, ServicesKept, PagesKept, RequestsKeepTLS DEF PagesInv
<1>2. CASE CreateGroup \/ DeleteGroup \/ CreatePage
  BY <1>2, <1>t, CreationTypes, CreationKept, CreationServices, CreationTLS DEF PagesInv
<1>3. CASE CreateDomain \/ DeleteDomain
  <2>1. UNCHANGED <<link, group, req, page, key, iss, back>>
    BY <1>3 DEF CreateDomain, DeleteDomain, tlsVars
  <2>2. TypeOK'
    BY <1>3, <1>t, CreationTypes
  <2>3. SamePages
    BY <2>1 DEF SamePages, PageExists
  <2>4. PagesHeld'
    BY <1>t, <2>1, AttachFrame
  <2>5. TLSInv'
    BY <1>t, <2>1 DEF TLSInv, DomainsInv, IssueInv, BackfillInv, PageExists
  <2> QED BY <1>f, <2>1, <2>2, <2>3, <2>4, <2>5 DEF PagesInv
<1>4. ASSUME NEW r \in Replicas, CertStep(r) PROVE PagesInv'
  <2>1. UNCHANGED <<link, group, req>>
    BY <1>4 DEF CertStep, IssueStep, SealStep, Issue, Lock, Refused, Store, OnEvent, EncryptLegacyKeys,
       SealRow, CommitSealed, Crash
  <2>2. TypeOK'
    BY <1>4, <1>t, CertificateTypes
  <2>3. SamePages /\ \A p \in Pages : page[p].dom = Null => page'[p] = page[p]
    BY <1>4, CertificatePages
  <2>4. \A d \in Clients : req[d].op = "attach" => page'[req[d].p] = page[req[d].p]
    BY <1>t, <2>3 DEF PagesHeld, RequestShape
  <2>5. PagesHeld'
    BY <1>t, <2>1, <2>4, AttachFrame
  <2>6. TLSInv'
    BY <1>4, <1>t, IssueKept, BackfillKept, DomainsKept DEF TLSInv
  <2> QED BY <1>f, <2>1, <2>2, <2>3, <2>5, <2>6 DEF PagesInv
<1>5. CASE UNCHANGED vars
  <2>1. UNCHANGED <<link, group, req, page, key, iss, back>>
    BY <1>5 DEF vars
  <2>2. TypeOK'
    BY <1>5, <1>t DEF vars, TypeOK
  <2>3. SamePages
    BY <2>1 DEF SamePages, PageExists
  <2>4. PagesHeld'
    BY <1>t, <2>1, AttachFrame
  <2>5. TLSInv'
    BY <1>t, <2>1 DEF TLSInv, DomainsInv, IssueInv, BackfillInv, PageExists
  <2> QED BY <1>f, <2>1, <2>2, <2>3, <2>4, <2>5 DEF PagesInv
<1> QED BY <1>1, <1>2, <1>3, <1>4, <1>5 DEF Next, CertStep


-----------------------------------------------------------------------------
\* What moves services, pages and keys.
LEMMA StepKinds ==
  ASSUME [Next]_vars
  PROVE  \/ \E c \in Clients : Linking(c) \/ Ordinary(c)
         \/ CreateGroup \/ DeleteGroup \/ CreatePage \/ CreateDomain \/ DeleteDomain
         \/ \E r \in Replicas : CertStep(r)
         \/ UNCHANGED vars
  BY DEF Next, PlacementStep, PageStep, Linking, Ordinary, CertStep

LEMMA ServiceSteps ==
  ASSUME [Next]_vars
  PROVE  UNCHANGED svc \/ \E c \in Clients : SoftDeleteCommit(c)
<1>1. ASSUME NEW c \in Clients, Linking(c) \/ Ordinary(c) PROVE UNCHANGED svc \/ SoftDeleteCommit(c)
  BY <1>1 DEF Linking, ClearLinks, Cleared, InsertLinks, CommitLinks, DeleteGroups, DeletePageCommit,
     Ordinary, SetServices, DeleteService, DeletePage, LockPage, AttachDomain, Verify,
     SetVerificationResult, Fail
<1>2. ASSUME NEW r \in Replicas, CertStep(r) PROVE UNCHANGED svc
  BY <1>2 DEF CertStep, IssueStep, SealStep, Issue, Lock, Refused, Store, OnEvent, EncryptLegacyKeys,
     SealRow, CommitSealed, Crash
<1>3. CASE CreateGroup \/ DeleteGroup \/ CreatePage \/ CreateDomain \/ DeleteDomain \/ UNCHANGED vars
  BY <1>3 DEF CreateGroup, DeleteGroup, CreatePage, CreateDomain, DeleteDomain, vars
<1> QED BY <1>1, <1>2, <1>3, StepKinds

LEMMA PageSteps ==
  ASSUME [Next]_vars
  PROVE  \/ UNCHANGED page \/ CreatePage
         \/ \E c \in Clients : AttachDomain(c) \/ DeletePageCommit(c)
         \/ \E r \in Replicas : CertStep(r)
<1>1. ASSUME NEW c \in Clients, Linking(c) \/ Ordinary(c)
      PROVE  UNCHANGED page \/ AttachDomain(c) \/ DeletePageCommit(c)
  BY <1>1 DEF Linking, ClearLinks, Cleared, InsertLinks, CommitLinks, DeleteGroups,
     Ordinary, SetServices, DeleteService, SoftDeleteCommit, DeletePage, LockPage, Verify,
     SetVerificationResult, Fail
<1>2. CASE CreateGroup \/ DeleteGroup \/ CreateDomain \/ DeleteDomain \/ UNCHANGED vars
  BY <1>2 DEF CreateGroup, DeleteGroup, CreateDomain, DeleteDomain, vars
<1> QED BY <1>1, <1>2, StepKinds

LEMMA KeySteps ==
  ASSUME [Next]_vars
  PROVE  UNCHANGED key \/ \E r \in Replicas : CertStep(r)
<1>1. ASSUME NEW c \in Clients, Linking(c) \/ Ordinary(c) PROVE UNCHANGED tlsVars
  BY <1>1 DEF Linking, ClearLinks, Cleared, InsertLinks, CommitLinks, DeleteGroups, DeletePageCommit,
     Ordinary, SetServices, DeleteService, SoftDeleteCommit, DeletePage, LockPage, AttachDomain, Verify,
     SetVerificationResult, Fail
<1>2. CASE CreateGroup \/ DeleteGroup \/ CreatePage \/ CreateDomain \/ DeleteDomain \/ UNCHANGED vars
  BY <1>2 DEF CreateGroup, DeleteGroup, CreatePage, CreateDomain, DeleteDomain, vars, tlsVars
<1> QED BY <1>1, <1>2, StepKinds DEF tlsVars

-----------------------------------------------------------------------------
\* Every row and every request of the status pages stays of its type.
THEOREM PagesTypes == Spec => []TypeOK
<1>1. PagesInv => TypeOK
  BY DEF PagesInv
<1> QED BY <1>1, PagesInit, PagesNext, PTL DEF Spec

\* However many replacements of a page's services, deletions of its groups
\* and deletions of the page overlap, what is stored keeps SGD-08 to SGD-12:
\* the row locks of the DELETE, the foreign keys and the primary key are
\* enough, though SetServices validates before it takes any of them.
THEOREM PlacementsStaySound == Spec => []PlacementsSound
<1>1. PagesInv => PlacementsSound
  BY DEF PagesInv, LinksInv
<1> QED BY <1>1, PagesInit, PagesNext, PTL DEF Spec

\* A page is published only under a hostname whose certificate is stored,
\* also when the event is late, or belongs to an earlier page of the hostname.
THEOREM PublishedServes == Spec => []PublishedHasCertificate
<1>1. PagesInv => PublishedHasCertificate
  BY DEF PagesInv, TLSInv, DomainsInv, PublishedHasCertificate
<1> QED BY <1>1, PagesInit, PagesNext, PTL DEF Spec

\* SVCDEL-03 against concurrent requests: the FOR UPDATE of SoftDelete and
\* the FOR KEY SHARE of the inserted links exclude each other.
THEOREM DeletedAreDetached == Spec => DeletesDetached
<1>1. PagesInv /\ [Next]_vars =>
        [\A s \in Services : (svc[s] = "live" /\ svc'[s] = "deleted")
                             => \A p \in Pages : s \notin Linked(p)]_vars
  <2> SUFFICES ASSUME PagesInv, [Next]_vars, NEW s \in Services, svc[s] = "live", svc'[s] = "deleted",
                      NEW p \in Pages
               PROVE  s \notin Linked(p)
    OBVIOUS
  <2>1. svc \in [Services -> {"live", "deleted"}] /\ ServicesHeld
    BY DEF PagesInv, TypeOK
  <2>2. PICK c \in Clients : SoftDeleteCommit(c)
    BY ServiceSteps
  <2>3. req[c].op = "softdelete" /\ s = req[c].s
    BY <2>1, <2>2 DEF SoftDeleteCommit
  <2>4. Detached(s)
    BY <2>1, <2>3 DEF ServicesHeld
  <2> QED BY <2>4 DEF Detached
<1> QED BY <1>1, PagesInit, PagesNext, PTL DEF Spec, DeletesDetached

\* SPD-06: once a page has its domain, no request and no certificate event
\* gives it another; only its deletion takes it away.
THEOREM DomainAttachedOnce == Spec => AttachedOnce
<1>1. PagesInv /\ [Next]_vars =>
        [\A p \in Pages : (page[p].dom # Null /\ page'[p].state # "gone") => page'[p].dom = page[p].dom]_vars
  <2> SUFFICES ASSUME PagesInv, [Next]_vars, NEW p \in Pages, page[p].dom # Null, page'[p].state # "gone"
               PROVE  page'[p].dom = page[p].dom
    OBVIOUS
  <2>t. page \in [Pages -> Page] /\ PagesHeld /\ DomainsInv /\ \A c \in Clients : RequestShape(c)
    BY DEF PagesInv, LinksInv, TypeOK, TLSInv
  <2>1. CASE CreatePage
    <3>1. PICK q \in Pages, S \in SUBSET Services, d \in Domains \cup {Null} : InsertPage(q, d, S)
      BY <2>1 DEF CreatePage
    <3>2. p # q
      BY <2>t, <3>1 DEF InsertPage, DomainsInv, PageExists
    <3> QED BY <2>t, <3>1, <3>2 DEF InsertPage
  <2>2. ASSUME NEW c \in Clients, AttachDomain(c) PROVE page'[p].dom = page[p].dom
    <3>1. req[c].p \in Pages /\ page[req[c].p].dom = Null
      BY <2>2, <2>t DEF AttachDomain, PagesHeld, RequestShape
    <3> QED BY <2>t, <2>2, <3>1 DEF AttachDomain, Attached
  <2>3. ASSUME NEW c \in Clients, DeletePageCommit(c) PROVE page'[p].dom = page[p].dom
    <3>1. page'[p] = page[p] \/ page'[p].state = "gone"
      BY <2>t, <2>3 DEF DeletePageCommit
    <3> QED BY <3>1
  <2>4. ASSUME NEW r \in Replicas, CertStep(r) PROVE page'[p].dom = page[p].dom
    BY <2>4, CertificatePages
  <2>5. CASE UNCHANGED page
    BY <2>5
  <2> QED BY <2>1, <2>2, <2>3, <2>4, <2>5, PageSteps
<1> QED BY <1>1, PagesInit, PagesNext, PTL DEF Spec, AttachedOnce

\* A stored key is never taken back to an earlier one nor unsealed, whatever
\* backfills, issuances, renewals and crashes of the replicas overlap.
THEOREM KeysNeverTakenBack == Spec => KeysKept
<1>1. PagesInv /\ [Next]_vars =>
        [\A d \in Domains : /\ key'[d].v >= key[d].v
                            /\ key[d].sealed => key'[d].sealed]_vars
  <2> SUFFICES ASSUME PagesInv, [Next]_vars, NEW d \in Domains
               PROVE  key'[d].v >= key[d].v /\ (key[d].sealed => key'[d].sealed)
    OBVIOUS
  <2>1. key[d].v \in Nat
    BY DEF PagesInv, TypeOK
  <2>2. CASE UNCHANGED key
    BY <2>1, <2>2
  <2>3. ASSUME NEW r \in Replicas, CertStep(r)
        PROVE  key'[d].v >= key[d].v /\ (key[d].sealed => key'[d].sealed)
    BY <2>3, KeysStep DEF PagesInv, TLSInv
  <2> QED BY <2>2, <2>3, KeySteps
<1> QED BY <1>1, PagesInit, PagesNext, PTL DEF Spec, KeysKept
=============================================================================
