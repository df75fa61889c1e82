------------------------------- MODULE Pages -------------------------------
(***************************************************************************)
(* Status pages: which services a page shows and how they are grouped and  *)
(* nested, the domain a page is attached to, and how a certificate for its *)
(* hostname publishes it.                                                  *)
(*                                                                         *)
(* A request is a record of where its transaction is.  A transaction's     *)
(* writes appear with the step that commits them; until then it holds the  *)
(* locks PostgreSQL takes for it.  DELETE works on the rows of the         *)
(* snapshot it began with: while it waits for another transaction's rows,  *)
(* rows that one adds are not seen.                                        *)
(*                                                                         *)
(* Each domain stands for one hostname under it.  Names, positions and     *)
(* the environment banner of a page are left out.                          *)
(***************************************************************************)
EXTENDS Naturals, FiniteSets

CONSTANTS Clients,     \* requests in flight at once
          Replicas,    \* processes that serve TLS
          Pages, Services, Groups, Domains, Null,
          Workloads,   \* sets of kinds of requests; a behaviour has those of one set
          MaxRequests, \* bound on the requests begun
          MaxIssues,   \* bound on the issuances and renewals begun
          MaxCrashes   \* bound on the crashes of replicas

ASSUME PagesAssumption ==
  /\ Null \notin Pages \cup Services \cup Groups \cup Domains
  /\ Pages \cap {"none", "gone"} = {}
  /\ MaxRequests \in Nat /\ MaxIssues \in Nat /\ MaxCrashes \in Nat

VARIABLES load,    \* the workload of this behaviour
          svc,     \* services rows: "live" or soft-deleted
          page,    \* status_pages rows
          group,   \* status_page_service_groups: the page, or "none", "gone"
          link,    \* status_page_services rows, by page and service
          dom,     \* domains rows: the verification status
          key,     \* certmagic_storage: the private key of a hostname
          req,     \* requests in flight
          iss,     \* what each replica is doing for a certificate
          back,    \* the key backfill of each replica
          begun, issued, crashes

vars == <<load, svc, page, group, link, dom, key, req, iss, back, begun, issued, crashes>>
tlsVars == <<key, iss, back, issued, crashes>>

Place == [on : BOOLEAN, g : Groups \cup {Null}, par : Services \cup {Null}]
NoPlace == [on |-> FALSE, g |-> Null, par |-> Null]
Page == [state : {"none", "draft", "pending_tls", "published", "tls_failed", "gone"},
         dom : Domains \cup {Null}]

\* p, d, s: what it works on; old: links its DELETE found; new: links it adds;
\* gs: groups it deletes; res: the outcome of a lookup.
Request == [op : {"none", "set", "delete_page", "softdelete", "attach", "verify"},
            pc : {"clear", "wait", "insert", "groups", "page", "commit"},
            p : Pages \cup {Null}, d : Domains \cup {Null}, s : Services \cup {Null},
            old : SUBSET Services, new : [Services -> Place], gs : SUBSET Groups,
            res : {"pending", "verified", "error"}]

TypeOK ==
  /\ load \in Workloads
  /\ svc \in [Services -> {"live", "deleted"}]
  /\ page \in [Pages -> Page]
  /\ group \in [Groups -> Pages \cup {"none", "gone"}]
  /\ link \in [Pages -> [Services -> Place]]
  /\ dom \in [Domains -> {"none", "pending", "verified", "error", "gone"}]
  /\ key \in [Domains -> [v : Nat, sealed : BOOLEAN]]
  /\ req \in [Clients -> Request]
  /\ iss \in [Replicas -> [h : Domains \cup {Null}, renew : BOOLEAN,
                           pc : {"idle", "lock", "obtain", "obtained", "failed"}]]
  /\ back \in [Replicas -> [on : BOOLEAN, seen : [Domains -> Nat], done : SUBSET Domains]]
  /\ begun \in 0..MaxRequests /\ issued \in 0..MaxIssues /\ crashes \in 0..MaxCrashes

NoRequest == [op |-> "none", pc |-> "clear", p |-> Null, d |-> Null, s |-> Null, old |-> {},
              new |-> [s \in Services |-> NoPlace], gs |-> {}, res |-> "pending"]
NoIssue == [h |-> Null, renew |-> FALSE, pc |-> "idle"]
NoBackfill == [on |-> FALSE, seen |-> [d \in Domains |-> 0], done |-> {}]

\* p is a draft without a domain; the old pages were published under d long
\* ago, and its private key was stored before keys were sealed.
Stored(p, old, d) ==
  /\ page = [q \in Pages |-> IF q = p THEN [state |-> "draft", dom |-> Null]
                             ELSE IF q \in old THEN [state |-> "published", dom |-> d]
                             ELSE [state |-> "none", dom |-> Null]]
  /\ dom = [e \in Domains |-> IF e # d THEN "pending" ELSE IF old # {} THEN "verified" ELSE "none"]
  /\ key = [e \in Domains |-> [v |-> IF old # {} /\ e = d THEN 1 ELSE 0, sealed |-> FALSE]]

\* A draft and at most one published page; the other domains are registered.
Init ==
  /\ load \in Workloads
  /\ svc = [s \in Services |-> "live"]
  /\ group = [g \in Groups |-> "none"]
  /\ link = [p \in Pages |-> [s \in Services |-> NoPlace]]
  /\ \E p \in Pages : \E old \in SUBSET (Pages \ {p}), d \in Domains :
       Cardinality(old) <= 1 /\ Stored(p, old, d)
  /\ req = [c \in Clients |-> NoRequest]
  /\ iss = [r \in Replicas |-> NoIssue] /\ back = [r \in Replicas |-> NoBackfill]
  /\ begun = 0 /\ issued = 0 /\ crashes = 0

-----------------------------------------------------------------------------
Counted(kind) == kind \in load /\ begun < MaxRequests /\ begun' = begun + 1
Begin(c, r) == req[c].op = "none" /\ Counted(r.op) /\ req' = [req EXCEPT ![c] = r]
Goto(c, pc) == req' = [req EXCEPT ![c].pc = pc] /\ UNCHANGED begun
End(c) == req' = [req EXCEPT ![c] = NoRequest] /\ UNCHANGED begun

PageExists(p) == page[p].state \notin {"none", "gone"}
DomainExists(d) == dom[d] \notin {"none", "gone"}
Linked(p) == {s \in Services : link[p][s].on}
Submitted(new) == {s \in Services : new[s].on}
Parents(new) == {new[s].par : s \in Submitted(new)} \ {Null}
GroupsOf(new) == {new[s].g : s \in Submitted(new)} \ {Null}

-----------------------------------------------------------------------------
(* Locks held by transactions in progress.                                  *)

\* It has inserted links and not committed: FOR KEY SHARE on the page, the
\* services and the groups they refer to.
Inserted(c) == req[c].op = "set" /\ req[c].pc = "commit"
\* FOR UPDATE on the row of p, or of s.
PageLocked(p) == \E c \in Clients : req[c].op = "attach" /\ req[c].p = p
ServiceLocked(s) == \E c \in Clients : req[c].op = "softdelete" /\ req[c].s = s
GroupLocked(g) == \E c \in Clients : g \in req[c].gs
PageShared(p) == \E c \in Clients : Inserted(c) /\ req[c].p = p
ServiceShared(s) ==
  \E c \in Clients : Inserted(c) /\ s \in Submitted(req[c].new) \cup Parents(req[c].new)
GroupShared(g) == \E c \in Clients : Inserted(c) /\ g \in GroupsOf(req[c].new)
\* Its DELETE has run: it holds the rows it found.
HoldsLinks(c, p) == req[c].p = p /\ req[c].pc \in {"insert", "commit", "groups", "page"}

-----------------------------------------------------------------------------
(* Services of a page.                                                      *)

\* SGD-13: a parent that this call takes off the page is forgotten.
Sanitized(new, existing) ==
  [s \in Services |->
     IF /\ new[s].on /\ new[s].par # s
        /\ new[s].par \in existing \ Submitted(new)
     THEN [new[s] EXCEPT !.par = Null] ELSE new[s]]

\* Mutant: a parent may have a parent.
validateUnbounded(new, groups) ==
  /\ GroupsOf(new) \subseteq groups
  /\ \A s \in Submitted(new) : new[s].par # s
  /\ Parents(new) \subseteq Submitted(new)

\* ErrGroupCrossPage, ErrSelfReference, ErrParentNotInSet, ErrMaxDepthExceeded.
validate(new, groups) ==
  /\ GroupsOf(new) \subseteq groups
  /\ \A s \in Submitted(new) : new[s].par # s
  /\ Parents(new) \subseteq Submitted(new)
  /\ \A s \in Parents(new) : new[s].par = Null

Placements ==
  [Services -> {NoPlace} \cup [on : {TRUE}, g : Groups \cup {Null}, par : Services \cup {Null}]]

\* The page's groups.
validGroupIDs(p) == {g \in Groups : group[g] = p}

SetServices(c) ==
  /\ \E p \in Pages, ask \in Placements :
       LET new == Sanitized(ask, Linked(p)) IN
       /\ PageExists(p)
       /\ validate(new, validGroupIDs(p))
       /\ Begin(c, [NoRequest EXCEPT !.op = "set", !.p = p, !.new = new])
  /\ UNCHANGED <<load, svc, page, group, link, dom, tlsVars>>

\* DELETE FROM status_page_services: its snapshot, then its wait.
ClearLinks(c) ==
  /\ req[c].op \in {"set", "delete_page"} /\ req[c].pc = "clear"
  /\ req' = [req EXCEPT ![c].old = Linked(req[c].p), ![c].pc = "wait"]
  /\ UNCHANGED <<load, svc, page, group, link, dom, tlsVars, begun>>

Cleared(c) ==
  /\ req[c].pc = "wait"
  /\ \A d \in Clients \ {c} : HoldsLinks(d, req[c].p) => req[d].old \cap req[c].old = {}
  /\ Goto(c, IF req[c].op = "set" THEN "insert" ELSE "groups")
  /\ UNCHANGED <<load, svc, page, group, link, dom, tlsVars>>

\* The foreign keys wait for locked rows; the primary key waits for the same
\* pair in another transaction.  Any violation ends the request.
InsertLinks(c) ==
  LET r == req[c]
      rows == Submitted(r.new) IN
  /\ r.op = "set" /\ r.pc = "insert"
  /\ rows # {} => ~PageLocked(r.p)
  /\ \A s \in rows \cup Parents(r.new) : ~ServiceLocked(s)
  /\ \A g \in GroupsOf(r.new) : ~GroupLocked(g)
  /\ \A d \in Clients \ {c} : (Inserted(d) /\ req[d].p = r.p) => Submitted(req[d].new) \cap rows = {}
  /\ IF /\ rows # {} => PageExists(r.p)
        /\ \A g \in GroupsOf(r.new) : group[g] = r.p
        /\ rows \cap (Linked(r.p) \ r.old) = {}
     THEN Goto(c, "commit") ELSE End(c)
  /\ UNCHANGED <<load, svc, page, group, link, dom, tlsVars>>

\* Who waits for the links that a transaction deletes finds them gone once it
\* commits.
Committed(c) ==
  /\ req' = [d \in Clients |-> IF d = c THEN NoRequest
                               ELSE IF req[d].pc = "wait" /\ req[d].p = req[c].p
                               THEN [req[d] EXCEPT !.old = @ \ req[c].old] ELSE req[d]]
  /\ UNCHANGED begun

CommitLinks(c) ==
  LET r == req[c] IN
  /\ Inserted(c)
  /\ link' = [link EXCEPT ![r.p] =
       [s \in Services |-> IF r.new[s].on THEN r.new[s] ELSE IF s \in r.old THEN NoPlace ELSE @[s]]]
  /\ Committed(c)
  /\ UNCHANGED <<load, svc, page, group, dom, tlsVars>>

InsertGroup(p, g) ==
  /\ PageExists(p) /\ ~PageLocked(p) /\ group[g] = "none"
  /\ group' = [group EXCEPT ![g] = p]

CreateGroup ==
  /\ Counted("group")
  /\ \E p \in Pages, g \in Groups : InsertGroup(p, g)
  /\ UNCHANGED <<load, svc, page, link, dom, tlsVars, req>>

\* group_id is ON DELETE SET NULL.
DeleteGroupRow(g) ==
  /\ group[g] \in Pages /\ ~GroupShared(g) /\ ~GroupLocked(g)
  /\ \A c \in Clients : HoldsLinks(c, group[g]) => \A s \in req[c].old : link[group[g]][s].g # g
  /\ group' = [group EXCEPT ![g] = "gone"]
  /\ link' = [p \in Pages |-> [s \in Services |->
                IF link[p][s].g = g THEN [link[p][s] EXCEPT !.g = Null] ELSE link[p][s]]]

DeleteGroup ==
  /\ Counted("group")
  /\ \E g \in Groups : DeleteGroupRow(g)
  /\ UNCHANGED <<load, svc, page, dom, tlsVars, req>>

Detached(s) == \A p \in Pages : s \notin Linked(p)

\* Mutant: the service's row is not locked before the check.
SoftDeleteUnlocked(s) == svc[s] = "live" /\ Detached(s)

\* FOR UPDATE, then the check that no page shows the service.
SoftDelete(s) == svc[s] = "live" /\ ~ServiceShared(s) /\ ~ServiceLocked(s) /\ Detached(s)

DeleteService(c) ==
  /\ \E s \in Services :
       SoftDelete(s) /\ Begin(c, [NoRequest EXCEPT !.op = "softdelete", !.pc = "commit", !.s = s])
  /\ UNCHANGED <<load, svc, page, group, link, dom, tlsVars>>

SoftDeleteCommit(c) ==
  /\ req[c].op = "softdelete"
  /\ svc' = [svc EXCEPT ![req[c].s] = "deleted"]
  /\ End(c)
  /\ UNCHANGED <<load, page, group, link, dom, tlsVars>>

-----------------------------------------------------------------------------
(* Pages and their domains.                                                 *)

DomainTaken(d) == \E p \in Pages : page[p].dom = d

\* The page with its links, in one transaction; the state is the column's
\* default even when a domain comes with it.
InsertPage(p, d, S) ==
  /\ page[p].state = "none"
  /\ d # Null => DomainExists(d) /\ ~DomainTaken(d)
  /\ \A s \in S : ~ServiceLocked(s)
  /\ page' = [page EXCEPT ![p] = [state |-> "draft", dom |-> d]]
  /\ link' = [link EXCEPT ![p] = [s \in Services |-> [NoPlace EXCEPT !.on = s \in S]]]

CreatePage ==
  /\ Counted("create")
  /\ \E p \in Pages, S \in SUBSET Services, d \in Domains \cup {Null} : InsertPage(p, d, S)
  /\ UNCHANGED <<load, svc, group, dom, tlsVars, req>>

DeletePage(c) ==
  /\ \E p \in Pages : PageExists(p) /\ Begin(c, [NoRequest EXCEPT !.op = "delete_page", !.p = p])
  /\ UNCHANGED <<load, svc, page, group, link, dom, tlsVars>>

DeleteGroups(c) ==
  LET gs == {g \in Groups : group[g] = req[c].p} IN
  /\ req[c].op = "delete_page" /\ req[c].pc = "groups"
  /\ \A g \in gs : ~GroupShared(g) /\ ~GroupLocked(g)
  /\ req' = [req EXCEPT ![c].gs = gs, ![c].pc = "page"]
  /\ UNCHANGED <<load, svc, page, group, link, dom, tlsVars, begun>>

\* Links or groups that came in the meantime break a foreign key.
DeletePageCommit(c) ==
  LET r == req[c] IN
  /\ r.op = "delete_page" /\ r.pc = "page" /\ ~PageShared(r.p) /\ ~PageLocked(r.p)
  /\ IF PageExists(r.p) /\ Linked(r.p) \subseteq r.old /\ \A g \in Groups : group[g] = r.p => g \in r.gs
     THEN /\ page' = [page EXCEPT ![r.p] = [state |-> "gone", dom |-> Null]]
          /\ link' = [link EXCEPT ![r.p] = [s \in Services |-> NoPlace]]
          /\ group' = [g \in Groups |-> IF g \in r.gs THEN "gone" ELSE group[g]]
          /\ Committed(c)
     ELSE UNCHANGED <<page, link, group>> /\ End(c)
  /\ UNCHANGED <<load, svc, dom, tlsVars>>

\* Mutant: the page's row is read without FOR UPDATE.
LockPageNone(c) ==
  /\ \E p \in Pages, d \in Domains :
       /\ PageExists(p) /\ page[p].dom = Null
       /\ Begin(c, [NoRequest EXCEPT !.op = "attach", !.pc = "commit", !.p = p, !.d = d])
  /\ UNCHANGED <<load, svc, page, group, link, dom, tlsVars>>

\* AttachDomain: SELECT domain_id ... FOR UPDATE.
LockPage(c) ==
  /\ \E p \in Pages, d \in Domains :
       /\ PageExists(p) /\ page[p].dom = Null /\ ~PageLocked(p) /\ ~PageShared(p)
       /\ Begin(c, [NoRequest EXCEPT !.op = "attach", !.pc = "commit", !.p = p, !.d = d])
  /\ UNCHANGED <<load, svc, page, group, link, dom, tlsVars>>

\* ErrInvalidDomain and ErrDuplicateDomainSubdomain leave the row as it is.
Attached(p, d) ==
  IF DomainExists(d) /\ ~DomainTaken(d)
  THEN [page EXCEPT ![p] = [state |-> "pending_tls", dom |-> d]] ELSE page

AttachDomain(c) ==
  /\ req[c].op = "attach"
  /\ page' = Attached(req[c].p, req[c].d)
  /\ End(c)
  /\ UNCHANGED <<load, svc, group, link, dom, tlsVars>>

InsertDomain(d) == dom[d] = "none" /\ dom' = [dom EXCEPT ![d] = "pending"]

CreateDomain ==
  /\ Counted("domain")
  /\ \E d \in Domains : InsertDomain(d)
  /\ UNCHANGED <<load, svc, page, group, link, tlsVars, req>>

\* ErrDomainInUse while a page has it.
DeleteDomainRow(d) == DomainExists(d) /\ ~DomainTaken(d) /\ dom' = [dom EXCEPT ![d] = "gone"]

DeleteDomain ==
  /\ Counted("domain")
  /\ \E d \in Domains : DeleteDomainRow(d)
  /\ UNCHANGED <<load, svc, page, group, link, tlsVars, req>>

\* The TXT record: missing or no answer in time, another value, the token.
TXTAnswers == {"absent", "other", "token"}
mapDomainVerificationResult(answer) == IF answer = "token" THEN "verified" ELSE "error"

\* The row is read and the TXT record looked up; the result is written later.
Verify(c) ==
  /\ \E d \in Domains, answer \in TXTAnswers :
       /\ DomainExists(d)
       /\ Begin(c, [NoRequest EXCEPT !.op = "verify", !.pc = "commit", !.d = d,
                                     !.res = mapDomainVerificationResult(answer)])
  /\ UNCHANGED <<load, svc, page, group, link, dom, tlsVars>>

SetVerificationResult(c) ==
  /\ req[c].op = "verify"
  /\ dom' = IF DomainExists(req[c].d) THEN [dom EXCEPT ![req[c].d] = req[c].res] ELSE dom
  /\ End(c)
  /\ UNCHANGED <<load, svc, page, group, link, tlsVars>>

\* An error, a lost connection or a deadlock victim: rolled back.
Fail(c) ==
  /\ req[c].op # "none"
  /\ End(c)
  /\ UNCHANGED <<load, svc, page, group, link, dom, tlsVars>>

-----------------------------------------------------------------------------
(* Certificates.                                                            *)

\* The hostname is a page's, and the page is not a draft.
HostPolicy(d) == \E p \in Pages : page[p].dom = d /\ PageExists(p) /\ page[p].state # "draft"

\* A handshake for a hostname without a stored certificate, or a renewal of
\* a stored one, which is asked for its permission too.
Issue(r) ==
  /\ "tls" \in load /\ issued < MaxIssues /\ iss[r].pc = "idle"
  /\ \E d \in Domains :
       /\ HostPolicy(d)
       /\ iss' = [iss EXCEPT ![r] = [h |-> d, renew |-> key[d].v > 0, pc |-> "lock"]]
  /\ issued' = issued + 1
  /\ UNCHANGED <<load, svc, page, group, link, dom, key, req, back, begun, crashes>>

\* The advisory lock of the hostname.  Who finds a certificate stored by now
\* uses it; no event is emitted for it.
Lock(r) ==
  LET d == iss[r].h IN
  /\ iss[r].pc = "lock"
  /\ \A q \in Replicas \ {r} : ~(iss[q].h = d /\ iss[q].pc \in {"obtain", "obtained", "failed"})
  /\ iss' = IF key[d].v > 0 /\ ~iss[r].renew THEN [iss EXCEPT ![r] = NoIssue]
            ELSE [iss EXCEPT ![r].pc = "obtain"]
  /\ UNCHANGED <<load, svc, page, group, link, dom, key, req, back, begun, issued, crashes>>

\* The backfill's UPDATE holds the row until it commits.
KeyFree(d) == \A q \in Replicas : d \notin back[q].done

\* The key is sealed before it is stored, whatever was there.
Store(r) ==
  LET d == iss[r].h IN
  /\ iss[r].pc = "obtain" /\ KeyFree(d)
  /\ key' = [key EXCEPT ![d] = [v |-> @.v + 1, sealed |-> TRUE]]
  /\ iss' = [iss EXCEPT ![r].pc = "obtained"]
  /\ UNCHANGED <<load, svc, page, group, link, dom, req, back, begun, issued, crashes>>

\* The certificate authority refuses.
Refused(r) ==
  /\ iss[r].pc = "obtain"
  /\ iss' = [iss EXCEPT ![r].pc = "failed"]
  /\ UNCHANGED <<load, svc, page, group, link, dom, key, req, back, begun, issued, crashes>>

\* The advisory lock goes with its session's connection.
Unlock(r) == iss' = [iss EXCEPT ![r] = NoIssue]

Mark(d, state) == [p \in Pages |-> IF page[p].dom = d THEN [page[p] EXCEPT !.state = state] ELSE page[p]]

\* Mutant: every event publishes the page.
OnEventAny(r) ==
  /\ iss[r].pc \in {"obtained", "failed"}
  /\ page' = Mark(iss[r].h, "published")
  /\ Unlock(r)
  /\ UNCHANGED <<load, svc, group, link, dom, key, req, back, begun, issued, crashes>>

\* MarkPublished or MarkTLSFailed, by hostname; then Unlock.
OnEvent(r) ==
  /\ iss[r].pc \in {"obtained", "failed"}
  /\ page' = Mark(iss[r].h, IF iss[r].pc = "obtained" THEN "published" ELSE "tls_failed")
  /\ Unlock(r)
  /\ UNCHANGED <<load, svc, group, link, dom, key, req, back, begun, issued, crashes>>

\* The replica dies, with its locks and its transaction.
Crash(r) ==
  /\ crashes < MaxCrashes
  /\ iss[r] # NoIssue \/ back[r].on
  /\ iss' = [iss EXCEPT ![r] = NoIssue] /\ back' = [back EXCEPT ![r] = NoBackfill]
  /\ crashes' = crashes + 1
  /\ UNCHANGED <<load, svc, page, group, link, dom, key, req, begun, issued>>

-----------------------------------------------------------------------------
(* The key backfill at start-up.                                            *)

\* pg_try_advisory_xact_lock, and the rows that are not sealed.
EncryptLegacyKeys(r) ==
  /\ "tls" \in load /\ \A q \in Replicas : ~back[q].on
  /\ \E d \in Domains : key[d].v > 0 /\ ~key[d].sealed
  /\ back' = [back EXCEPT ![r] = [on |-> TRUE, done |-> {},
                 seen |-> [d \in Domains |-> IF key[d].sealed THEN 0 ELSE key[d].v]]]
  /\ UNCHANGED <<load, svc, page, group, link, dom, key, req, iss, begun, issued, crashes>>

\* Mutant: without AND value = $3.
SealRowBlind(r) ==
  /\ back[r].on
  /\ \E d \in Domains : /\ back[r].seen[d] > 0 /\ d \notin back[r].done
                        /\ back' = [back EXCEPT ![r].done = @ \cup {d}]
  /\ UNCHANGED <<load, svc, page, group, link, dom, key, req, iss, begun, issued, crashes>>

\* UPDATE ... WHERE value = what was read.
SealRow(r) ==
  /\ back[r].on
  /\ \E d \in Domains :
       /\ back[r].seen[d] > 0 /\ d \notin back[r].done
       /\ back' = IF key[d] = [v |-> back[r].seen[d], sealed |-> FALSE]
                  THEN [back EXCEPT ![r].done = @ \cup {d}] ELSE [back EXCEPT ![r].seen[d] = 0]
  /\ UNCHANGED <<load, svc, page, group, link, dom, key, req, iss, begun, issued, crashes>>

\* What was read, sealed.
CommitSealed(r) ==
  /\ back[r].on /\ \A d \in Domains : back[r].seen[d] > 0 => d \in back[r].done
  /\ key' = [d \in Domains |-> IF d \in back[r].done THEN [v |-> back[r].seen[d], sealed |-> TRUE]
                               ELSE key[d]]
  /\ back' = [back EXCEPT ![r] = NoBackfill]
  /\ UNCHANGED <<load, svc, page, group, link, dom, req, iss, begun, issued, crashes>>

-----------------------------------------------------------------------------
PlacementStep(c) ==
  \/ SetServices(c) \/ ClearLinks(c) \/ Cleared(c) \/ InsertLinks(c) \/ CommitLinks(c)
  \/ DeleteService(c) \/ SoftDeleteCommit(c)

PageStep(c) ==
  \/ DeletePage(c) \/ DeleteGroups(c) \/ DeletePageCommit(c) \/ LockPage(c) \/ AttachDomain(c)
  \/ Verify(c) \/ SetVerificationResult(c) \/ Fail(c)

IssueStep(r) == Lock(r) \/ Store(r) \/ Refused(r) \/ OnEvent(r)
SealStep(r) == SealRow(r) \/ CommitSealed(r)

Next ==
  \/ CreateGroup \/ DeleteGroup \/ CreatePage \/ CreateDomain \/ DeleteDomain
  \/ \E c \in Clients : PlacementStep(c) \/ PageStep(c)
  \/ \E r \in Replicas : Issue(r) \/ IssueStep(r) \/ EncryptLegacyKeys(r) \/ SealStep(r) \/ Crash(r)

Spec == Init /\ [][Next]_vars

-----------------------------------------------------------------------------
(* Correctness.                                                             *)

\* SGD-08 to SGD-12 on what is stored, also when calls that were each valid
\* on their own run at once: groups are the page's own, a parent is shown on
\* the page and has no parent, and only pages that exist show anything.
PlacementsSound ==
  \A p \in Pages :
    /\ ~PageExists(p) => Linked(p) = {}
    /\ \A s \in Linked(p) :
         /\ link[p][s].g # Null => group[link[p][s].g] = p
         /\ link[p][s].par # Null => /\ link[p][s].par \in Linked(p)
                                     /\ link[p][link[p][s].par].par = Null

\* SVCDEL-03: a service is not deleted while a page shows it.
DeletesDetached ==
  [][\A s \in Services : (svc[s] = "live" /\ svc'[s] = "deleted")
                         => \A p \in Pages : s \notin Linked(p)]_vars

\* SPD-06: a page gets its domain exactly once, whoever asks at the same time.
AttachedOnce ==
  [][\A p \in Pages : (page[p].dom # Null /\ page'[p].state # "gone") => page'[p].dom = page[p].dom]_vars

\* Nothing is served for a hostname without a certificate: a late event, or
\* one for an earlier page of that hostname, publishes only if there is one.
PublishedHasCertificate ==
  \A p \in Pages : page[p].state = "published" => key[page[p].dom].v > 0

\* The backfill never puts back a key that was renewed since it read it, and
\* a sealed key is never replaced by a readable one.
KeysKept ==
  [][\A d \in Domains : /\ key'[d].v >= key[d].v
                        /\ key[d].sealed => key'[d].sealed]_vars

=============================================================================
