------------------------------ MODULE Accounts ------------------------------
(***************************************************************************)
(* One user's credentials: sessions, password, two-factor secret, recovery *)
(* codes, login challenges and reset tokens, under concurrent requests.    *)
(*                                                                         *)
(* A request is a record of where its handler is; every step of it is one  *)
(* statement with its own effect.  Public routes commit each statement;    *)
(* routes behind TenantContext run in one transaction, whose now() is the  *)
(* time it began and whose writes appear when it commits.  The last write  *)
(* of such a transaction and its commit are one step.                      *)
(*                                                                         *)
(* A tick of the clock is a second: the precision of a token's iat, which  *)
(* is floored.  sessions_revoked_at has a fraction, so a token of the same *)
(* second counts as older.  What the user types is right; a wrong password *)
(* or code ends the request without effect and is left out.                *)
(***************************************************************************)
EXTENDS Naturals, FiniteSets

CONSTANTS Clients,     \* requests in flight at once
          Sessions,    \* ids of session rows
          Challenges,  \* ids of two_factor_challenges rows
          Codes,       \* recovery codes; a batch is one of them
          Tokens,      \* password reset tokens
          Null,
          MaxTime,     \* bound on the clock
          MaxChanges   \* bound on password changes and resets begun

ASSUME NullAssumption == /\ Null \notin Sessions \cup Challenges \cup Codes \cup Tokens \cup Nat
                         /\ MaxTime \in Nat /\ MaxChanges \in Nat

VARIABLES pw,         \* users.password_hash: which of the user's passwords
          revokedAt,  \* users.sessions_revoked_at
          sess,       \* sessions rows and the newest token issued for each
          secret,     \* two_factor_secrets: "none", "pending" or "enabled"
          code,       \* two_factor_recovery_codes
          chal,       \* two_factor_challenges
          token,      \* password_reset_tokens
          req,        \* requests in flight
          now,
          changes,    \* password changes begun so far
          ended       \* history: sessions that were told to end

vars == <<pw, revokedAt, sess, secret, code, chal, token, req, now, changes, ended>>

Times == 0..MaxTime
RowStates == {"none", "unused", "used"}   \* "used": used or expired

Session == [state : {"none", "live", "revoked"}, iat : Times \cup {Null},
            chal : Challenges \cup {Null}, code : Codes \cup {Null}]

\* op: the handler; pc: its next statement; at: when its transaction began;
\* the rows it works on.
Request == [op : {"none", "login", "verify", "switch", "change", "reset",
                  "enroll", "confirm", "disable"},
            pc : {"start", "challenge", "issue", "token", "code", "claim", "mark", "write",
                  "update", "used", "others", "revoke", "codes", "commit"},
            at : Times, s : Sessions \cup {Null}, chal : Challenges \cup {Null},
            code : Codes \cup {Null}, token : Tokens \cup {Null}]

TypeOK ==
  /\ pw \in 0..MaxChanges /\ changes \in 0..MaxChanges
  /\ revokedAt \in Times \cup {Null} /\ now \in Times
  /\ sess \in [Sessions -> Session]
  /\ secret \in {"none", "pending", "enabled"}
  /\ code \in [Codes -> {"none", "unused", "used", "deleted"}]
  /\ chal \in [Challenges -> RowStates]
  /\ token \in [Tokens -> RowStates]
  /\ req \in [Clients -> Request]
  /\ ended \subseteq Sessions

NoSession == [state |-> "none", iat |-> Null, chal |-> Null, code |-> Null]
NoRequest == [op |-> "none", pc |-> "start", at |-> 0, s |-> Null, chal |-> Null,
              code |-> Null, token |-> Null]

\* The user may have enrolled long ago: one unused code, no session left.
Init ==
  /\ pw = 0 /\ revokedAt = Null /\ now = 0 /\ changes = 0 /\ ended = {}
  /\ sess = [s \in Sessions |-> NoSession]
  /\ \/ secret = "none" /\ code = [k \in Codes |-> "none"]
     \/ secret = "enabled" /\ \E k \in Codes : code = [x \in Codes |-> IF x = k THEN "unused" ELSE "none"]
  /\ chal = [h \in Challenges |-> "none"]
  /\ token = [t \in Tokens |-> "none"]
  /\ req = [c \in Clients |-> NoRequest]

-----------------------------------------------------------------------------
Tick ==
  /\ now < MaxTime
  /\ now' = now + 1
  /\ UNCHANGED <<pw, revokedAt, sess, secret, code, chal, token, req, changes, ended>>

Begin(c, r) == req[c].op = "none" /\ req' = [req EXCEPT ![c] = r]
Goto(c, pc) == req' = [req EXCEPT ![c].pc = pc]
End(c) == req' = [req EXCEPT ![c] = NoRequest]
At(c, op, pc) == req[c].op = op /\ req[c].pc = pc

\* Mutant: only the session row is looked at.
AcceptedByRow(s) == sess[s].state = "live" /\ sess[s].iat # Null

\* RequireAuth lets the newest token of a session pass.
Accepted(s) ==
  /\ sess[s].state = "live" /\ sess[s].iat # Null
  /\ revokedAt # Null => sess[s].iat > revokedAt

\* Sessions whose login had finished.
Issued == {s \in Sessions : sess[s].iat # Null}

-----------------------------------------------------------------------------
(* Login, VerifyTwoFactor, issueSessionForUser.                             *)

\* GetByEmail, VerifyPassword and GetSecret, which decides what comes next.
Login(c) ==
  /\ Begin(c, [NoRequest EXCEPT !.op = "login",
                                !.pc = IF secret = "enabled" THEN "challenge" ELSE "issue"])
  /\ UNCHANGED <<pw, revokedAt, sess, secret, code, chal, token, now, changes, ended>>

issueTwoFactorChallenge(c) ==
  /\ At(c, "login", "challenge")
  /\ \E h \in Challenges : chal[h] = "none" /\ chal' = [chal EXCEPT ![h] = "unused"]
  /\ End(c)
  /\ UNCHANGED <<pw, revokedAt, sess, secret, code, token, now, changes, ended>>

\* Lookup and GetSecret of VerifyTwoFactor.
VerifyTwoFactor(c) ==
  /\ secret = "enabled"
  /\ \E h \in Challenges, pc \in {"code", "mark"} :
       /\ chal[h] = "unused"
       /\ Begin(c, [NoRequest EXCEPT !.op = "verify", !.pc = pc, !.chal = h])
  /\ UNCHANGED <<pw, revokedAt, sess, secret, code, chal, token, now, changes, ended>>

\* ConsumeRecoveryCode: the unused hashes are read, the matching one claimed.
ListRecoveryCodes(c) ==
  /\ At(c, "verify", "code")
  /\ \E k \in Codes : /\ code[k] = "unused"
                      /\ req' = [req EXCEPT ![c].code = k, ![c].pc = "claim"]
  /\ UNCHANGED <<pw, revokedAt, sess, secret, code, chal, token, now, changes, ended>>

\* Mutant: the claim does not look at used_at again.
ConsumeRecoveryCodeBlind(c) ==
  /\ At(c, "verify", "claim")
  /\ code[req[c].code] # "deleted"
  /\ code' = [code EXCEPT ![req[c].code] = "used"]
  /\ Goto(c, "mark")
  /\ UNCHANGED <<pw, revokedAt, sess, secret, chal, token, now, changes, ended>>

ConsumeRecoveryCode(c) ==
  /\ At(c, "verify", "claim")
  /\ IF code[req[c].code] = "unused"
     THEN code' = [code EXCEPT ![req[c].code] = "used"] /\ Goto(c, "mark")
     ELSE UNCHANGED code /\ End(c)
  /\ UNCHANGED <<pw, revokedAt, sess, secret, chal, token, now, changes, ended>>

MarkUsed(c) ==
  /\ At(c, "verify", "mark")
  /\ IF chal[req[c].chal] = "unused"
     THEN chal' = [chal EXCEPT ![req[c].chal] = "used"] /\ Goto(c, "issue")
     ELSE UNCHANGED chal /\ End(c)
  /\ UNCHANGED <<pw, revokedAt, sess, secret, code, token, now, changes, ended>>

\* The row first, then the token, whose iat is read when it is signed.
CreateSession(c) ==
  /\ req[c].op \in {"login", "verify"} /\ req[c].pc = "issue"
  /\ \E s \in Sessions :
       /\ sess[s].state = "none"
       /\ sess' = [sess EXCEPT ![s] = [state |-> "live", iat |-> Null,
                                       chal |-> req[c].chal, code |-> req[c].code]]
       /\ req' = [req EXCEPT ![c].s = s, ![c].pc = "token"]
  /\ UNCHANGED <<pw, revokedAt, secret, code, chal, token, now, changes, ended>>

IssueSessionWithTenant(c) ==
  /\ req[c].op \in {"login", "verify", "switch"} /\ req[c].pc = "token"
  /\ sess' = [sess EXCEPT ![req[c].s].iat = now]
  /\ End(c)
  /\ UNCHANGED <<pw, revokedAt, secret, code, chal, token, now, changes, ended>>

\* SwitchTenant keeps the row and signs a fresh token for it.
SwitchTenant(c) ==
  /\ \E s \in Sessions :
       /\ Accepted(s)
       /\ Begin(c, [NoRequest EXCEPT !.op = "switch", !.pc = "token", !.s = s])
  /\ UNCHANGED <<pw, revokedAt, sess, secret, code, chal, token, now, changes, ended>>

-----------------------------------------------------------------------------
(* Ending sessions.                                                         *)

\* SET revoked_at = now() WHERE revoked_at IS NULL, on the rows S.
RevokeRows(S) ==
  /\ \E s \in S : sess[s].state = "live"
  /\ sess' = [s \in Sessions |-> IF s \in S /\ sess[s].state = "live"
                                 THEN [sess[s] EXCEPT !.state = "revoked"] ELSE sess[s]]
  /\ ended' = ended \cup {s \in S : sess[s].state = "live"}
  /\ UNCHANGED <<pw, revokedAt, secret, code, chal, token, req, now, changes>>

Logout == \E s \in Sessions : Accepted(s) /\ RevokeRows({s})

\* SessionsHandler.Revoke: any row of the user's but the caller's own.
Revoke == \E me \in Sessions : Accepted(me) /\ \E s \in Issued \ {me} : RevokeRows({s})

\* An owner changed the user's role.
RevokeAllForUser == RevokeRows(Sessions)

\* The sessions that a revocation dated at must end: the ones issued until
\* then, but for one that SwitchTenant is just issuing anew.
Told(at) == {s \in Issued : /\ sess[s].iat <= at
                            /\ \A d \in Clients : ~(req[d].op = "switch" /\ req[d].s = s)}

\* sessions_revoked_at is overwritten, not raised: one that is dated earlier
\* than another in force lets the sessions issued in between pass again.
Reopened(at) == {s \in Issued : sess[s].state = "live" /\ sess[s].iat > at}

ChangePassword(c) ==
  /\ changes < MaxChanges
  /\ \E s \in Sessions : Accepted(s)
  /\ Begin(c, [NoRequest EXCEPT !.op = "change", !.pc = "write", !.at = now])
  /\ changes' = changes + 1
  /\ UNCHANGED <<pw, revokedAt, sess, secret, code, chal, token, now, ended>>

\* Mutant: the sessions are left alone.
ChangePasswordOnly(c) ==
  /\ At(c, "change", "write")
  /\ pw' = changes /\ ended' = ended \cup Told(req[c].at)
  /\ End(c)
  /\ UNCHANGED <<revokedAt, sess, secret, code, chal, token, now, changes>>

\* UpdatePasswordHash, RevokeSessions and the commit: now() is the time the
\* transaction began.
PasswordChanged(c) ==
  /\ At(c, "change", "write")
  /\ pw' = changes /\ revokedAt' = req[c].at
  /\ ended' = (ended \ Reopened(req[c].at)) \cup Told(req[c].at)
  /\ End(c)
  /\ UNCHANGED <<sess, secret, code, chal, token, now, changes>>

-----------------------------------------------------------------------------
(* Password reset: Request's goroutine, and Confirm statement by statement. *)

issueAndSendPasswordReset(t) ==
  /\ token[t] = "none"
  /\ token' = [token EXCEPT ![t] = "unused"]
  /\ UNCHANGED <<pw, revokedAt, sess, secret, code, chal, req, now, changes, ended>>

Confirm(c) ==
  /\ changes < MaxChanges
  /\ \E t \in Tokens :
       /\ token[t] = "unused"
       /\ Begin(c, [NoRequest EXCEPT !.op = "reset", !.pc = "update", !.token = t])
  /\ changes' = changes + 1
  /\ UNCHANGED <<pw, revokedAt, sess, secret, code, chal, token, now, ended>>

UpdatePasswordHash(c) ==
  /\ At(c, "reset", "update")
  /\ pw' = changes
  /\ Goto(c, "used")
  /\ UNCHANGED <<revokedAt, sess, secret, code, chal, token, now, changes, ended>>

MarkTokenUsed(c) ==
  /\ At(c, "reset", "used")
  /\ token' = [token EXCEPT ![req[c].token] = "used"]
  /\ Goto(c, "others")
  /\ UNCHANGED <<pw, revokedAt, sess, secret, code, chal, now, changes, ended>>

\* Best effort: an error is logged and the next statement runs.
InvalidateOtherPending(c) ==
  /\ At(c, "reset", "others")
  /\ token' \in {token, [t \in Tokens |-> IF token[t] = "unused" /\ t # req[c].token
                                          THEN "used" ELSE token[t]]}
  /\ Goto(c, "revoke")
  /\ UNCHANGED <<pw, revokedAt, sess, secret, code, chal, now, changes, ended>>

RevokeSessions(c) ==
  /\ At(c, "reset", "revoke")
  /\ \/ revokedAt' = now /\ ended' = ended \cup Told(now)
     \/ UNCHANGED <<revokedAt, ended>>
  /\ End(c)
  /\ UNCHANGED <<pw, sess, secret, code, chal, token, now, changes>>

-----------------------------------------------------------------------------
(* Two-factor enrollment.                                                   *)

\* The row lock on the secret, held by a request that has written it and
\* not yet committed.
SecretFree(c) ==
  \A d \in Clients \ {c} : ~(\/ req[d].op = "confirm" /\ req[d].pc \in {"codes", "commit"}
                             \/ req[d].op = "disable" /\ req[d].pc = "commit")

Enroll(c) ==
  /\ secret # "enabled"
  /\ \E s \in Sessions : Accepted(s)
  /\ Begin(c, [NoRequest EXCEPT !.op = "enroll", !.pc = "write"])
  /\ UNCHANGED <<pw, revokedAt, sess, secret, code, chal, token, now, changes, ended>>

CreatePendingSecret(c) ==
  /\ At(c, "enroll", "write") /\ SecretFree(c)
  /\ secret' = "pending"
  /\ End(c)
  /\ UNCHANGED <<pw, revokedAt, sess, code, chal, token, now, changes, ended>>

Confirm2FA(c) ==
  /\ secret # "none"
  /\ \E s \in Sessions : Accepted(s)
  /\ Begin(c, [NoRequest EXCEPT !.op = "confirm", !.pc = "write"])
  /\ UNCHANGED <<pw, revokedAt, sess, secret, code, chal, token, now, changes, ended>>

\* The UPDATE waits for the row and looks at enabled_at again.
ConfirmSecret(c) ==
  /\ At(c, "confirm", "write") /\ SecretFree(c)
  /\ IF secret = "pending" THEN Goto(c, "codes") ELSE End(c)
  /\ UNCHANGED <<pw, revokedAt, sess, secret, code, chal, token, now, changes, ended>>

Replaced(k) == [x \in Codes |-> IF x = k THEN "unused"
                                ELSE IF code[x] \in {"unused", "used"} THEN "deleted" ELSE code[x]]

\* In a transaction of its own, committed before the request's.
CreateRecoveryCodes(c) ==
  /\ At(c, "confirm", "codes")
  /\ \E k \in Codes : code[k] = "none" /\ code' = Replaced(k)
  /\ Goto(c, "commit")
  /\ UNCHANGED <<pw, revokedAt, sess, secret, chal, token, now, changes, ended>>

ConfirmCommit(c) ==
  /\ At(c, "confirm", "commit")
  /\ secret' = "enabled"
  /\ End(c)
  /\ UNCHANGED <<pw, revokedAt, sess, code, chal, token, now, changes, ended>>

\* Disable2FA asks for the password, then deletes the secret.
Disable2FA(c) ==
  /\ \E s \in Sessions : Accepted(s)
  /\ Begin(c, [NoRequest EXCEPT !.op = "disable", !.pc = "write"])
  /\ UNCHANGED <<pw, revokedAt, sess, secret, code, chal, token, now, changes, ended>>

DeleteSecret(c) ==
  /\ At(c, "disable", "write") /\ SecretFree(c)
  /\ Goto(c, IF secret = "none" THEN "codes" ELSE "commit")
  /\ UNCHANGED <<pw, revokedAt, sess, secret, code, chal, token, now, changes, ended>>

DeleteRecoveryCodes(c) ==
  /\ req[c].op = "disable" /\ req[c].pc \in {"codes", "commit"}
  /\ secret' = IF req[c].pc = "commit" THEN "none" ELSE secret
  /\ code' = [k \in Codes |-> IF code[k] \in {"unused", "used"} THEN "deleted" ELSE code[k]]
  /\ End(c)
  /\ UNCHANGED <<pw, revokedAt, sess, chal, token, now, changes, ended>>

-----------------------------------------------------------------------------
\* Any error answer, a lost connection or a crash: a transaction is rolled
\* back, what public routes have committed stays.
Fail(c) ==
  /\ req[c].op # "none"
  /\ End(c)
  /\ UNCHANGED <<pw, revokedAt, sess, secret, code, chal, token, now, changes, ended>>

Expire ==
  /\ \/ \E h \in Challenges : chal[h] = "unused" /\ chal' = [chal EXCEPT ![h] = "used"]
                              /\ UNCHANGED token
     \/ \E t \in Tokens : token[t] = "unused" /\ token' = [token EXCEPT ![t] = "used"]
                          /\ UNCHANGED chal
  /\ UNCHANGED <<pw, revokedAt, sess, secret, code, req, now, changes, ended>>

LoginStep(c) ==
  \/ Login(c) \/ issueTwoFactorChallenge(c)
  \/ VerifyTwoFactor(c) \/ ListRecoveryCodes(c) \/ ConsumeRecoveryCode(c) \/ MarkUsed(c)
  \/ CreateSession(c) \/ IssueSessionWithTenant(c) \/ SwitchTenant(c)

CredentialStep(c) ==
  \/ ChangePassword(c) \/ PasswordChanged(c)
  \/ Confirm(c) \/ UpdatePasswordHash(c) \/ MarkTokenUsed(c)
  \/ InvalidateOtherPending(c) \/ RevokeSessions(c)

TwoFactorStep(c) ==
  \/ Enroll(c) \/ CreatePendingSecret(c)
  \/ Confirm2FA(c) \/ ConfirmSecret(c) \/ CreateRecoveryCodes(c) \/ ConfirmCommit(c)
  \/ Disable2FA(c) \/ DeleteSecret(c) \/ DeleteRecoveryCodes(c)

Next ==
  \/ Tick \/ Expire \/ Logout \/ Revoke \/ RevokeAllForUser
  \/ \E t \in Tokens : issueAndSendPasswordReset(t)
  \/ \E c \in Clients : LoginStep(c) \/ CredentialStep(c) \/ TwoFactorStep(c) \/ Fail(c)

Spec == Init /\ [][Next]_vars

-----------------------------------------------------------------------------
(* Correctness.                                                             *)

\* A second factor is good for one session: neither a challenge nor a
\* recovery code completes two logins, however many verify calls race and
\* with whatever challenges a code is presented (TOTP-07, TOTP-11).
SecondFactorOnce ==
  \A s, r \in Sessions :
    s # r => /\ sess[s].chal # Null => sess[s].chal # sess[r].chal
             /\ sess[s].code # Null => sess[s].code # sess[r].code

\* A session that was issued before a logout, a change of the password or a
\* reset began is never accepted again once that request has finished, until
\* a change of the password that began earlier dates the revocation back.
EndedStayOut == \A s \in ended : ~Accepted(s)
=============================================================================
