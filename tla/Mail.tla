-------------------------------- MODULE Mail --------------------------------
(***************************************************************************)
(* How one tenant's mails leave: the members who want them, the providers  *)
(* the tenant has connected and the active one.  A self-hosted deployment  *)
(* sends through the tenant's active provider, which is read under the     *)
(* tenant setting of the transaction in the context; the hosted one sends  *)
(* everything through one notification service.                            *)
(***************************************************************************)
EXTENDS Integers, FiniteSets

CONSTANTS Users,      \* owners and operators of the tenant
          Kinds,      \* notification types
          Providers, Null,
          Modes,      \* deployment modes considered
          MaxOps      \* bound on the changes of settings

ASSUME MailAssumption ==
  /\ Null \notin Providers /\ MaxOps \in Nat
  /\ Modes \subseteq {"self_hosted", "saas"}

VARIABLES mode,       \* the deployment mode
          connected,  \* email_providers rows
          active,     \* email_settings.active_provider
          pref,       \* notification_preferences: the types a user gets
          ops

mailVars == <<mode, connected, active, pref, ops>>

MailTypeOK ==
  /\ mode \in Modes
  /\ connected \subseteq Providers
  /\ active \in Providers \cup {Null}
  /\ pref \in [Users -> SUBSET Kinds]
  /\ ops \in 0..MaxOps

\* Without a stored row every type is on but the weekly digest.
DefaultPref == Kinds \ {"weekly_digest"}

MailInit ==
  /\ mode \in Modes
  /\ connected \in SUBSET Providers /\ active \in connected \cup {Null}
  /\ mode = "saas" => connected = {}
  /\ pref \in [Users -> {DefaultPref, Kinds}]
  /\ ops = 0

Counted == ops < MaxOps /\ ops' = ops + 1

\* requireSelfHostedMode answers for the routes of the providers.
SelfHosted == mode = "self_hosted"

\* The credentials are checked with the provider first.
Connect(p) ==
  /\ Counted /\ SelfHosted /\ p \notin connected
  /\ connected' = connected \cup {p}
  /\ UNCHANGED <<mode, active, pref>>

\* ErrProviderNotConnected unless there is a row.
Activate(p) ==
  /\ Counted /\ SelfHosted /\ p \in connected /\ active # p
  /\ active' = p
  /\ UNCHANGED <<mode, connected, pref>>

\* active_provider is ON DELETE SET NULL.
Disconnect(p) ==
  /\ Counted /\ SelfHosted /\ p \in connected
  /\ connected' = connected \ {p}
  /\ active' = IF active = p THEN Null ELSE active
  /\ UNCHANGED <<mode, pref>>

\* Only the types given are written.
Upsert(u, k) ==
  /\ Counted
  /\ pref' = [pref EXCEPT ![u] = IF k \in @ THEN @ \ {k} ELSE @ \cup {k}]
  /\ UNCHANGED <<mode, connected, active>>

MailStep ==
  \/ \E p \in Providers : Connect(p) \/ Activate(p) \/ Disconnect(p)
  \/ \E u \in Users, k \in Kinds : Upsert(u, k)

-----------------------------------------------------------------------------
\* Who is to get a notification of this type.
ResolveEnabledForUsers(k) == {u \in Users : k \in pref[u]}

\* WHERE tenant_id = app.tenant_id: no row outside a tenant transaction.
GetActiveProvider(scoped) == IF scoped THEN active ELSE Null

\* A send gets as far as the provider's API.
CanSend(scoped) == ~SelfHosted \/ GetActiveProvider(scoped) \in connected
=============================================================================
