---------------------------- MODULE LLMProvider ----------------------------
(***************************************************************************)
(* One tenant's LLM provider: the stored key with the status an operator   *)
(* sees, whether it is the active one, the admin requests that change      *)
(* that, and the analyses that call the vendor with the key.               *)
(*                                                                         *)
(* There is one known provider, so a row is identified by its being there. *)
(* An admin request and an analysis each run in one tenant transaction:    *)
(* what they read is what is committed at that moment, what they write     *)
(* appears when they commit, and a row they have written is locked until   *)
(* their transaction ends.  The last write of an admin request and its     *)
(* commit are one step.                                                    *)
(***************************************************************************)
EXTENDS Naturals

CONSTANTS Admins,       \* admin requests in flight at once
          Analyses,     \* enrichment goroutines of the tenant
          Keys, Null,
          Models,       \* modelAllowlist
          DefaultModel  \* for a connect request that names none

VARIABLES provider,  \* the llm_providers row
          settings,  \* the llm_settings row; without one nothing is set
          accepted,  \* keys the vendor accepts
          request,   \* admin requests in flight
          call       \* the analyses

vars == <<provider, settings, accepted, request, call>>

Provider == [key : Keys, model : Models, status : {"connected", "invalid"}]

\* pc: the next step; key: the one it has sent; answer: what came back; mark:
\* the status it has written to the row, Null when there was no row.
Call == [pc : {"idle", "begun", "active", "sent", "answered", "marked"},
         key : Keys \cup {Null},
         answer : {"none", "ok", "unauthorized", "transient"},
         mark : {"connected", "invalid", Null}]

Request == [op : {"none", "connect", "model", "activate"},
            key : Keys \cup {Null}, model : Models]

NoRequest == [op |-> "none", key |-> Null, model |-> DefaultModel]
NoCall == [pc |-> "idle", key |-> Null, answer |-> "none", mark |-> Null]

TypeOK ==
  /\ provider \in Provider \cup {Null}
  /\ settings \in [active : BOOLEAN, enrichment : BOOLEAN]
  /\ accepted \subseteq Keys
  /\ request \in [Admins -> Request]
  /\ call \in [Analyses -> Call]

Init ==
  /\ provider = Null
  /\ settings = [active |-> FALSE, enrichment |-> FALSE]
  /\ accepted = Keys
  /\ request = [a \in Admins |-> NoRequest]
  /\ call = [c \in Analyses |-> NoCall]

-----------------------------------------------------------------------------
(* Admin requests.                                                          *)

\* No analysis has written the row in a transaction that is still open.
RowFree == \A c \in Analyses : ~(call[c].pc = "marked" /\ call[c].mark # Null)

Begin(a, r) == request[a].op = "none" /\ request' = [request EXCEPT ![a] = r]
End(a) == request' = [request EXCEPT ![a] = NoRequest]

IsConnected == provider # Null /\ provider.status = "connected"

\* ValidateCredentials: nothing is stored for a key the vendor turns down.
Connect(a) ==
  /\ \E k \in accepted, m \in Models : Begin(a, [op |-> "connect", key |-> k, model |-> m])
  /\ UNCHANGED <<provider, settings, accepted, call>>

UpsertProvider(a) ==
  /\ request[a].op = "connect" /\ (provider # Null => RowFree)
  /\ provider' = [key |-> request[a].key, model |-> request[a].model, status |-> "connected"]
  /\ End(a)
  /\ UNCHANGED <<settings, accepted, call>>

\* SetModel and Activate go on only if the row they read is connected.
SetModel(a) ==
  /\ IsConnected
  /\ \E m \in Models : Begin(a, [op |-> "model", key |-> Null, model |-> m])
  /\ UNCHANGED <<provider, settings, accepted, call>>

\* Without the row the update changes nothing.
UpdateModel(a) ==
  /\ request[a].op = "model" /\ (provider # Null => RowFree)
  /\ provider' = IF provider = Null THEN Null ELSE [provider EXCEPT !.model = request[a].model]
  /\ End(a)
  /\ UNCHANGED <<settings, accepted, call>>

Activate(a) ==
  /\ IsConnected
  /\ Begin(a, [NoRequest EXCEPT !.op = "activate"])
  /\ UNCHANGED <<provider, settings, accepted, call>>

\* The foreign key refuses a provider that has been removed meanwhile.
SetActiveProvider(a) ==
  /\ request[a].op = "activate"
  /\ settings' = [settings EXCEPT !.active = IF provider = Null THEN @ ELSE TRUE]
  /\ End(a)
  /\ UNCHANGED <<provider, accepted, call>>

\* An error, a lost connection or a crash: rolled back.
Fail(a) ==
  /\ request[a].op # "none" /\ End(a)
  /\ UNCHANGED <<provider, settings, accepted, call>>

\* active_provider is ON DELETE SET NULL.
DeleteProvider ==
  provider' = Null /\ settings' = [settings EXCEPT !.active = FALSE]

Disconnect ==
  /\ provider # Null /\ RowFree /\ DeleteProvider
  /\ UNCHANGED <<accepted, request, call>>

\* The other column of the row is left alone.
SetRootCauseEnrichmentEnabled(enabled) ==
  settings' = [settings EXCEPT !.enrichment = enabled]

UpdateSettings ==
  /\ SetRootCauseEnrichmentEnabled(~settings.enrichment)
  /\ UNCHANGED <<provider, accepted, request, call>>

\* The vendor's customer withdraws a key there.
Revoke(k) ==
  /\ k \in accepted /\ accepted' = accepted \ {k}
  /\ UNCHANGED <<provider, settings, request, call>>

-----------------------------------------------------------------------------
(* Analyses.                                                                *)

\* openEnrichmentTx, and a Generate call on its context.
Generate(c) ==
  /\ call[c].pc = "idle"
  /\ call' = [call EXCEPT ![c].pc = "begun"]
  /\ UNCHANGED <<provider, settings, accepted, request>>

\* ErrNoActiveProvider, or on to the row.
GetActiveProvider(c) ==
  /\ call[c].pc = "begun"
  /\ call' = [call EXCEPT ![c].pc = IF settings.active THEN "active" ELSE "idle"]
  /\ UNCHANGED <<provider, settings, accepted, request>>

\* The status of the row is not looked at.
Get(c) ==
  /\ call[c].pc = "active"
  /\ call' = [call EXCEPT ![c] = IF provider = Null THEN NoCall
                                 ELSE [@ EXCEPT !.pc = "sent", !.key = provider.key]]
  /\ UNCHANGED <<provider, settings, accepted, request>>

\* 401 and 403 are about the key; a timeout, any other status, a body that
\* does not parse are not.
Answers(k) == {"transient", IF k \in accepted THEN "ok" ELSE "unauthorized"}

Complete(c, answer) ==
  /\ call[c].pc = "sent" /\ answer \in Answers(call[c].key)
  /\ call' = [call EXCEPT ![c].pc = "answered", ![c].answer = answer, ![c].key = Null]
  /\ UNCHANGED <<provider, settings, accepted, request>>

\* MarkChecked, MarkInvalid and MarkTransientFailure.
Marked(answer) ==
  CASE answer = "ok" -> "connected"
    [] answer = "unauthorized" -> "invalid"
    [] answer = "transient" -> provider.status

\* The bookkeeping has a deadline of its own, and the transaction of the
\* context it is derived from.
Mark(c) ==
  /\ call[c].pc = "answered" /\ (provider # Null => RowFree)
  /\ call' = [call EXCEPT ![c].pc = "marked",
                          ![c].mark = IF provider = Null THEN Null ELSE Marked(call[c].answer)]
  /\ UNCHANGED <<provider, settings, accepted, request>>

\* The text is stored, and the transaction commits with the mark in it.
Commit(c) ==
  /\ call[c].pc = "marked" /\ call[c].answer = "ok"
  /\ provider' = IF call[c].mark = Null THEN provider
                 ELSE [provider EXCEPT !.status = call[c].mark]
  /\ call' = [call EXCEPT ![c] = NoCall]
  /\ UNCHANGED <<settings, accepted, request>>

\* A goroutine whose Generate call returned an error returns, and its
\* deferred rollback runs.
GenerateFailed(c) ==
  /\ call[c].pc = "marked" /\ call[c].answer # "ok"
  /\ call' = [call EXCEPT ![c] = NoCall]
  /\ UNCHANGED <<provider, settings, accepted, request>>

\* An empty text, an incident that is already resolved, an error of the
\* database or a crash: rolled back as well.
Abandon(c) ==
  /\ call[c].pc # "idle"
  /\ call' = [call EXCEPT ![c] = NoCall]
  /\ UNCHANGED <<provider, settings, accepted, request>>

-----------------------------------------------------------------------------
AdminStep(a) ==
  \/ Connect(a) \/ UpsertProvider(a) \/ SetModel(a) \/ UpdateModel(a)
  \/ Activate(a) \/ SetActiveProvider(a) \/ Fail(a)

generate(c) ==
  \/ GetActiveProvider(c) \/ Get(c) \/ Mark(c) \/ Commit(c) \/ GenerateFailed(c)
  \/ \E answer \in {"ok", "unauthorized", "transient"} : Complete(c, answer)

Next ==
  \/ \E a \in Admins : AdminStep(a)
  \/ Disconnect \/ UpdateSettings \/ \E k \in Keys : Revoke(k)
  \/ \E c \in Analyses : Generate(c) \/ generate(c) \/ Abandon(c)

\* Goroutines run on, and have deadlines where they wait.  What can go wrong
\* does not go wrong every time: a call made again and again is answered on its
\* key again and again, and such an answer is again and again followed to its
\* end.
Fairness ==
  LET onKey(c) == call[c].answer \in {"ok", "unauthorized"} IN
  \A c \in Analyses :
    /\ WF_vars(generate(c) \/ Abandon(c))
    /\ SF_vars(GetActiveProvider(c)) /\ SF_vars(Get(c))
    /\ SF_vars(\E answer \in {"ok", "unauthorized"} : Complete(c, answer))
    /\ SF_vars(onKey(c) /\ Mark(c))
    /\ SF_vars(onKey(c) /\ (Commit(c) \/ GenerateFailed(c)))

Spec == Init /\ [][Next]_vars /\ Fairness

-----------------------------------------------------------------------------
InUse(k) == settings.active /\ provider # Null /\ provider.key = k

\* LLMProviderStore.MarkInvalid: "so an operator can see a
\* previously-connected provider has gone invalid".  A key that the vendor no
\* longer accepts, that stays in use and that analyses keep being made with,
\* is at some time shown as invalid.
RevokedKeyShows ==
  \A k \in Keys :
    (/\ <>[](InUse(k) /\ k \notin accepted)
     /\ []<>(\E c \in Analyses : call[c].pc = "begun"))
    => <>(provider # Null /\ provider.status = "invalid")
=============================================================================
