--------------------------- MODULE StatusTimeline ---------------------------
(***************************************************************************)
(* What the status_intervals table promises for one service, as its        *)
(* readers see it: there is no history yet, or exactly one current entry.  *)
(* An observation atomically starts the history, confirms the current      *)
(* entry, or replaces it by one of another status that starts where the    *)
(* old one ends; only ended entries are ever forgotten.                    *)
(***************************************************************************)
CONSTANTS Statuses, Times

VARIABLES current,   \* the current entry, as a set of at most one element
          past       \* the ended entries still remembered

Begun == [status : Statuses, starts : Times]

TimelineInit == current = {} /\ past = {}

\* The first observation.
Start(e) ==
  /\ current = {}
  /\ current' = {e}
  /\ UNCHANGED past

\* A different status: the current entry ends where the new one starts.
Switch(old, new) ==
  /\ current = {old}
  /\ old.status # new.status
  /\ current' = {new}
  /\ past' = past \cup {[status |-> old.status, starts |-> old.starts, ends |-> new.starts]}

\* Retention.
Forget ==
  /\ past' \in SUBSET past
  /\ UNCHANGED current

TimelineNext ==
  \/ \E e \in Begun : Start(e)
  \/ \E old, new \in Begun : Switch(old, new)
  \/ Forget

TimelineSpec == TimelineInit /\ [][TimelineNext]_<<current, past>>
=============================================================================
