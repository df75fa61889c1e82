---------------------------- MODULE TenantBoard ----------------------------
(***************************************************************************)
(* What the poller promises to those who look at a tenant: a board with    *)
(* the status of every service and the incidents that are public.  A poll  *)
(* cycle changes it in one step: statuses move together with the incidents *)
(* of the outages it found, no service that is in outage lacks one, and    *)
(* none that already has an incident nobody has closed is given another.   *)
(* Operators change one incident at a time.  An incident never disappears. *)
(***************************************************************************)
CONSTANTS Services, Statuses, Incidents

VARIABLES status,  \* the published status of each service
          board    \* the entry of each incident id

Entry == [state : {"hidden", "open", "resolved"}, auto : BOOLEAN,
          links : SUBSET Services, reopened : BOOLEAN]

Hidden == [state |-> "hidden", auto |-> FALSE, links |-> {}, reopened |-> FALSE]
Opened(auto, links) ==
  [state |-> "open", auto |-> auto, links |-> links, reopened |-> FALSE]

BoardTypeOK ==
  status \in [Services -> Statuses] /\ board \in [Incidents -> Entry]

BoardInit ==
  /\ status = [s \in Services |-> "not_configured"]
  /\ board = [i \in Incidents |-> Hidden]

\* A detected incident of s, whatever became of it.
Known(s) == \E i \in Incidents : board[i].auto /\ s \in board[i].links

\* One that is open and that nobody has closed yet.
Standing(i, s) ==
  board[i].state = "open" /\ board[i].auto /\ ~board[i].reopened /\ s \in board[i].links

\* A poll cycle: the services in found are given an incident each.
Publish(new, found, id) ==
  /\ \A s \in found : /\ new[s] = "outage"
                      /\ board[id[s]] = Hidden
                      /\ \A i \in Incidents : ~Standing(i, s)
  /\ \A r, s \in found : id[r] = id[s] => r = s
  /\ \A s \in Services : new[s] = "outage" => s \in found \/ Known(s)
  /\ status' = new
  /\ board' = [i \in Incidents |->
                 IF \E s \in found : id[s] = i
                 THEN Opened(TRUE, {s \in found : id[s] = i}) ELSE board[i]]

\* The operators.
Create(i, S) ==
  /\ board[i] = Hidden /\ S # {}
  /\ board' = [board EXCEPT ![i] = Opened(FALSE, S)]
  /\ UNCHANGED status

Resolve(i) ==
  /\ board[i].state = "open"
  /\ board' = [board EXCEPT ![i].state = "resolved"]
  /\ UNCHANGED status

Reopen(i) ==
  /\ board[i].state = "resolved"
  /\ board' = [board EXCEPT ![i].state = "open", ![i].reopened = TRUE]
  /\ UNCHANGED status

BoardNext ==
  \/ \E new \in [Services -> Statuses], found \in SUBSET Services :
       \E id \in [found -> Incidents] : Publish(new, found, id)
  \/ \E i \in Incidents : \/ \E S \in SUBSET Services : Create(i, S)
                          \/ Resolve(i) \/ Reopen(i)

BoardSpec == BoardInit /\ [][BoardNext]_<<status, board>>
=============================================================================
