---------------------------- MODULE RequestRecord ----------------------------
(***************************************************************************)
(* What usage tracking promises a reader of a request's record, wherever   *)
(* the record is kept at the moment (hot pool, archive queue, database):   *)
(* it is opened once, updates accumulate, the handler closes it once, and  *)
(* a record its handler has closed stays readable. Only a request the pool *)
(* gave up for its age is hidden, until it is archived.                    *)
(***************************************************************************)
CONSTANTS Requests, Notes

VARIABLES rec,     \* the content of each record
          shown    \* the requests whose record a reader finds

vars == <<rec, shown>>

ClosedStates == {"completed", "failed", "cancelled", "timeout"}
States == {"none", "open"} \cup ClosedStates
Contents == [status : States, tokens : BOOLEAN, notes : SUBSET Notes]
Absent == [status |-> "none", tokens |-> FALSE, notes |-> {}]

Init ==
  /\ rec = [r \in Requests |-> Absent]
  /\ shown = {}

Open(r) ==
  /\ rec[r].status = "none"
  /\ rec' = [rec EXCEPT ![r] = [Absent EXCEPT !.status = "open"]]
  /\ shown' = shown \cup {r}

\* An update adds to the record and takes nothing away.
Update(r) ==
  /\ rec[r].status # "none"
  /\ \E c \in Contents :
       /\ c.status = rec[r].status
       /\ rec[r].tokens => c.tokens
       /\ rec[r].notes \subseteq c.notes
       /\ rec' = [rec EXCEPT ![r] = c]
  /\ UNCHANGED shown

\* A timeout was only presumed: the real outcome replaces it. Reporting the
\* same outcome again may correct the tokens.
Close(r) ==
  /\ \E s \in ClosedStates, t \in BOOLEAN :
       /\ rec[r].status \in {"open", "timeout", s}
       /\ rec' = [rec EXCEPT ![r] = [status |-> s, tokens |-> t, notes |-> rec[r].notes]]
  /\ UNCHANGED shown

GiveUp(r) ==
  /\ rec[r].status = "open"
  /\ rec' = [rec EXCEPT ![r] = [status |-> "timeout", tokens |-> rec[r].tokens,
                                notes |-> rec[r].notes]]
  /\ shown' = shown \ {r}

Show(R) ==
  /\ \A r \in R : rec[r].status = "timeout"
  /\ shown' = shown \cup R
  /\ UNCHANGED rec

Next ==
  \/ \E r \in Requests : Open(r) \/ Update(r) \/ Close(r) \/ GiveUp(r)
  \/ \E R \in SUBSET Requests : Show(R)

Spec == Init /\ [][Next]_vars
=============================================================================
