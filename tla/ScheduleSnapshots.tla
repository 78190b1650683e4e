-------------------------- MODULE ScheduleSnapshots --------------------------
(***************************************************************************)
(* The latest scheduling decision the user is shown, while several         *)
(* requests are under way: a request saves a draft when it is scheduled,   *)
(* writes the outcome of each attempt into it and completes it.  There are *)
(* two stores: the endpoints' store numbers its drafts and shows the       *)
(* newest, the account pool's shows whichever was written last.  Drafts    *)
(* of requests that never end are dropped after a while.                   *)
(* internal/endpoint/scheduler.go and                                      *)
(* internal/service/account_pool_scheduler.go.                             *)
(***************************************************************************)
EXTENDS Integers

CONSTANTS
  Requests,
  Upstreams,     \* endpoints or accounts a request tries
  MaxTime, TTL   \* bound; age at which a draft is dropped

VARIABLES
  numbered,   \* TRUE: the endpoints' store; FALSE: the account pool's
  clock,
  latest,     \* what the user is shown
  pending,    \* the drafts
  sequence,   \* nextSequence
  phase,      \* of each request
  truth       \* ghost: upstream and outcome each request reported last

snapVars == <<numbered, clock, latest, pending, sequence, phase, truth>>

NoRequest == "nobody"
NoUpstream == "none yet"
Outcomes == {"pending", "failed", "success"}
Nothing == [owner |-> NoRequest, chosen |-> NoUpstream, outcome |-> "pending", seq |-> 0, at |-> 0]
Told(s) == [chosen |-> s.chosen, outcome |-> s.outcome]

Init ==
  /\ numbered \in BOOLEAN /\ clock = 0
  /\ latest = Nothing /\ pending = [r \in Requests |-> Nothing] /\ sequence = 0
  /\ phase = [r \in Requests |-> "new"]
  /\ truth = [r \in Requests |-> Told(Nothing)]

Held(r) == pending[r].owner = r

\* saveDraft, which also drops the drafts that are too old.
Draft(r) ==
  LET own == [Nothing EXCEPT !.owner = r, !.seq = sequence + 1, !.at = clock]
      Old(x) == clock - pending[x].at > TTL
  IN /\ phase[r] = "new" /\ phase' = [phase EXCEPT ![r] = "running"]
     /\ sequence' = sequence + 1
     /\ pending' = [x \in Requests |-> IF x = r THEN own ELSE IF Old(x) THEN Nothing ELSE pending[x]]
     /\ latest' = own
     /\ UNCHANGED <<numbered, clock, truth>>

\* What a report starts from: the request's draft; in the account pool, once
\* that was dropped, the latest if it is the request's own.
AnyLatest(r) == IF Held(r) THEN pending[r] ELSE latest              \* faulty variant
Basis(r) ==
  IF Held(r) THEN pending[r]
  ELSE IF ~numbered /\ latest.owner = r THEN latest
  ELSE Nothing

\* The report reaches what is shown.
Shown(s) == ~numbered \/ s.seq = latest.seq

\* updateAttempt and complete of the endpoints, complete of the accounts; a
\* request that ran out of upstreams names none and keeps the last one.
Report(r, u, outcome, ends) ==
  LET Named(c) == IF u = NoUpstream THEN c ELSE u
      new == [Basis(r) EXCEPT !.chosen = Named(@), !.outcome = outcome,
                              !.at = IF numbered THEN @ ELSE clock]
  IN /\ phase[r] = "running"
     /\ phase' = [phase EXCEPT ![r] = IF ends THEN "done" ELSE "running"]
     /\ truth' = [truth EXCEPT ![r] = [chosen |-> Named(@.chosen), outcome |-> outcome]]
     /\ IF Basis(r).owner = NoRequest THEN UNCHANGED <<latest, pending>>
        ELSE /\ pending' = [pending EXCEPT ![r] = IF ends THEN Nothing ELSE new]
             /\ latest' = IF Shown(new) THEN new ELSE latest
     /\ UNCHANGED <<numbered, clock, sequence>>

TryAttempt(r, u) == Report(r, u, "failed", FALSE)
Complete(r, u)   == Report(r, u, "success", TRUE)
GiveUp(r)        == Report(r, NoUpstream, "failed", TRUE)

\* The account pool forgets everything when the user changes the pin.
ClearAll ==
  /\ ~numbered /\ latest # Nothing
  /\ latest' = Nothing /\ pending' = [r \in Requests |-> Nothing]
  /\ UNCHANGED <<numbered, clock, sequence, phase, truth>>

Tick == clock < MaxTime /\ clock' = clock + 1 /\ UNCHANGED <<numbered, latest, pending, sequence, phase, truth>>

Next ==
  \/ \E r \in Requests : \/ Draft(r) \/ GiveUp(r)
                         \/ \E u \in Upstreams : TryAttempt(r, u) \/ Complete(r, u)
  \/ ClearAll \/ Tick

Spec == Init /\ [][Next]_snapVars

-----------------------------------------------------------------------------
\* What is shown of a request is what that request last reported, never
\* another request's attempts, whichever order drafts, reports and the
\* dropping of old drafts come in; and with numbered drafts a request that
\* ends late does not displace the one that was scheduled after it.
SnapshotIsOwn ==
  latest.owner # NoRequest =>
    /\ Told(latest) = truth[latest.owner]
    /\ numbered => latest.seq = sequence
=============================================================================
