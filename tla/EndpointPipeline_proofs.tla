----------------------- MODULE EndpointPipeline_proofs -----------------------
(***************************************************************************)
(* Theorems about EndpointPipeline, for every set of requests, endpoints   *)
(* and offers, and every bound; about the cache of rejections, for every   *)
(* endpoint, value, capacity and life of an entry; and about the reading   *)
(* of answers, for every usage and any number of blocks, events and lines. *)
(***************************************************************************)
EXTENDS MCEndpointPipeline, FiniteSetTheorems, WellFoundedInduction, TLAPS

-----------------------------------------------------------------------------
(* Types.                                                                   *)

\* A request is at one of its candidates whenever it acts on one, and a call that is
\* under way has been counted.
Located(r) ==
  /\ pc[r] = "new" => at[r] = 1
  /\ pc[r] \notin {"new", "loop", "done"} => at[r] <= Len(plan[r])
  /\ pc[r] = "upstream" => executed[r] \in Nat \ {0}

Typed == TypeOK /\ \A r \in Requests : Located(r)

Candidates == [ep : Endpoints, rev : Nat]

LEMMA CandidateType ==
  ASSUME TypeOK, NEW r \in Requests, at[r] <= Len(plan[r])
  PROVE  Candidate(r) \in Candidates /\ Ep(r) \in Endpoints
<1>1. plan[r] \in Seq(Candidates) /\ at[r] \in Nat \ {0}
  BY DEF TypeOK, Candidates
<1>2. at[r] \in 1..Len(plan[r])
  BY <1>1
<1>3. plan[r][at[r]] \in Candidates
  BY <1>1, <1>2
<1> QED
  BY <1>3 DEF Candidate, Ep, Candidates

LEMMA CountType ==
  ASSUME NEW f \in [Requests -> [Endpoints -> Nat]], NEW r \in Requests, NEW e \in Endpoints
  PROVE  [f EXCEPT ![r][e] = @ + 1] \in [Requests -> [Endpoints -> Nat]]
<1>1. f[r][e] + 1 \in Nat
  OBVIOUS
<1>2. \A n \in Nat : [f EXCEPT ![r][e] = n] \in [Requests -> [Endpoints -> Nat]]
  <2> TAKE n \in Nat
  <2>1. [f[r] EXCEPT ![e] = n] \in [Endpoints -> Nat]
    OBVIOUS
  <2> QED
    BY <2>1
<1>3. [f EXCEPT ![r][e] = f[r][e] + 1] \in [Requests -> [Endpoints -> Nat]]
  BY <1>1, <1>2
<1> QED
  BY <1>3

LEMMA OrderType ==
  ASSUME TypeOK, NEW S \in SUBSET Endpoints, NEW p \in Orders(S)
  PROVE  [i \in DOMAIN p |-> [ep |-> p[i], rev |-> config[p[i]].rev]] \in Seq(Candidates)
<1>1. PICK n \in 0..Cardinality(S) : p \in [1..n -> S]
  BY DEF Orders
<1>2. n \in Nat
  BY <1>1
<1>3. \A i \in 1..n : [ep |-> p[i], rev |-> config[p[i]].rev] \in Candidates
  BY <1>1 DEF Candidates, TypeOK
<1>4. DOMAIN p = 1..n
  BY <1>1
<1> QED
  BY <1>2, <1>3, <1>4

\* The counters of a request.
LEMMA NumberType ==
  ASSUME NEW f \in [Requests -> Nat], NEW r \in Requests, NEW n \in Nat
  PROVE  [f EXCEPT ![r] = n] \in [Requests -> Nat]
OBVIOUS

LEMMA FollowingType ==
  ASSUME TypeOK, NEW r \in Requests, at[r] <= Len(plan[r]),
         at' = [at EXCEPT ![r] = Following(r)], plan' = plan
  PROVE  /\ at' \in [Requests -> Nat \ {0}]
         /\ at'[r] = at[r] + 1
         /\ \A s \in Requests \ {r} : at'[s] = at[s]
         /\ \A s \in Requests : at'[s] <= Len(plan'[s]) + 1
<1> DEFINE n == at[r] + 1
<1>1. n \in Nat \ {0} /\ n <= Len(plan[r]) + 1
  <2>1. at[r] \in Nat /\ Len(plan[r]) \in Nat
    BY DEF TypeOK
  <2> QED
    BY <2>1
<1>2. at' = [at EXCEPT ![r] = n]
  BY DEF Following
<1> HIDE DEF n
<1>3. /\ at' \in [Requests -> Nat \ {0}]
      /\ at'[r] = n
      /\ \A s \in Requests \ {r} : at'[s] = at[s]
  BY <1>1, <1>2 DEF TypeOK
<1>4. \A s \in Requests : at'[s] <= Len(plan[s]) + 1
  BY <1>1, <1>3 DEF TypeOK
<1> QED
  BY <1>3, <1>4 DEF n

LEMMA TypeInit == Init => Typed
<1> SUFFICES ASSUME Init PROVE Typed
  OBVIOUS
<1>1. <<>> \in Seq(Candidates) /\ Len(<<>>) = 0
  OBVIOUS
<1> QED
  BY <1>1, PipelineAssumption DEF Init, Typed, TypeOK, Located, Candidates, Results

\* The steps of a request at a candidate leave its plan alone.
LEMMA TypeStep == Typed /\ [Next]_vars => Typed'
<1> SUFFICES ASSUME Typed, [Next]_vars PROVE Typed'
  OBVIOUS
<1> USE DEF Typed, TypeOK, Located, local, books, shared
<1>1. ASSUME NEW r \in Requests, Rejected(r) PROVE Typed'
  BY <1>1 DEF Rejected, End
<1>2. ASSUME NEW r \in Requests, Prepare(r) PROVE Typed'
  <2>1. PICK p \in Orders(Offers[r]) :
          plan' = [plan EXCEPT ![r] = [i \in DOMAIN p |-> [ep |-> p[i], rev |-> config[p[i]].rev]]]
    BY <1>2 DEF Prepare
  <2> DEFINE q == [i \in DOMAIN p |-> [ep |-> p[i], rev |-> config[p[i]].rev]]
  <2>2. q \in Seq(Candidates)
    <3>1. Offers[r] \in SUBSET Endpoints
      BY PipelineAssumption
    <3> QED
      BY <3>1, OrderType, ZenonT(40)
  <2>3. plan' = [plan EXCEPT ![r] = q]
    BY <2>1
  <2> HIDE DEF q
  <2>4. plan' \in [Requests -> Seq(Candidates)]
    BY <2>2, <2>3 DEF Candidates
  <2>5. Len(plan'[r]) \in Nat /\ at'[r] = 1 /\ \A s \in Requests \ {r} : plan'[s] = plan[s] /\ at'[s] = at[s]
    BY <1>2, <2>3, <2>4 DEF Prepare
  <2>6. \A s \in Requests : at'[s] <= Len(plan'[s]) + 1
    <3>1. at'[r] <= Len(plan'[r]) + 1
      BY <2>5
    <3>2. \A s \in Requests \ {r} : at'[s] <= Len(plan'[s]) + 1
      BY <2>5
    <3> QED
      BY <3>1, <3>2
  <2> QED
    BY <1>2, <2>4, <2>5, <2>6 DEF Prepare, Candidates
<1>3. ASSUME NEW r \in Requests, NoneLeft(r) PROVE Typed'
  BY <1>3 DEF NoneLeft, End
<1>4. ASSUME NEW r \in Requests, LoopCancelled(r) PROVE Typed'
  BY <1>4 DEF LoopCancelled, End
<1>5. ASSUME NEW r \in Requests, Skip(r) PROVE Typed'
  <2>1. at[r] <= Len(plan[r]) /\ at' = [at EXCEPT ![r] = Following(r)] /\ plan' = plan
    BY <1>5 DEF Skip, MayAttempt
  <2> QED
    BY <1>5, <2>1, FollowingType DEF Skip
<1>6. ASSUME NEW r \in Requests, Admit(r) PROVE Typed'
  <2>1. attempted' \in [Requests -> Nat]
    <3>1. attempted[r] + 1 \in Nat /\ attempted' = [attempted EXCEPT ![r] = attempted[r] + 1]
      BY <1>6 DEF Admit
    <3> QED
      BY <3>1, NumberType
  <2>2. Ep(r) \in Endpoints /\ at[r] <= Len(plan[r])
    BY <1>6, CandidateType DEF Admit, MayAttempt
  <2>3. pc' = [pc EXCEPT ![r] = "calling"] /\ lease' = [lease EXCEPT ![r] = Ep(r)]
    BY <1>6 DEF Admit
  <2>4. UNCHANGED <<plan, at, held, retrying, draining, outcome, books, shared>>
    BY <1>6 DEF Admit
  <2> QED
    BY <2>1, <2>2, <2>3, <2>4
<1>7. ASSUME NEW r \in Requests, Send(r) PROVE Typed'
  <2>1. Ep(r) \in Endpoints
    BY <1>7, CandidateType DEF Send
  <2>2. calls' \in [Requests -> [Endpoints -> Nat]]
    BY <1>7, <2>1, CountType DEF Send
  <2>3. executed' \in [Requests -> Nat] /\ executed'[r] \in Nat \ {0}
        /\ \A s \in Requests \ {r} : executed'[s] = executed[s]
    <3>1. PICK n \in Nat \ {0} : executed' = [executed EXCEPT ![r] = n]
      <4>1. executed[r] + 1 \in Nat \ {0}
        OBVIOUS
      <4>2. executed' = [executed EXCEPT ![r] = executed[r] + 1]
        BY <1>7 DEF Send
      <4> QED
        BY <4>1, <4>2
    <3> QED
      BY <3>1, NumberType
  <2>4. pc[r] = "calling" /\ pc' = [pc EXCEPT ![r] = "upstream"]
    BY <1>7 DEF Send
  <2>5. UNCHANGED <<plan, at, attempted, lease, held, retrying, draining, outcome, charges, shared>>
    BY <1>7 DEF Send
  <2> QED
    BY <2>2, <2>3, <2>4, <2>5
<1>8. ASSUME NEW r \in Requests, Refuse(r) PROVE Typed'
  BY <1>8 DEF Refuse, End
<1>9. ASSUME NEW r \in Requests, RefuseRetry(r) PROVE Typed'
  BY <1>9 DEF RefuseRetry, Results, Definite
<1>10. ASSUME NEW r \in Requests, Answer(r) PROVE Typed'
  <2>1. PICK x \in Results :
          /\ held' = [held EXCEPT ![r] = x \notin {"noHeaders", "broken"}]
          /\ executed' = [executed EXCEPT ![r] = IF x \in Unexecuted THEN @ - 1 ELSE @]
          /\ pc' = [pc EXCEPT ![r] = IF x = "limited" /\ ~retrying[r] THEN "decide" ELSE x]
    BY <1>10 DEF Answer
  <2>2. PICK m \in Results \cup {"decide"} : pc' = [pc EXCEPT ![r] = m]
    BY <2>1
  <2>3. held' \in [Requests -> BOOLEAN]
    BY <2>1
  <2>4. executed' \in [Requests -> Nat] /\ \A s \in Requests \ {r} : executed'[s] = executed[s]
    <3>1. executed[r] - 1 \in Nat
      BY <1>10 DEF Answer
    <3>2. executed' = [executed EXCEPT ![r] = executed[r] - 1] \/ executed' = executed
      BY <2>1
    <3> QED
      BY <3>1, <3>2, NumberType, SMTT(20)
  <2>5. /\ gate' \in [Endpoints -> BOOLEAN] /\ retrying' \in [Requests -> BOOLEAN]
        /\ pc[r] = "upstream"
        /\ UNCHANGED <<plan, at, attempted, lease, draining, outcome, calls, charges,
                       config, rules, gone, budget>>
    BY <1>10 DEF Answer
  <2>6. \A s \in Requests : Located(s)'
    BY <2>2, <2>4, <2>5 DEF Results, Definite, Ambiguous
  <2>7. pc' \in [Requests -> Results \cup {"new", "loop", "calling", "upstream", "decide",
                         "waiting", "tripped", "charged", "body", "stream", "done"}]
    BY <2>2
  <2> QED
    BY <2>3, <2>4, <2>5, <2>6, <2>7
<1>11. ASSUME NEW r \in Requests, TakeGate(r) PROVE Typed'
  BY <1>11 DEF TakeGate
<1>12. ASSUME NEW r \in Requests, NoRetry(r) PROVE Typed'
  BY <1>12 DEF NoRetry, Results
<1>13. ASSUME NEW r \in Requests, Wake(r) PROVE Typed'
  BY <1>13, CandidateType DEF Wake
<1>14. ASSUME NEW r \in Requests, GiveUpRetry(r) PROVE Typed'
  BY <1>14 DEF GiveUpRetry, Results
<1>15. ASSUME NEW r \in Requests, LimitedCancelled(r) PROVE Typed'
  BY <1>15 DEF LimitedCancelled, End
<1>16. ASSUME NEW r \in Requests, ChargeLimited(r) PROVE Typed'
  <2>1. charges' \in [Requests -> [Endpoints -> Nat]]
    BY <1>16, CandidateType, CountType DEF ChargeLimited, Charge
  <2> QED
    BY <1>16, <2>1, ZenonT(40) DEF ChargeLimited
<1>17. ASSUME NEW r \in Requests, TryNext(r) PROVE Typed'
  <2>1. at[r] <= Len(plan[r]) /\ at' = [at EXCEPT ![r] = Following(r)] /\ plan' = plan
    BY <1>17 DEF TryNext, CanTryNext
  <2> QED
    BY <1>17, <2>1, FollowingType DEF TryNext
<1>18. ASSUME NEW r \in Requests, AnswerLimited(r) PROVE Typed'
  BY <1>18 DEF AnswerLimited, End
<1>19. ASSUME NEW r \in Requests, FailOver(r) PROVE Typed'
  <2>1. at[r] <= Len(plan[r]) /\ at' = [at EXCEPT ![r] = Following(r)] /\ plan' = plan
    BY <1>19 DEF FailOver, NextCandidate, Definite
  <2>2. Ep(r) \in Endpoints
    BY <2>1, CandidateType
  <2>3. charges' = charges \/ charges' = [charges EXCEPT ![r][Ep(r)] = @ + 1]
    BY <1>19 DEF FailOver, Charge
  <2>4. charges' \in [Requests -> [Endpoints -> Nat]]
    <3>1. CASE charges' = charges
      BY <3>1
    <3>2. CASE charges' = [charges EXCEPT ![r][Ep(r)] = @ + 1]
      BY <2>2, <3>2, CountType
    <3> QED
      BY <2>3, <3>1, <3>2
  <2>5. held' = [held EXCEPT ![r] = FALSE] /\ pc' = [pc EXCEPT ![r] = "loop"]
    BY <1>19 DEF FailOver
  <2>6. UNCHANGED <<plan, attempted, lease, retrying, draining, outcome, calls, executed, shared>>
    BY <1>19 DEF FailOver
  <2> QED
    BY <2>1, <2>4, <2>5, <2>6, FollowingType
<1>20. ASSUME NEW r \in Requests, PassError(r) PROVE Typed'
  <2>1. charges' \in [Requests -> [Endpoints -> Nat]]
    BY <1>20, CandidateType, CountType DEF PassError, Charge, PassthroughError, NextCandidate, Definite, Ambiguous
  <2> QED
    BY <1>20, <2>1 DEF PassError, End
<1>21. ASSUME NEW r \in Requests, PassRaw(r) PROVE Typed'
  BY <1>21 DEF PassRaw, End
<1>22. ASSUME NEW r \in Requests, Process(r) PROVE Typed'
  BY <1>22 DEF Process
<1>23. ASSUME NEW r \in Requests, Body(r) PROVE Typed'
  <2>1. UNCHANGED <<plan, at, attempted, retrying, books, shared>>
    BY <1>23 DEF Body
  <2>2. CASE End(r, "completed")
    BY <2>1, <2>2 DEF End
  <2>3. CASE End(r, "failed")
    BY <2>1, <2>3 DEF End
  <2> QED
    BY <1>23, <2>2, <2>3 DEF Body
<1>24. ASSUME NEW r \in Requests, Chunk(r) PROVE Typed'
  BY <1>24 DEF Chunk
<1>25. ASSUME NEW r \in Requests, StreamEnds(r) PROVE Typed'
  <2>1. charges' \in [Requests -> [Endpoints -> Nat]]
    <3>1. Ep(r) \in Endpoints
      BY <1>25, CandidateType DEF StreamEnds
    <3>2. charges' = charges \/ charges' = [charges EXCEPT ![r][Ep(r)] = @ + 1]
      BY <1>25 DEF StreamEnds, Charge
    <3> QED
      <4>1. CASE charges' = charges
        BY <4>1
      <4>2. CASE charges' = [charges EXCEPT ![r][Ep(r)] = @ + 1]
        BY <3>1, <4>2, CountType
      <4> QED
        BY <3>2, <4>1, <4>2
  <2>2. UNCHANGED <<plan, at, attempted, retrying, calls, executed, shared>>
    BY <1>25 DEF StreamEnds
  <2>3. CASE End(r, "completed")
    BY <2>1, <2>2, <2>3 DEF End
  <2>4. CASE End(r, "incomplete")
    BY <2>1, <2>2, <2>4 DEF End
  <2>5. CASE End(r, "failed")
    BY <2>1, <2>2, <2>5 DEF End
  <2> QED
    BY <1>25, <2>3, <2>4, <2>5 DEF StreamEnds
<1>26. ASSUME NEW r \in Requests, DrainTimeout(r) PROVE Typed'
  BY <1>26 DEF DrainTimeout, End
<1>27. ASSUME NEW r \in Requests, Leave(r) PROVE Typed'
  BY <1>27 DEF Leave
<1>28. ASSUME NEW e \in Endpoints, CloseAdmission(e) PROVE Typed'
  <2>1. config' \in [Endpoints -> [rev : Nat, open : BOOLEAN]]
    <3>1. \A c \in [rev : Nat, open : BOOLEAN] :
            [c EXCEPT !.open = FALSE] \in [rev : Nat, open : BOOLEAN]
      OBVIOUS
    <3> QED
      BY <1>28, <3>1 DEF CloseAdmission
  <2>2. UNCHANGED <<local, books, gate, rules, gone, budget>>
    BY <1>28 DEF CloseAdmission
  <2> QED
    BY <2>1, <2>2
<1>29. ASSUME NEW e \in Endpoints, OpenAdmission(e) PROVE Typed'
  BY <1>29 DEF OpenAdmission
<1>30. CASE PublishRules
  <2>1. rules.version + 1 \in Nat /\ (~rules.pass) \in BOOLEAN
    OBVIOUS
  <2>2. rules' \in [version : Nat, pass : BOOLEAN]
    BY <1>30, <2>1 DEF PublishRules
  <2>3. UNCHANGED <<local, books, gate, config, gone, budget>>
    BY <1>30 DEF PublishRules
  <2> QED
    BY <2>2, <2>3
<1>31. CASE UNCHANGED vars
  BY <1>31 DEF vars
<1> QED
  BY <1>1, <1>2, <1>3, <1>4, <1>5, <1>6, <1>7, <1>8, <1>9, <1>10, <1>11, <1>12, <1>13, <1>14,
     <1>15, <1>16, <1>17, <1>18, <1>19, <1>20, <1>21, <1>22, <1>23, <1>24, <1>25, <1>26, <1>27,
     <1>28, <1>29, <1>30, <1>31 DEF Next, Step

\* TypeOK of the model: every variable keeps its type, and no request steps behind
\* the last of its candidates.
THEOREM TypeCorrect == Spec => []TypeOK
<1>1. Typed => TypeOK
  BY DEF Typed
<1> QED
  BY <1>1, TypeInit, TypeStep, PTL DEF Spec

-----------------------------------------------------------------------------
(* One execution.                                                           *)

\* How many of its calls may have been carried out, by where the request stands.
Ran(r) ==
  /\ pc[r] \in {"new", "loop", "calling", "decide", "waiting", "limited", "tripped", "charged"}
               \cup Definite
     => executed[r] = 0
  /\ pc[r] \in {"upstream", "clientError", "ok", "body", "stream"} \cup Ambiguous
     => executed[r] = 1
  /\ pc[r] # "done" => outcome[r] = "open"
  /\ pc[r] = "done" =>
       /\ executed[r] \in {0, 1}
       /\ outcome[r] \in {"unavailable", "limited", "policy", "rejected"} => executed[r] = 0
       /\ outcome[r] \in {"completed", "incomplete"} => executed[r] = 1

LEMMA RanStep ==
  ASSUME Typed, \A r \in Requests : Ran(r), [Next]_vars, NEW s \in Requests
  PROVE  Ran(s)'
<1>0. /\ DOMAIN pc = Requests /\ DOMAIN outcome = Requests
      /\ executed \in [Requests -> Nat]
  BY DEF Typed, TypeOK
<1>1. CASE UNCHANGED <<pc, outcome, executed>>
  BY <1>1 DEF Ran
<1> USE <1>0 DEF Ran, Definite, Ambiguous, books
<1>2. ASSUME NEW r \in Requests, Rejected(r) PROVE Ran(s)'
  BY <1>2 DEF Rejected, End
<1>3. ASSUME NEW r \in Requests, Prepare(r) \/ Skip(r) \/ Admit(r) PROVE Ran(s)'
  BY <1>3 DEF Prepare, Skip, Admit
<1>4. ASSUME NEW r \in Requests, NoneLeft(r) \/ LoopCancelled(r) PROVE Ran(s)'
  BY <1>4 DEF NoneLeft, LoopCancelled, End
<1>5. ASSUME NEW r \in Requests, Send(r) PROVE Ran(s)'
  <2>1. pc' = [pc EXCEPT ![r] = "upstream"] /\ outcome' = outcome /\ pc[r] = "calling"
    BY <1>5 DEF Send
  <2>2. executed' = [executed EXCEPT ![r] = 1]
    <3>1. executed[r] = 0
      BY <2>1
    <3>2. executed' = [executed EXCEPT ![r] = executed[r] + 1]
      BY <1>5 DEF Send
    <3> QED
      BY <3>1, <3>2
  <2> QED
    BY <2>1, <2>2
<1>6. ASSUME NEW r \in Requests, Refuse(r) \/ RefuseRetry(r) PROVE Ran(s)'
  BY <1>6 DEF Refuse, RefuseRetry, End
<1>7. ASSUME NEW r \in Requests, Answer(r) PROVE Ran(s)'
  <2>1. PICK x \in Results :
          /\ executed' = [executed EXCEPT ![r] = IF x \in Unexecuted THEN @ - 1 ELSE @]
          /\ pc' = [pc EXCEPT ![r] = IF x = "limited" /\ ~retrying[r] THEN "decide" ELSE x]
    BY <1>7 DEF Answer
  <2>2. outcome' = outcome /\ pc[r] = "upstream"
    BY <1>7 DEF Answer
  <2>3. executed[r] = 1
    BY <2>2
  <2>4. CASE x \in Unexecuted
    <3>1. executed' = [executed EXCEPT ![r] = 0]
      BY <2>1, <2>3, <2>4
    <3>2. pc' = [pc EXCEPT ![r] = "decide"] \/ pc' = [pc EXCEPT ![r] = x]
      BY <2>1
    <3> QED
      BY <2>2, <2>4, <3>1, <3>2 DEF Unexecuted
  <2>5. CASE x \notin Unexecuted
    <3>1. executed' = executed /\ pc' = [pc EXCEPT ![r] = x]
      BY <2>1, <2>5 DEF Unexecuted
    <3> QED
      BY <2>2, <2>3, <2>5, <3>1 DEF Results, Unexecuted
  <2> QED
    BY <2>4, <2>5
<1>8. ASSUME NEW r \in Requests, TakeGate(r) \/ NoRetry(r) \/ Wake(r) \/ GiveUpRetry(r)
      PROVE  Ran(s)'
  BY <1>8 DEF TakeGate, NoRetry, Wake, GiveUpRetry
<1>9. ASSUME NEW r \in Requests, LimitedCancelled(r) \/ AnswerLimited(r) PROVE Ran(s)'
  BY <1>9 DEF LimitedCancelled, AnswerLimited, End
<1>10. ASSUME NEW r \in Requests, ChargeLimited(r) \/ TryNext(r) \/ FailOver(r) PROVE Ran(s)'
  BY <1>10 DEF ChargeLimited, TryNext, CanTryNext, FailOver, NextCandidate
<1>11. ASSUME NEW r \in Requests, PassError(r) \/ PassRaw(r) PROVE Ran(s)'
  BY <1>11 DEF PassError, PassRaw, End, PassthroughError, NextCandidate
<1>12. ASSUME NEW r \in Requests, Process(r) PROVE Ran(s)'
  BY <1>12 DEF Process
<1>13. ASSUME NEW r \in Requests, Body(r) PROVE Ran(s)'
  <2>1. PICK o \in {"completed", "failed"} : End(r, o)
    BY <1>13 DEF Body
  <2> QED
    BY <1>13, <2>1 DEF Body, End
<1>14. ASSUME NEW r \in Requests, StreamEnds(r) PROVE Ran(s)'
  <2>1. PICK o \in {"completed", "incomplete", "failed"} : End(r, o)
    BY <1>14 DEF StreamEnds
  <2> QED
    BY <1>14, <2>1 DEF StreamEnds, End
<1>15. ASSUME NEW r \in Requests, DrainTimeout(r) PROVE Ran(s)'
  BY <1>15 DEF DrainTimeout, End
<1>16. ASSUME NEW r \in Requests, Chunk(r) \/ Leave(r) PROVE UNCHANGED <<pc, outcome, executed>>
  BY <1>16 DEF Chunk, Leave, local
<1>17. ASSUME NEW e \in Endpoints, CloseAdmission(e) \/ OpenAdmission(e)
       PROVE  UNCHANGED <<pc, outcome, executed>>
  BY <1>17 DEF CloseAdmission, OpenAdmission, local
<1>18. PublishRules \/ UNCHANGED vars => UNCHANGED <<pc, outcome, executed>>
  BY DEF PublishRules, vars, local
<1> QED
  BY <1>1, <1>2, <1>3, <1>4, <1>5, <1>6, <1>7, <1>8, <1>9, <1>10, <1>11, <1>12, <1>13, <1>14,
     <1>15, <1>16, <1>17, <1>18 DEF Next, Step

\* AtMostOnce of the model: however many candidates and retries a request goes
\* through, no two of its calls may have been carried out.
THEOREM OneExecution == Spec => []AtMostOnce
<1> DEFINE Executions == Typed /\ \A r \in Requests : Ran(r)
<1>1. Init => Executions
  <2> SUFFICES ASSUME Init PROVE Executions
    OBVIOUS
  <2>1. \A r \in Requests : Ran(r)
    BY DEF Init, Ran, Definite, Ambiguous
  <2> QED
    BY <2>1, TypeInit
<1>2. Executions /\ [Next]_vars => Executions'
  BY TypeStep, RanStep
<1>3. Executions => AtMostOnce
  <2> SUFFICES ASSUME Executions, NEW r \in Requests
               PROVE  /\ executed[r] <= 1
                      /\ outcome[r] \in {"unavailable", "limited", "policy", "rejected"} => executed[r] = 0
                      /\ outcome[r] \in {"completed", "incomplete"} => executed[r] = 1
    BY DEF AtMostOnce
  <2>1. pc[r] \in Results \cup {"new", "loop", "calling", "upstream", "decide", "waiting",
                              "tripped", "charged", "body", "stream", "done"}
    BY DEF Typed, TypeOK
  <2>2. CASE pc[r] = "done"
    BY <2>2 DEF Ran
  <2>3. CASE pc[r] # "done"
    BY <2>1, <2>3 DEF Ran, Results, Definite, Ambiguous
  <2> QED
    BY <2>2, <2>3
<1> HIDE DEF Executions
<1> QED
  BY <1>1, <1>2, <1>3, PTL DEF Spec

-----------------------------------------------------------------------------
(* What a request holds.                                                    *)

\* What a request may hold, by where it stands.
Holds(r) ==
  /\ pc[r] = "waiting" => lease[r] = None /\ ~held[r] /\ retrying[r]
  /\ pc[r] = "done" => lease[r] = None /\ ~held[r] /\ ~retrying[r] /\ ~draining[r]
  /\ pc[r] \in {"calling", "upstream", "ok", "body", "stream"} => lease[r] = Ep(r)
  /\ retrying[r] => pc[r] \in {"waiting", "calling", "upstream"}

LEMMA HoldsStep ==
  ASSUME Typed, \A r \in Requests : Holds(r), [Next]_vars, NEW s \in Requests
  PROVE  Holds(s)'
<1>0. /\ DOMAIN pc = Requests /\ DOMAIN at = Requests /\ DOMAIN plan = Requests
      /\ DOMAIN lease = Requests
      /\ held \in [Requests -> BOOLEAN] /\ retrying \in [Requests -> BOOLEAN]
      /\ draining \in [Requests -> BOOLEAN]
  BY DEF Typed, TypeOK
<1>1. CASE UNCHANGED <<pc, plan, at, lease, held, retrying, draining>>
  BY <1>1 DEF Holds, Ep, Candidate
<1> USE <1>0 DEF Holds
<1>2. ASSUME NEW r \in Requests, UNCHANGED <<plan, at, retrying>>, ~retrying[r],
             NEW o, End(r, o)
      PROVE  Holds(s)'
  BY <1>2 DEF End, Ep, Candidate
<1>3. ASSUME NEW r \in Requests,
             \/ Rejected(r) \/ NoneLeft(r) \/ LoopCancelled(r) \/ Refuse(r)
             \/ LimitedCancelled(r) \/ AnswerLimited(r) \/ PassError(r) \/ PassRaw(r)
             \/ Body(r) \/ StreamEnds(r) \/ DrainTimeout(r)
      PROVE  Holds(s)'
  <2>1. UNCHANGED <<plan, at, retrying>> /\ \E o : End(r, o)
    BY <1>3 DEF Rejected, NoneLeft, LoopCancelled, Refuse, LimitedCancelled, AnswerLimited,
                PassError, PassRaw, Body, StreamEnds, DrainTimeout
  <2>2. ~retrying[r]
    BY <1>3 DEF Rejected, NoneLeft, LoopCancelled, Refuse, LimitedCancelled, AnswerLimited,
                PassError, PassRaw, Body, StreamEnds, DrainTimeout,
                PassthroughError, Ambiguous, Definite, NextCandidate
  <2> QED
    BY <1>2, <2>1, <2>2
<1>4. ASSUME NEW r \in Requests, Prepare(r) PROVE Holds(s)'
  <2>1. /\ \E q : plan' = [plan EXCEPT ![r] = q]
        /\ pc[r] = "new" /\ pc' = [pc EXCEPT ![r] = "loop"]
        /\ UNCHANGED <<at, lease, held, retrying, draining>>
    BY <1>4 DEF Prepare
  <2> QED
    BY <2>1 DEF Ep, Candidate
<1>5. ASSUME NEW r \in Requests, Skip(r) \/ TryNext(r) \/ FailOver(r) PROVE Holds(s)'
  <2>1. /\ at' = [at EXCEPT ![r] = Following(r)]
        /\ \/ pc' = [pc EXCEPT ![r] = "loop"]
           \/ pc' = pc /\ pc[r] = "loop"
        /\ UNCHANGED <<plan, retrying, draining>>
    BY <1>5 DEF Skip, TryNext, FailOver
  <2>2. pc[r] \notin {"waiting", "calling", "upstream"}
    BY <1>5 DEF Skip, TryNext, CanTryNext, FailOver, NextCandidate, Definite
  <2>3. lease' = [lease EXCEPT ![r] = None] \/ lease' = lease
    BY <1>5 DEF Skip, TryNext, FailOver
  <2>4. held' = [held EXCEPT ![r] = FALSE] \/ held' = held
    BY <1>5 DEF Skip, TryNext, FailOver
  <2> QED
    BY <2>1, <2>2, <2>3, <2>4 DEF Ep, Candidate
<1>6. ASSUME NEW r \in Requests, Admit(r) \/ Wake(r) PROVE Holds(s)'
  BY <1>6 DEF Admit, Wake, Ep, Candidate
<1>7. ASSUME NEW r \in Requests, Send(r) PROVE Holds(s)'
  BY <1>7 DEF Send, Ep, Candidate
<1>8. ASSUME NEW r \in Requests, RefuseRetry(r) \/ GiveUpRetry(r) PROVE Holds(s)'
  BY <1>8 DEF RefuseRetry, GiveUpRetry, Ep, Candidate
<1>9. ASSUME NEW r \in Requests, Answer(r) PROVE Holds(s)'
  <2>1. PICK x \in Results :
          /\ held' = [held EXCEPT ![r] = x \notin {"noHeaders", "broken"}]
          /\ pc' = [pc EXCEPT ![r] = IF x = "limited" /\ ~retrying[r] THEN "decide" ELSE x]
    BY <1>9 DEF Answer
  <2>2. PICK m \in Results \cup {"decide"} : pc' = [pc EXCEPT ![r] = m]
    BY <2>1
  <2>3. /\ pc[r] = "upstream" /\ retrying' = [retrying EXCEPT ![r] = FALSE]
        /\ UNCHANGED <<plan, at, lease, draining>>
    BY <1>9 DEF Answer
  <2>4. \A q \in Requests \ {r} : held'[q] = held[q]
    BY <2>1
  <2>5. m \notin {"waiting", "done", "calling", "upstream", "body", "stream"}
    BY DEF Results, Definite, Ambiguous
  <2>6. Holds(r)'
    BY <2>2, <2>3, <2>5 DEF Ep, Candidate
  <2>7. s # r => Holds(s)'
    BY <2>2, <2>3, <2>4 DEF Ep, Candidate
  <2> QED
    BY <2>6, <2>7
<1>10. ASSUME NEW r \in Requests, TakeGate(r) PROVE Holds(s)'
  BY <1>10 DEF TakeGate, Ep, Candidate
<1>11. ASSUME NEW r \in Requests, NoRetry(r) \/ ChargeLimited(r) PROVE Holds(s)'
  <2>1. /\ \E m \in {"limited", "tripped", "charged"} : pc' = [pc EXCEPT ![r] = m]
        /\ pc[r] \notin {"waiting", "calling", "upstream"}
        /\ \/ held' = [held EXCEPT ![r] = FALSE]
           \/ held' = held
        /\ UNCHANGED <<plan, at, lease, retrying, draining>>
    BY <1>11 DEF NoRetry, ChargeLimited
  <2> QED
    BY <2>1 DEF Ep, Candidate
<1>12. ASSUME NEW r \in Requests, Process(r) \/ Chunk(r) PROVE Holds(s)'
  <2>1. /\ \/ pc[r] = "ok" /\ \E m \in {"stream", "body"} : pc' = [pc EXCEPT ![r] = m]
           \/ pc[r] = "stream" /\ pc' = pc
        /\ \E d : draining' = [draining EXCEPT ![r] = d]
        /\ UNCHANGED <<plan, at, lease, held, retrying>>
    BY <1>12 DEF Process, Chunk
  <2> QED
    BY <2>1 DEF Ep, Candidate
<1>13. ASSUME NEW r \in Requests, Leave(r)
       PROVE  UNCHANGED <<pc, plan, at, lease, held, retrying, draining>>
  BY <1>13 DEF Leave, local
<1>14. ASSUME NEW e \in Endpoints, CloseAdmission(e) \/ OpenAdmission(e)
       PROVE  UNCHANGED <<pc, plan, at, lease, held, retrying, draining>>
  BY <1>14 DEF CloseAdmission, OpenAdmission, local
<1>15. PublishRules \/ UNCHANGED vars => UNCHANGED <<pc, plan, at, lease, held, retrying, draining>>
  BY DEF PublishRules, vars, local
<1> QED
  BY <1>1, <1>3, <1>4, <1>5, <1>6, <1>7, <1>8, <1>9, <1>10, <1>11, <1>12, <1>13, <1>14, <1>15
     DEF Next, Step


\* NothingHeld of the model: a request that waits or has ended holds no admission
\* and no response, one that is at an endpoint has its admission.
THEOREM NothingIsHeld == Spec => []NothingHeld
<1> DEFINE Holdings == Typed /\ \A r \in Requests : Holds(r)
<1>1. Init => Holdings
  <2> SUFFICES ASSUME Init PROVE Holdings
    OBVIOUS
  <2>1. \A r \in Requests : Holds(r)
    BY DEF Init, Holds
  <2> QED
    BY <2>1, TypeInit
<1>2. Holdings /\ [Next]_vars => Holdings'
  BY TypeStep, HoldsStep
<1>3. Holdings => NothingHeld
  BY DEF Holds, NothingHeld
<1> HIDE DEF Holdings
<1> QED
  BY <1>1, <1>2, <1>3, PTL DEF Spec

-----------------------------------------------------------------------------
(* The gate of the 429 retries.                                             *)

\* A step that leaves the gates and the retrying requests alone.
LEMMA GateKept ==
  ASSUME GateMatchesWaiter, UNCHANGED <<gate, retrying>>,
         \A q \in Requests : retrying[q] => Ep(q)' = Ep(q)
  PROVE  GateMatchesWaiter'
<1> SUFFICES ASSUME NEW e \in Endpoints
             PROVE  /\ gate[e] <=> \E q \in Requests : retrying[q] /\ Ep(q)' = e
                    /\ \A q, t \in Requests : retrying[q] /\ retrying[t] /\ Ep(q)' = e /\ Ep(t)' = e => q = t
  BY DEF GateMatchesWaiter
<1> QED
  BY DEF GateMatchesWaiter

\* A request that stops retrying opens the gate of its endpoint, which no other
\* request holds.
LEMMA GateReleased ==
  ASSUME Typed, GateMatchesWaiter, NEW r \in Requests, retrying[r],
         gate' = [gate EXCEPT ![Ep(r)] = FALSE],
         retrying' = [retrying EXCEPT ![r] = FALSE],
         \A q \in Requests : Ep(q)' = Ep(q)
  PROVE  GateMatchesWaiter'
<1>1. /\ gate \in [Endpoints -> BOOLEAN] /\ retrying \in [Requests -> BOOLEAN]
  BY DEF Typed, TypeOK
<1> SUFFICES ASSUME NEW e \in Endpoints
             PROVE  /\ gate'[e] <=> \E q \in Requests : retrying'[q] /\ Ep(q)' = e
                    /\ \A q, t \in Requests : retrying'[q] /\ retrying'[t] /\ Ep(q)' = e /\ Ep(t)' = e => q = t
  BY DEF GateMatchesWaiter
<1>2. CASE Ep(r) = e
  BY <1>1, <1>2 DEF GateMatchesWaiter
<1>3. CASE Ep(r) # e
  BY <1>1, <1>3 DEF GateMatchesWaiter
<1> QED
  BY <1>2, <1>3

LEMMA GateTaken ==
  ASSUME Typed, GateMatchesWaiter, NEW r \in Requests, Ep(r) \in Endpoints, ~gate[Ep(r)],
         gate' = [gate EXCEPT ![Ep(r)] = TRUE],
         retrying' = [retrying EXCEPT ![r] = TRUE],
         \A q \in Requests : Ep(q)' = Ep(q), ~retrying[r]
  PROVE  GateMatchesWaiter'
<1>1. /\ gate \in [Endpoints -> BOOLEAN] /\ retrying \in [Requests -> BOOLEAN]
  BY DEF Typed, TypeOK
<1> SUFFICES ASSUME NEW e \in Endpoints
             PROVE  /\ gate'[e] <=> \E q \in Requests : retrying'[q] /\ Ep(q)' = e
                    /\ \A q, t \in Requests : retrying'[q] /\ retrying'[t] /\ Ep(q)' = e /\ Ep(t)' = e => q = t
  BY DEF GateMatchesWaiter
<1>2. CASE Ep(r) = e
  BY <1>1, <1>2 DEF GateMatchesWaiter
<1>3. CASE Ep(r) # e
  BY <1>1, <1>3 DEF GateMatchesWaiter
<1> QED
  BY <1>2, <1>3

LEMMA GateStep ==
  ASSUME Typed, \A r \in Requests : Holds(r), GateMatchesWaiter, [Next]_vars
  PROVE  GateMatchesWaiter'
<1>0. DOMAIN at = Requests /\ DOMAIN plan = Requests /\ retrying \in [Requests -> BOOLEAN]
  BY DEF Typed, TypeOK
<1>1. CASE UNCHANGED <<gate, retrying, plan, at>>
  <2>1. \A q \in Requests : Ep(q)' = Ep(q)
    BY <1>1 DEF Ep, Candidate
  <2> QED
    BY <1>1, <2>1, GateKept
<1>2. ASSUME NEW r \in Requests, Prepare(r) PROVE GateMatchesWaiter'
  <2>1. /\ \E q : plan' = [plan EXCEPT ![r] = q]
        /\ ~retrying[r]
        /\ UNCHANGED <<at, gate, retrying>>
    BY <1>2 DEF Prepare, Holds, shared
  <2>2. \A q \in Requests : retrying[q] => Ep(q)' = Ep(q)
    BY <1>0, <2>1 DEF Ep, Candidate
  <2> QED
    BY <2>1, <2>2, GateKept
<1>3. ASSUME NEW r \in Requests, Skip(r) \/ TryNext(r) \/ FailOver(r) PROVE GateMatchesWaiter'
  <2>1. /\ \E n : at' = [at EXCEPT ![r] = n]
        /\ ~retrying[r]
        /\ UNCHANGED <<plan, gate, retrying>>
    BY <1>3 DEF Skip, TryNext, CanTryNext, FailOver, NextCandidate, Definite, Holds, shared
  <2>2. \A q \in Requests : retrying[q] => Ep(q)' = Ep(q)
    BY <1>0, <2>1 DEF Ep, Candidate
  <2> QED
    BY <2>1, <2>2, GateKept
<1>4. ASSUME NEW r \in Requests, Answer(r) PROVE GateMatchesWaiter'
  <2>1. UNCHANGED <<plan, at>> /\ retrying' = [retrying EXCEPT ![r] = FALSE]
    BY <1>4 DEF Answer
  <2>2. \A q \in Requests : Ep(q)' = Ep(q)
    BY <2>1 DEF Ep, Candidate
  <2>3. CASE retrying[r]
    <3>1. gate' = [gate EXCEPT ![Ep(r)] = FALSE]
      BY <1>4, <2>3 DEF Answer
    <3> QED
      BY <2>1, <2>2, <2>3, <3>1, GateReleased
  <2>4. CASE ~retrying[r]
    <3>1. gate' = gate
      BY <1>4, <2>4 DEF Answer
    <3>2. retrying' = retrying
      BY <1>0, <2>1, <2>4
    <3> QED
      BY <2>2, <3>1, <3>2, GateKept
  <2> QED
    BY <2>3, <2>4
<1>5. ASSUME NEW r \in Requests, TakeGate(r) PROVE GateMatchesWaiter'
  <2>1. /\ UNCHANGED <<plan, at>> /\ retrying' = [retrying EXCEPT ![r] = TRUE]
        /\ gate' = [gate EXCEPT ![Ep(r)] = TRUE] /\ ~gate[Ep(r)]
    BY <1>5 DEF TakeGate, GateFree
  <2>2. \A q \in Requests : Ep(q)' = Ep(q)
    BY <2>1 DEF Ep, Candidate
  <2>3. Ep(r) \in Endpoints
    BY <1>5, CandidateType DEF TakeGate, Typed, Located
  <2>4. ~retrying[r]
    BY <1>5 DEF TakeGate, Holds
  <2> QED
    BY <2>1, <2>2, <2>3, <2>4, GateTaken
<1>6. ASSUME NEW r \in Requests, RefuseRetry(r) \/ GiveUpRetry(r) PROVE GateMatchesWaiter'
  <2>1. /\ UNCHANGED <<plan, at>> /\ retrying' = [retrying EXCEPT ![r] = FALSE]
        /\ gate' = [gate EXCEPT ![Ep(r)] = FALSE]
    BY <1>6 DEF RefuseRetry, GiveUpRetry
  <2>2. \A q \in Requests : Ep(q)' = Ep(q)
    BY <2>1 DEF Ep, Candidate
  <2> QED
    BY <1>6, <2>1, <2>2, GateReleased DEF RefuseRetry, GiveUpRetry, Holds
<1>7. ASSUME NEW r \in Requests,
             \/ Rejected(r) \/ NoneLeft(r) \/ LoopCancelled(r) \/ Admit(r) \/ Send(r)
             \/ Refuse(r) \/ NoRetry(r) \/ Wake(r) \/ LimitedCancelled(r) \/ ChargeLimited(r)
             \/ AnswerLimited(r) \/ PassError(r) \/ PassRaw(r) \/ Process(r) \/ Body(r)
             \/ Chunk(r) \/ StreamEnds(r) \/ DrainTimeout(r) \/ Leave(r)
      PROVE  UNCHANGED <<gate, retrying, plan, at>>
  BY <1>7 DEF Rejected, NoneLeft, LoopCancelled, Admit, Send, Refuse, NoRetry, Wake,
              LimitedCancelled, ChargeLimited, AnswerLimited, PassError, PassRaw, Process, Body,
              Chunk, StreamEnds, DrainTimeout, Leave, shared, local
<1>8. ASSUME NEW e \in Endpoints, CloseAdmission(e) \/ OpenAdmission(e)
      PROVE  UNCHANGED <<gate, retrying, plan, at>>
  BY <1>8 DEF CloseAdmission, OpenAdmission, local
<1>9. PublishRules \/ UNCHANGED vars => UNCHANGED <<gate, retrying, plan, at>>
  BY DEF PublishRules, vars, local, shared
<1> QED
  BY <1>1, <1>2, <1>3, <1>4, <1>5, <1>6, <1>7, <1>8, <1>9 DEF Next, Step

\* GateMatchesWaiter of the model: at most one request retries an endpoint after a
\* 429, and its gate is closed exactly while one does.
THEOREM OneWaiterPerEndpoint == Spec => []GateMatchesWaiter
<1> DEFINE Gates == Typed /\ (\A r \in Requests : Holds(r)) /\ GateMatchesWaiter
<1>1. Init => Gates
  <2> SUFFICES ASSUME Init PROVE Gates
    OBVIOUS
  <2>1. \A r \in Requests : Holds(r)
    BY DEF Init, Holds
  <2>2. GateMatchesWaiter
    BY DEF Init, GateMatchesWaiter
  <2> QED
    BY <2>1, <2>2, TypeInit
<1>2. Gates /\ [Next]_vars => Gates'
  <2> SUFFICES ASSUME Gates, [Next]_vars PROVE Gates'
    OBVIOUS
  <2>1. Typed'
    BY TypeStep
  <2>2. \A r \in Requests : Holds(r)'
    BY HoldsStep
  <2>3. GateMatchesWaiter'
    BY GateStep
  <2> QED
    BY <2>1, <2>2, <2>3
<1>3. Gates => GateMatchesWaiter
  OBVIOUS
<1> HIDE DEF Gates
<1> QED
  BY <1>1, <1>2, <1>3, PTL DEF Spec

-----------------------------------------------------------------------------
(* What a request costs.                                                    *)

\* What a request has spent at the candidate it stands at: n calls, m settlements.
Here(p, n, m, again, o) ==
  /\ p \notin {"tripped", "charged", "done"} \/ o = "cancelled" => m = 0
  /\ p = "loop" => n = 0
  /\ p = "calling" => n = IF again THEN 1 ELSE 0
  /\ p = "upstream" => n = IF again THEN 2 ELSE 1
  /\ p \in {"decide", "waiting"} => n = 1

\* A request at place p and candidate i of its plan q, with the calls c and the
\* settlements m of each endpoint: no endpoint is planned twice, and nothing has been
\* spent at the candidates ahead.
Spends(p, q, i, c, m, again, o) ==
  /\ \A j, k \in 1..Len(q) : q[j].ep = q[k].ep => j = k
  /\ p = "new" => \A e \in Endpoints : c[e] = 0 /\ m[e] = 0
  /\ \A j \in 1..Len(q) : j > i => c[q[j].ep] = 0 /\ m[q[j].ep] = 0
  /\ \A e \in Endpoints : c[e] <= 2 /\ m[e] <= 1
  /\ i <= Len(q) => Here(p, c[q[i].ep], m[q[i].ep], again, o)

Called(c) == {e \in Endpoints : c[e] > 0}

\* Every endpoint called was counted, the one about to be called included.
Counts(p, c, n, again, b) ==
  /\ IsFiniteSet(Called(c))
  /\ Cardinality(Called(c)) + (IF p = "calling" /\ ~again THEN 1 ELSE 0) <= n
  /\ n <= b

Effort(r) ==
  /\ Spends(pc[r], plan[r], at[r], calls[r], charges[r], retrying[r], outcome[r])
  /\ Counts(pc[r], calls[r], attempted[r], retrying[r], budget)

LEMMA OneMore ==
  ASSUME NEW c \in [Endpoints -> Nat], NEW x \in Endpoints, NEW d, d = [c EXCEPT ![x] = @ + 1]
  PROVE  /\ d \in [Endpoints -> Nat] /\ d[x] = c[x] + 1
         /\ \A e \in Endpoints \ {x} : d[e] = c[e]
         /\ Called(d) = Called(c) \cup {x}
<1> DEFINE n == c[x] + 1
<1>1. n \in Nat /\ n > 0
  OBVIOUS
<1>2. d = [c EXCEPT ![x] = n]
  OBVIOUS
<1> HIDE DEF n
<1>3. d \in [Endpoints -> Nat] /\ d[x] = n /\ \A e \in Endpoints \ {x} : d[e] = c[e]
  BY <1>1, <1>2
<1>4. Called(d) = Called(c) \cup {x}
  BY <1>1, <1>3 DEF Called
<1> QED
  BY <1>3, <1>4 DEF n

LEMMA CandidateOf ==
  ASSUME NEW q \in Seq(Candidates), NEW j \in 1..Len(q)
  PROVE  q[j].ep \in Endpoints
<1>1. q[j] \in Candidates
  OBVIOUS
<1> QED
  BY <1>1 DEF Candidates

\* It goes on to the next candidate, after at most one settlement at this one.
LEMMA SpendsNext ==
  ASSUME NEW p, NEW q \in Seq(Candidates), NEW i \in Nat \ {0}, i <= Len(q),
         NEW c \in [Endpoints -> Nat], NEW m \in [Endpoints -> Nat],
         NEW k \in [Endpoints -> Nat], NEW again, NEW o, o = "open",
         Spends(p, q, i, c, m, again, o),
         \A e \in Endpoints \ {q[i].ep} : k[e] = m[e], k[q[i].ep] <= 1
  PROVE  Spends("loop", q, i + 1, c, k, again, o)
<1>1. \A j \in 1..Len(q) : q[j].ep \in Endpoints
  BY CandidateOf
<1>2. \A j \in 1..Len(q) : j > i => q[j].ep # q[i].ep
  BY DEF Spends
<1>3. \A j \in 1..Len(q) : j > i => c[q[j].ep] = 0 /\ k[q[j].ep] = 0
  BY <1>1, <1>2 DEF Spends
<1>4. \A e \in Endpoints : c[e] <= 2 /\ k[e] <= 1
  BY DEF Spends
<1>5. i + 1 <= Len(q) => Here("loop", c[q[i + 1].ep], k[q[i + 1].ep], again, o)
  BY <1>3 DEF Here
<1>6. \A j \in 1..Len(q) : j > i + 1 => j > i
  OBVIOUS
<1> QED
  BY <1>3, <1>4, <1>5, <1>6 DEF Spends

\* It is settled at its candidate.
LEMMA SpendsCharge ==
  ASSUME NEW p, NEW q \in Seq(Candidates), NEW i \in Nat \ {0}, i <= Len(q),
         NEW c \in [Endpoints -> Nat], NEW m \in [Endpoints -> Nat],
         NEW k \in [Endpoints -> Nat], NEW again, NEW o,
         Spends(p, q, i, c, m, again, o),
         \A e \in Endpoints \ {q[i].ep} : k[e] = m[e], k[q[i].ep] <= 1
  PROVE  \A t, again2, o2 : t \in {"tripped", "charged", "done"} /\ o2 # "cancelled"
                              => Spends(t, q, i, c, k, again2, o2)
<1>1. \A j \in 1..Len(q) : q[j].ep \in Endpoints
  BY CandidateOf
<1>2. \A j \in 1..Len(q) : j > i => q[j].ep # q[i].ep
  BY DEF Spends
<1>3. \A j \in 1..Len(q) : j > i => c[q[j].ep] = 0 /\ k[q[j].ep] = 0
  BY <1>1, <1>2 DEF Spends
<1>4. \A e \in Endpoints : c[e] <= 2 /\ k[e] <= 1
  BY DEF Spends
<1> QED
  BY <1>3, <1>4 DEF Spends, Here

\* It calls its candidate.
LEMMA SpendsCall ==
  ASSUME NEW q \in Seq(Candidates), NEW i \in Nat \ {0}, i <= Len(q),
         NEW c \in [Endpoints -> Nat], NEW m \in [Endpoints -> Nat],
         NEW d \in [Endpoints -> Nat], NEW again, NEW o,
         Spends("calling", q, i, c, m, again, o),
         \A e \in Endpoints \ {q[i].ep} : d[e] = c[e], d[q[i].ep] = c[q[i].ep] + 1
  PROVE  Spends("upstream", q, i, d, m, again, o)
<1>1. \A j \in 1..Len(q) : q[j].ep \in Endpoints
  BY CandidateOf
<1>2. \A j \in 1..Len(q) : j > i => q[j].ep # q[i].ep
  BY DEF Spends
<1>3. \A j \in 1..Len(q) : j > i => d[q[j].ep] = 0 /\ m[q[j].ep] = 0
  BY <1>1, <1>2 DEF Spends
<1>4. c[q[i].ep] = (IF again THEN 1 ELSE 0) /\ m[q[i].ep] = 0
  BY DEF Spends, Here
<1>5. Here("upstream", d[q[i].ep], m[q[i].ep], again, o)
  BY <1>4 DEF Here
<1>6. \A e \in Endpoints : d[e] <= 2 /\ m[e] <= 1
  <2>1. d[q[i].ep] <= 2
    BY <1>4
  <2> QED
    BY <2>1 DEF Spends
<1> QED
  BY <1>3, <1>5, <1>6 DEF Spends

\* The costs of the requests that a step is not about.
LEMMA EffortKept ==
  ASSUME NEW s \in Requests, Effort(s), budget' = budget,
         pc'[s] = pc[s], plan'[s] = plan[s], at'[s] = at[s], calls'[s] = calls[s],
         charges'[s] = charges[s], retrying'[s] = retrying[s], outcome'[s] = outcome[s],
         attempted'[s] = attempted[s]
  PROVE  Effort(s)'
BY DEF Effort, Spends, Here, Counts, Called

\* Steps that neither call nor settle, nor go to another candidate.
LEMMA EffortElsewhere ==
  ASSUME Typed, NEW r \in Requests, Effort(r), budget' = budget,
         UNCHANGED <<plan, at, calls, charges, attempted>>, pc'[r] # "new",
         pc'[r] = "calling" => pc[r] = "calling" \/ (retrying'[r] /\ pc[r] = "waiting"),
         pc[r] = "calling" /\ pc'[r] = "calling" => retrying'[r] = retrying[r],
         at[r] <= Len(plan[r]) => Here(pc'[r], calls[r][Ep(r)], charges[r][Ep(r)],
                                       retrying'[r], outcome'[r])
  PROVE  Effort(r)'
<1>1. /\ plan[r] \in Seq(Candidates) /\ at[r] \in Nat \ {0}
      /\ calls[r] \in [Endpoints -> Nat] /\ charges[r] \in [Endpoints -> Nat]
      /\ attempted[r] \in Nat /\ budget \in Nat
  BY DEF Typed, TypeOK, Candidates
<1>2. Spends(pc'[r], plan[r], at[r], calls[r], charges[r], retrying'[r], outcome'[r])
  BY <1>1 DEF Effort, Spends, Ep, Candidate
<1>3. IsFiniteSet(Called(calls[r])) /\ Cardinality(Called(calls[r])) \in Nat
  BY FS_CardinalityType DEF Effort, Counts
<1>4. Cardinality(Called(calls[r])) <= attempted[r]
  BY <1>1, <1>3 DEF Effort, Counts
<1>5. Counts(pc'[r], calls[r], attempted[r], retrying'[r], budget)
  BY <1>1, <1>3, <1>4 DEF Effort, Counts
<1> QED
  BY <1>2, <1>5 DEF Effort

\* The steps of a request leave what the others have spent alone.
LEMMA OthersKept ==
  ASSUME Typed, NEW r \in Requests, Step(r) \/ Chunk(r) \/ StreamEnds(r) \/ Leave(r),
         NEW s \in Requests \ {r}
  PROVE  /\ budget' = budget
         /\ pc'[s] = pc[s] /\ plan'[s] = plan[s] /\ at'[s] = at[s] /\ calls'[s] = calls[s]
         /\ charges'[s] = charges[s] /\ retrying'[s] = retrying[s] /\ outcome'[s] = outcome[s]
         /\ attempted'[s] = attempted[s]
<1>0. s # r /\ s \in Requests
  OBVIOUS
<1>1. /\ DOMAIN pc = Requests /\ DOMAIN plan = Requests /\ DOMAIN at = Requests
      /\ DOMAIN calls = Requests /\ DOMAIN charges = Requests /\ DOMAIN retrying = Requests
      /\ DOMAIN outcome = Requests /\ DOMAIN attempted = Requests
  BY DEF Typed, TypeOK
<1> USE <1>0, <1>1 DEF local, books, shared
<1>2. CASE Rejected(r) \/ NoneLeft(r) \/ LoopCancelled(r) \/ Refuse(r) \/ LimitedCancelled(r)
           \/ AnswerLimited(r) \/ PassRaw(r) \/ Body(r) \/ DrainTimeout(r)
  BY <1>2 DEF Rejected, NoneLeft, LoopCancelled, Refuse, LimitedCancelled, AnswerLimited,
              PassRaw, Body, DrainTimeout, End
<1>3. CASE PassError(r) \/ StreamEnds(r)
  BY <1>3 DEF PassError, StreamEnds, End, Charge
<1>4. CASE Prepare(r)
  BY <1>4 DEF Prepare
<1>5. CASE Skip(r) \/ Admit(r) \/ TryNext(r) \/ FailOver(r)
  BY <1>5 DEF Skip, Admit, TryNext, FailOver, Charge
<1>6. CASE Send(r) \/ RefuseRetry(r) \/ TakeGate(r) \/ NoRetry(r) \/ Wake(r) \/ GiveUpRetry(r)
  BY <1>6 DEF Send, RefuseRetry, TakeGate, NoRetry, Wake, GiveUpRetry
<1>7. CASE Answer(r)
  <2>1. PICK t : pc' = [pc EXCEPT ![r] = t]
    BY <1>7 DEF Answer
  <2> QED
    BY <1>7, <2>1 DEF Answer
<1>8. CASE ChargeLimited(r)
  <2>1. PICK t : pc' = [pc EXCEPT ![r] = t]
    BY <1>8 DEF ChargeLimited
  <2> QED
    BY <1>8, <2>1 DEF ChargeLimited, Charge
<1>9. CASE Process(r) \/ Chunk(r) \/ Leave(r)
  BY <1>9 DEF Process, Chunk, Leave
<1> QED
  BY <1>2, <1>3, <1>4, <1>5, <1>6, <1>7, <1>8, <1>9 DEF Step

\* Its settlement at the candidate it stands at is the first.
LEMMA ChargesHere ==
  ASSUME Typed, NEW r \in Requests, Effort(r), at[r] <= Len(plan[r]),
         pc[r] \notin {"tripped", "charged", "done"},
         charges' = charges \/ charges' = [charges EXCEPT ![r][Ep(r)] = @ + 1]
  PROVE  /\ charges'[r] \in [Endpoints -> Nat]
         /\ \A e \in Endpoints \ {plan[r][at[r]].ep} : charges'[r][e] = charges[r][e]
         /\ charges'[r][plan[r][at[r]].ep] <= 1
<1>1. Ep(r) \in Endpoints /\ Ep(r) = plan[r][at[r]].ep
  BY CandidateType DEF Typed, Ep, Candidate
<1>2. charges[r] \in [Endpoints -> Nat] /\ charges[r][Ep(r)] = 0
  BY DEF Typed, TypeOK, Effort, Spends, Here, Ep, Candidate
<1>3. CASE charges' = charges
  BY <1>1, <1>2, <1>3
<1>4. CASE charges' = [charges EXCEPT ![r][Ep(r)] = @ + 1]
  <2>1. charges'[r] = [charges[r] EXCEPT ![Ep(r)] = @ + 1]
    BY <1>4 DEF Typed, TypeOK
  <2>2. /\ charges'[r] \in [Endpoints -> Nat] /\ charges'[r][Ep(r)] = charges[r][Ep(r)] + 1
        /\ \A e \in Endpoints \ {Ep(r)} : charges'[r][e] = charges[r][e]
    BY <1>1, <1>2, <2>1, OneMore
  <2> QED
    BY <1>1, <1>2, <2>2
<1> QED
  BY <1>3, <1>4

\* What is counted does not change with the settlements.
LEMMA CountsSettled ==
  ASSUME Typed, NEW r \in Requests, Effort(r), UNCHANGED <<calls, attempted, budget>>,
         pc'[r] # "calling"
  PROVE  Counts(pc'[r], calls'[r], attempted'[r], retrying'[r], budget')
<1>1. IsFiniteSet(Called(calls[r])) /\ Cardinality(Called(calls[r])) \in Nat
  BY FS_CardinalityType DEF Effort, Counts
<1>2. attempted[r] \in Nat /\ budget \in Nat
  BY DEF Typed, TypeOK
<1> QED
  BY <1>1, <1>2 DEF Effort, Counts

\* The request goes on, settled or not.
LEMMA EffortNext ==
  ASSUME Typed, NEW r \in Requests, Effort(r), outcome[r] = "open",
         at[r] <= Len(plan[r]), at' = [at EXCEPT ![r] = Following(r)],
         UNCHANGED <<plan, calls, attempted, retrying, outcome, budget>>,
         pc'[r] = "loop",
         \/ charges' = charges
         \/ /\ charges' = [charges EXCEPT ![r][Ep(r)] = @ + 1]
            /\ pc[r] \notin {"tripped", "charged", "done"}
  PROVE  Effort(r)'
<1>1. /\ plan[r] \in Seq(Candidates) /\ at[r] \in Nat \ {0} /\ at[r] <= Len(plan[r])
      /\ calls[r] \in [Endpoints -> Nat] /\ charges[r] \in [Endpoints -> Nat]
  BY DEF Typed, TypeOK, Candidates
<1>2. plan[r][at[r]].ep \in Endpoints
  BY CandidateType DEF Typed, Ep, Candidate
<1>3. /\ charges'[r] \in [Endpoints -> Nat]
      /\ \A e \in Endpoints \ {plan[r][at[r]].ep} : charges'[r][e] = charges[r][e]
      /\ charges'[r][plan[r][at[r]].ep] <= 1
  <2>1. CASE charges' = charges
    <3>1. charges[r][plan[r][at[r]].ep] <= 1
      BY <1>2 DEF Effort, Spends
    <3> QED
      BY <1>1, <2>1, <3>1
  <2>2. CASE pc[r] \notin {"tripped", "charged", "done"}
    BY <2>2, ChargesHere
  <2> QED
    BY <2>1, <2>2
<1>4. Spends("loop", plan[r], at[r] + 1, calls[r], charges'[r], retrying[r], outcome[r])
  BY <1>1, <1>3, SpendsNext DEF Effort
<1>5. at'[r] = at[r] + 1
  BY FollowingType DEF Typed
<1>6. Counts(pc'[r], calls'[r], attempted'[r], retrying'[r], budget')
  BY CountsSettled
<1> QED
  BY <1>4, <1>5, <1>6 DEF Effort

\* The request is settled where it stands.
LEMMA EffortSettled ==
  ASSUME Typed, NEW r \in Requests, Effort(r), at[r] <= Len(plan[r]),
         pc[r] \notin {"tripped", "charged", "done"},
         charges' = [charges EXCEPT ![r][Ep(r)] = @ + 1],
         UNCHANGED <<plan, at, calls, attempted, budget>>,
         pc'[r] \in {"tripped", "charged", "done"}, outcome'[r] # "cancelled"
  PROVE  Effort(r)'
<1>1. /\ plan[r] \in Seq(Candidates) /\ at[r] \in Nat \ {0}
      /\ calls[r] \in [Endpoints -> Nat] /\ charges[r] \in [Endpoints -> Nat]
  BY DEF Typed, TypeOK, Candidates
<1>2. /\ charges'[r] \in [Endpoints -> Nat]
      /\ \A e \in Endpoints \ {plan[r][at[r]].ep} : charges'[r][e] = charges[r][e]
      /\ charges'[r][plan[r][at[r]].ep] <= 1
  BY ChargesHere
<1>3. Spends(pc[r], plan[r], at[r], calls[r], charges[r], retrying[r], outcome[r])
  BY DEF Effort
<1>4. \A t, again, o : t \in {"tripped", "charged", "done"} /\ o # "cancelled"
                        => Spends(t, plan[r], at[r], calls[r], charges'[r], again, o)
  <2>1. PICK m : m = charges'[r]
    OBVIOUS
  <2>2. /\ m \in [Endpoints -> Nat]
        /\ \A e \in Endpoints \ {plan[r][at[r]].ep} : m[e] = charges[r][e]
        /\ m[plan[r][at[r]].ep] <= 1
    BY <1>2, <2>1
  <2>3. \A t, again, o : t \in {"tripped", "charged", "done"} /\ o # "cancelled"
                          => Spends(t, plan[r], at[r], calls[r], m, again, o)
    BY <1>1, <1>3, <2>2, SpendsCharge, ZenonT(30)
  <2> QED
    BY <2>1, <2>3
<1>5. Counts(pc'[r], calls'[r], attempted'[r], retrying'[r], budget')
  BY CountsSettled
<1> QED
  BY <1>4, <1>5 DEF Effort

\* The request gets its candidates: an order of distinct endpoints.
LEMMA EffortPrepared ==
  ASSUME Typed, NEW r \in Requests, Effort(r), Prepare(r)
  PROVE  Effort(r)'
<1>1. PICK p \in Orders(Offers[r]) :
        plan' = [plan EXCEPT ![r] = [i \in DOMAIN p |-> [ep |-> p[i], rev |-> config[p[i]].rev]]]
  BY DEF Prepare
<1> DEFINE q == [i \in DOMAIN p |-> [ep |-> p[i], rev |-> config[p[i]].rev]]
<1>2. /\ pc[r] = "new" /\ pc'[r] = "loop" /\ UNCHANGED <<at, calls, charges, attempted>>
      /\ retrying'[r] = retrying[r] /\ outcome'[r] = outcome[r] /\ budget' = budget
  BY DEF Prepare, books, shared, Typed, TypeOK
<1>3. plan'[r] = q
  BY <1>1 DEF Typed, TypeOK
<1>4. PICK n \in Nat : p \in [1..n -> Offers[r]]
  BY DEF Orders
<1>5. Offers[r] \in SUBSET Endpoints
  BY PipelineAssumption
<1>6. q \in Seq(Candidates) /\ Len(q) = n
  <2>1. q \in Seq(Candidates)
    BY <1>5, OrderType DEF Typed
  <2>2. DOMAIN q = 1..n
    BY <1>4
  <2> QED
    BY <2>1, <2>2
<1>7. \A j, k \in 1..Len(q) : q[j].ep = q[k].ep => j = k
  <2>1. \A j \in 1..n : q[j].ep = p[j]
    BY <1>4
  <2>2. \A j, k \in 1..n : p[j] = p[k] => j = k
    BY <1>4 DEF Orders
  <2> QED
    BY <1>6, <2>1, <2>2
<1> HIDE DEF q
<1>8. \A e \in Endpoints : calls[r][e] = 0 /\ charges[r][e] = 0
  BY <1>2 DEF Effort, Spends
<1>9. \A j \in 1..Len(q) : calls[r][q[j].ep] = 0 /\ charges[r][q[j].ep] = 0
  BY <1>6, <1>8, CandidateOf
<1>10. Spends("loop", q, at[r], calls[r], charges[r], retrying[r], outcome[r])
  <2>1. at[r] \in Nat \ {0}
    BY DEF Typed, TypeOK
  <2>2. at[r] <= Len(q) => Here("loop", calls[r][q[at[r]].ep], charges[r][q[at[r]].ep],
                                retrying[r], outcome[r])
    BY <1>6, <1>9, <2>1 DEF Here
  <2> QED
    BY <1>7, <1>8, <1>9, <2>2 DEF Spends
<1>11. Counts("loop", calls[r], attempted[r], retrying[r], budget)
  BY <1>2 DEF Effort, Counts
<1> QED
  BY <1>2, <1>3, <1>10, <1>11 DEF Effort

\* The request calls its candidate, for the first time or again.
LEMMA EffortCall ==
  ASSUME Typed, NEW r \in Requests, Effort(r), outcome[r] = "open", Send(r)
  PROVE  Effort(r)'
<1>1. /\ plan[r] \in Seq(Candidates) /\ at[r] \in Nat \ {0} /\ at[r] <= Len(plan[r])
      /\ calls[r] \in [Endpoints -> Nat] /\ charges[r] \in [Endpoints -> Nat]
      /\ attempted[r] \in Nat /\ budget \in Nat /\ retrying[r] \in BOOLEAN
  BY DEF Typed, TypeOK, Located, Candidates, Send
<1>2. /\ pc[r] = "calling" /\ pc'[r] = "upstream"
      /\ UNCHANGED <<plan, at, attempted, retrying, outcome, charges, budget>>
  BY DEF Send, shared, Typed, TypeOK
<1>3. calls'[r] = [calls[r] EXCEPT ![Ep(r)] = @ + 1] /\ Ep(r) \in Endpoints
  BY <1>1, CandidateType DEF Send, Typed, TypeOK
<1>4. /\ calls'[r] \in [Endpoints -> Nat] /\ calls'[r][Ep(r)] = calls[r][Ep(r)] + 1
      /\ \A e \in Endpoints \ {Ep(r)} : calls'[r][e] = calls[r][e]
      /\ Called(calls'[r]) = Called(calls[r]) \cup {Ep(r)}
  BY <1>1, <1>3, OneMore, ZenonT(30)
<1>5. Ep(r) = plan[r][at[r]].ep
  BY DEF Ep, Candidate
<1>6. Spends("calling", plan[r], at[r], calls[r], charges[r], retrying[r], outcome[r])
      /\ Counts("calling", calls[r], attempted[r], retrying[r], budget)
  BY <1>2 DEF Effort
<1>7. Spends("upstream", plan[r], at[r], calls'[r], charges[r], retrying[r], outcome[r])
  <2>1. PICK d : d = calls'[r]
    OBVIOUS
  <2>2. /\ d \in [Endpoints -> Nat]
        /\ \A e \in Endpoints \ {plan[r][at[r]].ep} : d[e] = calls[r][e]
        /\ d[plan[r][at[r]].ep] = calls[r][plan[r][at[r]].ep] + 1
    BY <1>4, <1>5, <2>1
  <2>3. Spends("upstream", plan[r], at[r], d, charges[r], retrying[r], outcome[r])
    BY <1>1, <1>6, <2>2, SpendsCall, Zenon
  <2> QED
    BY <2>1, <2>3
<1>8. Counts("upstream", calls'[r], attempted[r], retrying[r], budget)
  <2>1. /\ IsFiniteSet(Called(calls[r])) /\ Cardinality(Called(calls[r])) \in Nat
        /\ attempted[r] <= budget
    BY <1>6, FS_CardinalityType DEF Counts
  <2>2. /\ IsFiniteSet(Called(calls'[r]))
        /\ Cardinality(Called(calls'[r]))
             = IF Ep(r) \in Called(calls[r]) THEN Cardinality(Called(calls[r]))
               ELSE Cardinality(Called(calls[r])) + 1
    BY <1>4, <2>1, FS_AddElement
  <2>3. CASE retrying[r]
    <3>1. Ep(r) \in Called(calls[r])
      BY <1>1, <1>3, <1>5, <1>6, <2>3 DEF Called, Spends, Here
    <3> QED
      BY <1>1, <1>6, <2>1, <2>2, <2>3, <3>1 DEF Counts
  <2>4. CASE ~retrying[r]
    <3>1. Cardinality(Called(calls[r])) + 1 <= attempted[r]
      BY <1>6, <2>4 DEF Counts
    <3> QED
      BY <1>1, <2>1, <2>2, <3>1 DEF Counts
  <2> QED
    BY <2>3, <2>4
<1> QED
  BY <1>2, <1>7, <1>8 DEF Effort

\* The request is admitted: one more endpoint is counted.
LEMMA EffortAdmitted ==
  ASSUME Typed, NEW r \in Requests, Effort(r), ~retrying[r], outcome[r] = "open", Admit(r)
  PROVE  Effort(r)'
<1>1. /\ at[r] <= Len(plan[r]) /\ attempted[r] < budget
      /\ attempted[r] \in Nat /\ budget \in Nat
  BY DEF Admit, MayAttempt, Typed, TypeOK
<1>2. /\ pc[r] = "loop" /\ pc'[r] = "calling" /\ attempted'[r] = attempted[r] + 1
      /\ UNCHANGED <<plan, at, retrying, outcome, calls, charges, budget>>
  BY DEF Admit, books, shared, Typed, TypeOK
<1>3. Spends("calling", plan[r], at[r], calls[r], charges[r], retrying[r], outcome[r])
  BY <1>2 DEF Effort, Spends, Here
<1>4. IsFiniteSet(Called(calls[r])) /\ Cardinality(Called(calls[r])) \in Nat
  BY FS_CardinalityType DEF Effort, Counts
<1>5. Counts("calling", calls[r], attempted[r] + 1, retrying[r], budget)
  BY <1>1, <1>2, <1>4 DEF Effort, Counts
<1> QED
  BY <1>2, <1>3, <1>5 DEF Effort

\* What a step of a request does to its own costs.
LEMMA EffortOwn ==
  ASSUME Typed, NEW r \in Requests, Effort(r), Ran(r), Holds(r),
         Step(r) \/ Chunk(r) \/ StreamEnds(r) \/ Leave(r)
  PROVE  Effort(r)'
<1>0. /\ DOMAIN pc = Requests /\ DOMAIN outcome = Requests /\ DOMAIN retrying = Requests
      /\ retrying[r] \in BOOLEAN
  BY DEF Typed, TypeOK
<1>1. at[r] <= Len(plan[r]) => Here(pc[r], calls[r][Ep(r)], charges[r][Ep(r)], retrying[r], outcome[r])
  BY DEF Effort, Spends, Ep, Candidate
<1>2. pc[r] # "done" => outcome[r] = "open"
  BY DEF Ran
<1>3. ASSUME pc[r] \notin {"tripped", "charged", "done"}, NEW o, End(r, o),
             UNCHANGED <<plan, at, attempted, calls, charges, budget>>
      PROVE  Effort(r)'
  <2>1. pc'[r] = "done"
    BY <1>0, <1>3 DEF End
  <2>2. at[r] <= Len(plan[r]) => Here("done", calls[r][Ep(r)], charges[r][Ep(r)], retrying'[r], outcome'[r])
    BY <1>1, <1>3 DEF Here
  <2> QED
    BY <1>3, <2>1, <2>2, EffortElsewhere
<1>4. CASE Rejected(r) \/ NoneLeft(r) \/ LoopCancelled(r) \/ Refuse(r) \/ LimitedCancelled(r)
           \/ PassRaw(r) \/ Body(r) \/ DrainTimeout(r)
  <2>1. /\ pc[r] \notin {"tripped", "charged", "done"} /\ \E o : End(r, o)
        /\ UNCHANGED <<plan, at, attempted, calls, charges, budget>>
    BY <1>4 DEF Rejected, NoneLeft, LoopCancelled, Refuse, LimitedCancelled, PassRaw, Body,
                DrainTimeout, books, shared
  <2> QED
    BY <1>3, <2>1
<1>5. CASE Prepare(r)
  BY <1>5, EffortPrepared
<1>6. CASE Admit(r)
  BY <1>2, <1>6, EffortAdmitted DEF Admit, Holds
<1>7. CASE Send(r)
  BY <1>2, <1>7, EffortCall DEF Send
<1>8. CASE Skip(r) \/ TryNext(r) \/ FailOver(r)
  <2>1. /\ at' = [at EXCEPT ![r] = Following(r)] /\ at[r] <= Len(plan[r])
        /\ UNCHANGED <<plan, calls, attempted, retrying, outcome, budget>>
    BY <1>8 DEF Skip, MayAttempt, TryNext, CanTryNext, FailOver, NextCandidate, Definite, Typed,
                TypeOK, Located, books, shared
  <2>2. pc'[r] = "loop" /\ pc[r] # "done"
    BY <1>0, <1>8 DEF Skip, TryNext, CanTryNext, FailOver, NextCandidate, Definite
  <2>3. \/ charges' = charges
        \/ /\ charges' = [charges EXCEPT ![r][Ep(r)] = @ + 1]
           /\ pc[r] \notin {"tripped", "charged", "done"}
    BY <1>8 DEF Skip, TryNext, FailOver, Charge, NextCandidate, Definite, books
  <2> QED
    BY <1>2, <2>1, <2>2, <2>3, EffortNext
<1>9. CASE ChargeLimited(r)
  <2>1. /\ charges' = [charges EXCEPT ![r][Ep(r)] = @ + 1] /\ pc[r] = "limited"
        /\ UNCHANGED <<plan, at, calls, attempted, outcome, budget>>
    BY <1>9 DEF ChargeLimited, Charge, shared
  <2>2. pc'[r] \in {"tripped", "charged", "done"}
    BY <1>0, <1>9 DEF ChargeLimited
  <2>3. at[r] <= Len(plan[r]) /\ outcome'[r] # "cancelled"
    BY <1>2, <2>1 DEF Typed, Located
  <2> QED
    BY <2>1, <2>2, <2>3, EffortSettled
<1>10. CASE PassError(r)
  <2>1. /\ charges' = [charges EXCEPT ![r][Ep(r)] = @ + 1]
        /\ UNCHANGED <<plan, at, calls, attempted, budget>>
    BY <1>10 DEF PassError, Charge, shared
  <2>2. pc'[r] = "done" /\ outcome'[r] = "error" /\ pc[r] \in Ambiguous
    BY <1>0, <1>10 DEF PassError, End, PassthroughError, NextCandidate
  <2>3. at[r] <= Len(plan[r]) /\ pc[r] \notin {"tripped", "charged", "done"}
    BY <2>2 DEF Typed, Located, Ambiguous
  <2> QED
    BY <2>1, <2>2, <2>3, EffortSettled
<1>11. CASE StreamEnds(r)
  <2>1. pc[r] = "stream" /\ at[r] <= Len(plan[r])
        /\ UNCHANGED <<plan, at, calls, attempted, budget>>
    BY <1>11 DEF StreamEnds, shared, Typed, Located
  <2>2. CASE charges' = charges /\ \E o : End(r, o)
    BY <1>3, <2>1, <2>2
  <2>3. CASE End(r, "failed") /\ Charge(r)
    <3>1. pc'[r] = "done" /\ outcome'[r] = "failed"
      BY <1>0, <2>3 DEF End
    <3> QED
      BY <2>1, <2>3, <3>1, EffortSettled DEF Charge
  <2> QED
    BY <1>11, <2>2, <2>3 DEF StreamEnds
<1>12. CASE AnswerLimited(r)
  <2>1. /\ pc[r] \in {"tripped", "charged"} /\ pc'[r] = "done" /\ outcome'[r] = "limited"
        /\ UNCHANGED <<plan, at, attempted, calls, charges, budget>>
    BY <1>0, <1>12 DEF AnswerLimited, End, books, shared
  <2>2. at[r] <= Len(plan[r]) => Here("done", calls[r][Ep(r)], charges[r][Ep(r)], retrying'[r], outcome'[r])
    BY <2>1 DEF Here
  <2> QED
    BY <2>1, <2>2, EffortElsewhere
<1>13. ASSUME NEW t, pc'[r] = t,
              t \in Results \cup {"decide", "waiting", "stream", "body"},
              pc[r] \notin {"tripped", "charged", "done"},
              outcome' = outcome, UNCHANGED <<plan, at, attempted, calls, charges, budget>>,
              t \in {"decide", "waiting"} => pc[r] = "decide" \/ (pc[r] = "upstream" /\ ~retrying[r])
       PROVE  Effort(r)'
  <2>1. t \notin {"new", "loop", "calling", "upstream", "tripped", "charged", "done"}
    BY <1>13 DEF Results, Definite, Ambiguous
  <2>2. at[r] <= Len(plan[r]) => Here(t, calls[r][Ep(r)], charges[r][Ep(r)], retrying'[r], outcome'[r])
    BY <1>1, <1>2, <1>13, <2>1 DEF Here
  <2> QED
    BY <1>13, <2>1, <2>2, EffortElsewhere
<1>14. CASE Answer(r)
  <2>1. PICK x \in Results : pc' = [pc EXCEPT ![r] = IF x = "limited" /\ ~retrying[r] THEN "decide" ELSE x]
    BY <1>14 DEF Answer
  <2>2. pc[r] = "upstream" /\ outcome' = outcome
        /\ UNCHANGED <<plan, at, attempted, calls, charges, budget>>
    BY <1>14 DEF Answer
  <2>3. CASE x = "limited" /\ ~retrying[r]
    <3>1. pc'[r] = "decide"
      BY <1>0, <2>1, <2>3
    <3> QED
      BY <1>13, <2>2, <2>3, <3>1
  <2>4. CASE ~(x = "limited" /\ ~retrying[r])
    <3>1. pc'[r] = x
      BY <1>0, <2>1, <2>4
    <3>2. x \notin {"decide", "waiting"}
      BY DEF Results, Definite, Ambiguous
    <3> QED
      BY <1>13, <2>2, <3>1, <3>2
  <2> QED
    BY <2>3, <2>4
<1>15. CASE TakeGate(r) \/ NoRetry(r) \/ RefuseRetry(r) \/ GiveUpRetry(r) \/ Process(r)
  <2>1. /\ \/ pc[r] = "decide" /\ pc' = [pc EXCEPT ![r] = "waiting"]
           \/ pc[r] \in {"decide", "waiting"} /\ pc' = [pc EXCEPT ![r] = "limited"]
           \/ pc[r] = "calling" /\ pc' = [pc EXCEPT ![r] = "noHeaders"]
           \/ pc[r] = "ok" /\ \E t \in {"stream", "body"} : pc' = [pc EXCEPT ![r] = t]
        /\ outcome' = outcome /\ UNCHANGED <<plan, at, attempted, calls, charges, budget>>
    BY <1>15 DEF TakeGate, NoRetry, RefuseRetry, GiveUpRetry, Process, books, shared
  <2>2. /\ pc[r] \in {"decide", "waiting", "calling", "ok"}
        /\ pc'[r] \in Results \cup {"waiting", "stream", "body"}
        /\ pc'[r] = "waiting" => pc[r] = "decide"
        /\ pc'[r] # "decide"
    BY <1>0, <2>1 DEF Results, Definite
  <2> QED
    BY <1>13, <2>1, <2>2
<1>16. CASE Wake(r)
  <2>1. /\ pc[r] = "waiting" /\ pc'[r] = "calling" /\ retrying' = retrying /\ outcome' = outcome
        /\ UNCHANGED <<plan, at, attempted, calls, charges, budget>>
    BY <1>0, <1>16 DEF Wake, books, shared
  <2>2. retrying[r]
    BY <2>1 DEF Holds
  <2>3. at[r] <= Len(plan[r]) => Here("calling", calls[r][Ep(r)], charges[r][Ep(r)], retrying'[r], outcome'[r])
    BY <1>1, <1>2, <2>1, <2>2 DEF Here
  <2> QED
    BY <2>1, <2>2, <2>3, EffortElsewhere
<1>17. CASE Chunk(r) \/ Leave(r)
  <2>1. UNCHANGED <<pc, plan, at, calls, charges, retrying, outcome, attempted, budget>>
    BY <1>17 DEF Chunk, Leave, local, books, shared
  <2> QED
    BY <2>1, EffortKept
<1> QED
  BY <1>4, <1>5, <1>6, <1>7, <1>8, <1>9, <1>10, <1>11, <1>12, <1>14, <1>15, <1>16, <1>17 DEF Step

LEMMA EffortStep ==
  ASSUME Typed, \A r \in Requests : Effort(r) /\ Ran(r) /\ Holds(r), [Next]_vars,
         NEW s \in Requests
  PROVE  Effort(s)'
<1>1. ASSUME NEW r \in Requests, Step(r) \/ Chunk(r) \/ StreamEnds(r) \/ Leave(r)
      PROVE  Effort(s)'
  <2>1. CASE s = r
    BY <1>1, <2>1, EffortOwn
  <2>2. CASE s # r
    <3>1. s \in Requests \ {r}
      BY <2>2
    <3>2. /\ budget' = budget
          /\ pc'[s] = pc[s] /\ plan'[s] = plan[s] /\ at'[s] = at[s] /\ calls'[s] = calls[s]
          /\ charges'[s] = charges[s] /\ retrying'[s] = retrying[s] /\ outcome'[s] = outcome[s]
          /\ attempted'[s] = attempted[s]
      BY <1>1, <3>1, OthersKept
    <3> QED
      BY <3>2, EffortKept
  <2> QED
    BY <2>1, <2>2
<1>2. ASSUME \/ \E e \in Endpoints : CloseAdmission(e) \/ OpenAdmission(e)
             \/ PublishRules
             \/ UNCHANGED vars
      PROVE  Effort(s)'
  <2>1. UNCHANGED <<pc, plan, at, calls, charges, retrying, outcome, attempted, budget>>
    BY <1>2 DEF CloseAdmission, OpenAdmission, PublishRules, vars, local, books, shared
  <2> QED
    BY <2>1, EffortKept
<1> QED
  BY <1>1, <1>2 DEF Next

\* EffortIsBounded of the model: a request counts once at most against an endpoint,
\* calls it twice at most, and calls no more endpoints than the budget allows.
THEOREM EffortBounded == Spec => []EffortIsBounded
<1> DEFINE Efforts == Typed /\ \A r \in Requests : Effort(r) /\ Ran(r) /\ Holds(r)
<1>1. Init => Efforts
  <2> SUFFICES ASSUME Init PROVE Efforts
    OBVIOUS
  <2>1. \A r \in Requests : Ran(r) /\ Holds(r)
    BY DEF Init, Ran, Holds, Definite, Ambiguous
  <2>2. ASSUME NEW r \in Requests PROVE Effort(r)
    <3>1. /\ plan[r] = <<>> /\ at[r] = 1 /\ attempted[r] = 0 /\ pc[r] = "new" /\ budget \in Nat
          /\ \A e \in Endpoints : calls[r][e] = 0 /\ charges[r][e] = 0
      BY PipelineAssumption DEF Init
    <3>2. Called(calls[r]) = {}
      BY <3>1 DEF Called
    <3>3. Counts(pc[r], calls[r], attempted[r], retrying[r], budget)
      BY <3>1, <3>2, FS_EmptySet DEF Counts
    <3>4. Spends(pc[r], plan[r], at[r], calls[r], charges[r], retrying[r], outcome[r])
      BY <3>1 DEF Spends
    <3> QED
      BY <3>3, <3>4 DEF Effort
  <2> QED
    BY <2>1, <2>2, TypeInit
<1>2. Efforts /\ [Next]_vars => Efforts'
  <2> SUFFICES ASSUME Efforts, [Next]_vars PROVE Efforts'
    OBVIOUS
  <2>1. Typed'
    BY TypeStep
  <2>2. \A r \in Requests : Effort(r)' /\ Ran(r)' /\ Holds(r)'
    BY EffortStep, RanStep, HoldsStep
  <2> QED
    BY <2>1, <2>2
<1>3. Efforts => EffortIsBounded
  <2> SUFFICES ASSUME Efforts, NEW r \in Requests
               PROVE  /\ \A e \in Endpoints : charges[r][e] <= 1 /\ calls[r][e] <= 2
                      /\ outcome[r] = "cancelled" /\ at[r] <= Len(plan[r]) => charges[r][Ep(r)] = 0
                      /\ Cardinality({e \in Endpoints : calls[r][e] > 0}) <= budget
    BY DEF EffortIsBounded, ChargedOnce, BudgetKept
  <2>1. \A e \in Endpoints : charges[r][e] <= 1 /\ calls[r][e] <= 2
    BY DEF Effort, Spends
  <2>2. outcome[r] = "cancelled" /\ at[r] <= Len(plan[r]) => charges[r][Ep(r)] = 0
    BY DEF Effort, Spends, Here, Ep, Candidate
  <2>3. Cardinality(Called(calls[r])) <= budget
    <3>1. Cardinality(Called(calls[r])) \in Nat /\ attempted[r] \in Nat /\ budget \in Nat
      BY FS_CardinalityType DEF Effort, Counts, Typed, TypeOK
    <3> QED
      BY <3>1 DEF Effort, Counts
  <2> QED
    BY <2>1, <2>2, <2>3 DEF Called
<1> HIDE DEF Efforts
<1> QED
  BY <1>1, <1>2, <1>3, PTL DEF Spec

-----------------------------------------------------------------------------
(* The cache of rejections.                                                 *)

Places == [Rejections!Keys -> Nat]

RejectionTypes ==
  /\ now \in Nat \ {0} /\ records \in Nat
  /\ hits \in [Rejections!Classes -> Places] /\ order \in [Rejections!Classes -> Places]
  /\ stamp \in [Rejections!Classes -> [Rejections!Keys -> [n : Nat, until : Nat]]]

\* What the map holds is in the order; the places of the order are the numbers of the
\* last records, so that no two keys share one.
PlacesAreStamps(c) ==
  \A k \in Rejections!Keys :
    /\ hits[c][k] # 0 => order[c][k] # 0
    /\ order[c][k] # 0 => order[c][k] = stamp[c][k].n
    /\ stamp[c][k].until # 0 => stamp[c][k].n # 0
    /\ stamp[c][k].n <= records
    /\ \A x \in Rejections!Keys : stamp[c][x].n = stamp[c][k].n /\ stamp[c][k].n # 0 => x = k

\* The keys of a class that were recorded after k
NewerKeys(c, k) == {x \in Rejections!Keys : stamp[c][x].n > stamp[c][k].n}

\* A live rejection that newer ones do not displace is in the map as it was recorded.
LiveIsHeld(c) ==
  \A k \in Rejections!Keys :
    stamp[c][k].until >= now /\ Cardinality(NewerKeys(c, k)) < Capacity
    => hits[c][k] = stamp[c][k].until

RejectionInv ==
  /\ RejectionTypes
  /\ \A c \in Rejections!Classes :
       /\ PlacesAreStamps(c) /\ LiveIsHeld(c)
       /\ Cardinality(Rejections!Stored(hits[c])) <= Capacity

\* Every set of naturals but the empty one has a least member.
LEMMA Less == IsWellFoundedOn({ss \in Nat \X Nat : ss[1] < ss[2]}, Nat)
  BY NatLessThanWellFounded, Zenon DEF OpToRel

LEMMA LeastNatural ==
  ASSUME NEW S \in SUBSET Nat, S # {}
  PROVE  \E n \in S : \A m \in S : n <= m
<1>1. PICK n \in S : \A m \in S : ~(<<m, n>> \in {ss \in Nat \X Nat : ss[1] < ss[2]})
  BY Less, WFMin
<1>2. \A m \in S : ~(m < n)
  BY <1>1
<1> QED
  BY <1>2

\* The instance has a counting operator of its own.
LEMMA SameCount == \A S : Rejections!Cardinality(S) = Cardinality(S)
<1> TAKE S
<1> QED
  BY Zenon DEF Cardinality, Rejections!Cardinality

LEMMA KeysAreFinite ==
  /\ IsFiniteSet(Rejections!Keys)
  /\ \A S \in SUBSET Rejections!Keys : IsFiniteSet(S) /\ Cardinality(S) \in Nat
<1>1. IsFiniteSet(Rejections!Keys)
  BY FS_Product, RejectionAssumption DEF Rejections!Keys
<1>2. \A S \in SUBSET Rejections!Keys : IsFiniteSet(S)
  BY <1>1, FS_Subset
<1> QED
  BY <1>1, <1>2, FS_CardinalityType

\* What `trim` cuts off: the shortest head of the order that has to go.
LEMMA CutIsShortest ==
  ASSUME NEW h \in Places, NEW o \in Places, records \in Nat
  PROVE  /\ Rejections!Cut(h, o) \in 0 .. (records + 1)
         /\ Rejections!Over(h, o, Rejections!Cut(h, o)) => Rejections!Cut(h, o) = records + 1
         /\ \A m \in 0 .. (Rejections!Cut(h, o) - 1) : Rejections!Over(h, o, m)
<1> DEFINE S == {n \in 0 .. (records + 1) : Rejections!Over(h, o, n) => n = records + 1}
<1>1. S \subseteq Nat /\ records + 1 \in S
  OBVIOUS
<1>2. PICK n \in S : \A m \in S : n <= m
  BY <1>1, LeastNatural
<1>3. \A m \in 0 .. (n - 1) : Rejections!Over(h, o, m)
  <2> SUFFICES ASSUME NEW m \in 0 .. (n - 1), ~Rejections!Over(h, o, m) PROVE FALSE
    OBVIOUS
  <2>1. m \in S
    BY <1>1, <1>2
  <2> QED
    BY <1>2, <2>1
<1>4. \E k \in 0 .. (records + 1) : /\ Rejections!Over(h, o, k) => k = records + 1
                                    /\ \A m \in 0 .. (k - 1) : Rejections!Over(h, o, m)
  BY <1>2, <1>3
<1> HIDE DEF S
<1> QED
  BY <1>4 DEF Rejections!Cut

LEMMA RejectionsBegin == Rejections!Init => RejectionInv
<1> SUFFICES ASSUME Rejections!Init PROVE RejectionInv
  OBVIOUS
<1>1. RejectionTypes
  BY DEF Rejections!Init, RejectionTypes, Places
<1>2. ASSUME NEW c \in Rejections!Classes
      PROVE  /\ PlacesAreStamps(c) /\ LiveIsHeld(c)
             /\ Cardinality(Rejections!Stored(hits[c])) <= Capacity
  <2>1. \A k \in Rejections!Keys : /\ hits[c][k] = 0 /\ order[c][k] = 0
                                   /\ stamp[c][k].n = 0 /\ stamp[c][k].until = 0
    BY DEF Rejections!Init
  <2>2. Rejections!Stored(hits[c]) = {}
    BY <2>1 DEF Rejections!Stored
  <2>3. PlacesAreStamps(c)
    BY <2>1 DEF PlacesAreStamps, Rejections!Init
  <2>4. LiveIsHeld(c)
    BY <2>1 DEF LiveIsHeld, Rejections!Init
  <2> QED
    BY <2>2, <2>3, <2>4, FS_EmptySet, RejectionAssumption
<1> QED
  BY <1>1, <1>2 DEF RejectionInv

LEMMA RecordKeeps ==
  ASSUME RejectionInv, NEW c \in Rejections!Classes, NEW k \in Rejections!Keys,
         Rejections!Record(c, k)
  PROVE  RejectionInv'
<1> DEFINE h    == [hits[c] EXCEPT ![k] = now + TTL]
           o    == Rejections!MoveToEnd(order[c], k)
           cut  == Rejections!Cut(h, o)
           cutOff == Rejections!HeadOf(o, cut)
<1>t. RejectionTypes /\ now' = now /\ records' = records + 1 /\ records \in Nat /\ now \in Nat \ {0}
      /\ TTL \in Nat /\ Capacity \in Nat
  BY RejectionAssumption DEF RejectionInv, RejectionTypes, Rejections!Record
<1>1. /\ hits' = [hits EXCEPT ![c] = Rejections!Without(h, cutOff)]
      /\ order' = [order EXCEPT ![c] = Rejections!Without(o, cutOff)]
      /\ stamp' = [stamp EXCEPT ![c][k] = [n |-> records + 1, until |-> now + TTL]]
  BY DEF Rejections!Record
<1>2. h \in Places /\ o \in Places
  BY <1>t DEF RejectionTypes, Places, Rejections!MoveToEnd
<1>3. /\ cut \in 0 .. (records + 1)
      /\ Rejections!Over(h, o, cut) => cut = records + 1
      /\ \A m \in 0 .. (cut - 1) : Rejections!Over(h, o, m)
  BY <1>2, <1>t, CutIsShortest
<1>4. h[k] = now + TTL /\ o[k] = records + 1
      /\ \A x \in Rejections!Keys \ {k} : h[x] = hits[c][x] /\ o[x] = order[c][x]
  BY <1>t DEF RejectionTypes, Places, Rejections!MoveToEnd
<1> HIDE DEF h, o, cut
<1>5. /\ hits'[c] = Rejections!Without(h, cutOff) /\ order'[c] = Rejections!Without(o, cutOff)
      /\ \A d \in Rejections!Classes \ {c} : /\ hits'[d] = hits[d] /\ order'[d] = order[d]
                                             /\ stamp'[d] = stamp[d]
  BY <1>1, <1>t DEF RejectionTypes
<1>6. /\ stamp'[c][k].n = records + 1 /\ stamp'[c][k].until = now + TTL
      /\ \A x \in Rejections!Keys \ {k} : stamp'[c][x] = stamp[c][x]
  <2>1. stamp'[c] = [stamp[c] EXCEPT ![k] = [n |-> records + 1, until |-> now + TTL]]
    BY <1>1, <1>t DEF RejectionTypes
  <2> QED
    BY <2>1, <1>t DEF RejectionTypes
<1>7. \A x \in Rejections!Keys : /\ hits'[c][x] = IF x \in cutOff THEN 0 ELSE h[x]
                                 /\ order'[c][x] = IF x \in cutOff THEN 0 ELSE o[x]
                                 /\ x \in cutOff <=> o[x] \in 1 .. cut
  BY <1>5 DEF Rejections!Without, Rejections!HeadOf
<1>8. RejectionTypes'
  <2>1. Rejections!Without(h, cutOff) \in Places /\ Rejections!Without(o, cutOff) \in Places
    BY <1>2 DEF Places, Rejections!Without
  <2>2. hits' \in [Rejections!Classes -> Places] /\ order' \in [Rejections!Classes -> Places]
    BY <1>1, <2>1, <1>t DEF RejectionTypes
  <2>3. [stamp[c] EXCEPT ![k] = [n |-> records + 1, until |-> now + TTL]]
          \in [Rejections!Keys -> [n : Nat, until : Nat]]
    BY <1>t DEF RejectionTypes
  <2>4. stamp' = [stamp EXCEPT ![c] = [stamp[c] EXCEPT ![k] = [n |-> records + 1, until |-> now + TTL]]]
    BY <1>1, <1>t DEF RejectionTypes
  <2>5. stamp' \in [Rejections!Classes -> [Rejections!Keys -> [n : Nat, until : Nat]]]
    BY <2>3, <2>4, <1>t DEF RejectionTypes
  <2> QED
    BY <2>2, <2>5, <1>t DEF RejectionTypes
<1>9. PlacesAreStamps(c)'
  <2>1. PlacesAreStamps(c)
    BY DEF RejectionInv
  <2>2. \A x \in Rejections!Keys : /\ stamp[c][x].n \in Nat /\ stamp[c][x].until \in Nat
                                   /\ hits[c][x] \in Nat /\ order[c][x] \in Nat
    BY <1>t DEF RejectionTypes, Places
  <2>3. \A x \in Rejections!Keys : /\ hits'[c][x] # 0 => order'[c][x] # 0
                                   /\ order'[c][x] # 0 => order'[c][x] = stamp'[c][x].n
    BY <2>1, <2>2, <1>4, <1>6, <1>7, <1>t DEF PlacesAreStamps
  <2>4. \A x \in Rejections!Keys :
          /\ stamp'[c][x].until # 0 => stamp'[c][x].n # 0
          /\ stamp'[c][x].n <= records'
          /\ \A y \in Rejections!Keys : stamp'[c][y].n = stamp'[c][x].n /\ stamp'[c][x].n # 0 => y = x
    BY <2>1, <2>2, <1>6, <1>t DEF PlacesAreStamps
  <2> QED
    BY <2>3, <2>4 DEF PlacesAreStamps
<1>10. Cardinality(Rejections!Stored(hits'[c])) <= Capacity
  <2>1. Rejections!Stored(hits'[c]) = Rejections!Stored(h) \ cutOff
    BY <1>7 DEF Rejections!Stored
  <2>2. CASE Rejections!Over(h, o, cut)
    <3>1. cut = records + 1
      BY <2>2, <1>3
    <3>2. \A x \in Rejections!Keys : h[x] # 0 => o[x] \in 1 .. (records + 1)
      <4> SUFFICES ASSUME NEW x \in Rejections!Keys, h[x] # 0 PROVE o[x] \in 1 .. (records + 1)
        OBVIOUS
      <4>1. /\ PlacesAreStamps(c) /\ stamp[c][x].n \in Nat /\ order[c][x] \in Nat
        BY <1>t DEF RejectionInv, RejectionTypes, Places
      <4> QED
        BY <4>1, <1>4, <1>t DEF PlacesAreStamps
    <3>3. Rejections!Stored(h) \ cutOff = {}
      BY <3>1, <3>2, <1>7 DEF Rejections!Stored
    <3> QED
      BY <2>1, <3>3, FS_EmptySet, <1>t
  <2>3. CASE ~Rejections!Over(h, o, cut)
    <3>1. Cardinality(Rejections!Stored(h) \ cutOff) \in Nat
      BY KeysAreFinite DEF Rejections!Stored
    <3> QED
      BY <2>1, <2>3, <3>1, <1>t, SameCount DEF Rejections!Over
  <2> QED
    BY <2>2, <2>3
<1>11. LiveIsHeld(c)'
  <2> SUFFICES ASSUME NEW x \in Rejections!Keys, stamp'[c][x].until >= now',
                      Cardinality(NewerKeys(c, x)') < Capacity
               PROVE  hits'[c][x] = stamp'[c][x].until
    BY DEF LiveIsHeld
  <2> DEFINE newer == NewerKeys(c, x)'
  <2>n. newer = {y \in Rejections!Keys : stamp'[c][y].n > stamp'[c][x].n}
    BY DEF NewerKeys
  <2>f. /\ newer \in SUBSET Rejections!Keys /\ IsFiniteSet(newer) /\ Cardinality(newer) \in Nat
    BY <2>n, KeysAreFinite
  <2>y. \A y \in Rejections!Keys : /\ stamp[c][y].n \in Nat /\ stamp[c][y].until \in Nat
                                   /\ hits[c][y] \in Nat /\ order[c][y] \in Nat
    BY <1>t DEF RejectionTypes, Places
  <2>p. PlacesAreStamps(c) /\ LiveIsHeld(c)
    BY DEF RejectionInv
  <2>1. h[x] = stamp'[c][x].until /\ h[x] # 0
    <3>1. CASE x = k
      BY <3>1, <1>4, <1>6, <1>t
    <3>2. CASE x # k
      <4>1. stamp'[c][x] = stamp[c][x] /\ h[x] = hits[c][x]
        BY <3>2, <1>4, <1>6
      <4>2. NewerKeys(c, x) \subseteq newer
        <5> SUFFICES ASSUME NEW y \in NewerKeys(c, x) PROVE y \in newer
          OBVIOUS
        <5>1. y \in Rejections!Keys /\ stamp[c][y].n > stamp[c][x].n
          BY DEF NewerKeys
        <5>2. stamp'[c][y].n > stamp[c][x].n
          BY <5>1, <1>6, <2>y, <2>p, <1>t DEF PlacesAreStamps
        <5> QED
          BY <5>1, <5>2, <4>1, <2>n
      <4>3. Cardinality(NewerKeys(c, x)) <= Cardinality(newer)
        BY <4>2, <2>f, FS_Subset
      <4>4. NewerKeys(c, x) \in SUBSET Rejections!Keys
        BY DEF NewerKeys
      <4>5. Cardinality(NewerKeys(c, x)) < Capacity
        BY <4>3, <4>4, <2>f, KeysAreFinite, <1>t
      <4> QED
        BY <4>1, <4>5, <2>p, <1>t DEF LiveIsHeld
    <3> QED
      BY <3>1, <3>2
  <2>2. /\ o[x] = stamp'[c][x].n /\ o[x] \in 1 .. (records + 1)
        /\ \A y \in Rejections!Keys : o[y] # 0 => o[y] = stamp'[c][y].n /\ o[y] \in Nat
        /\ \A y \in Rejections!Keys : h[y] # 0 => o[y] # 0
    BY <2>1, <2>p, <2>y, <1>4, <1>6, <1>t DEF PlacesAreStamps
  <2>3. x \notin cutOff
    <3> SUFFICES ASSUME x \in cutOff PROVE FALSE
      OBVIOUS
    <3>1. o[x] - 1 \in 0 .. (cut - 1)
      BY <1>7, <2>2, <1>3
    <3>2. Cardinality(Rejections!Stored(h) \ Rejections!HeadOf(o, o[x] - 1)) > Capacity
      BY <3>1, <1>3, SameCount DEF Rejections!Over
    <3> DEFINE late == Rejections!Stored(h) \ Rejections!HeadOf(o, o[x] - 1)
    <3>3. late \subseteq newer \cup {x}
      <4> SUFFICES ASSUME NEW y \in late, y # x PROVE y \in newer
        OBVIOUS
      <4>1. y \in Rejections!Keys /\ h[y] # 0 /\ ~(o[y] \in 1 .. (o[x] - 1))
        BY DEF Rejections!Stored, Rejections!HeadOf
      <4>2. o[y] \in Nat /\ o[y] >= o[x] /\ o[y] = stamp'[c][y].n
        BY <4>1, <2>2
      <4>3. stamp'[c][y].n # stamp'[c][x].n
        BY <4>1, <2>2, <1>9 DEF PlacesAreStamps
      <4> QED
        BY <4>1, <4>2, <4>3, <2>2, <2>n
    <3>4. x \notin newer
      BY <2>n, <2>2
    <3>5. IsFiniteSet(newer \cup {x}) /\ Cardinality(newer \cup {x}) = Cardinality(newer) + 1
      BY <3>4, <2>f, FS_AddElement
    <3>6. Cardinality(late) <= Cardinality(newer) + 1
      BY <3>3, <3>5, FS_Subset
    <3>7. late \in SUBSET Rejections!Keys
      BY DEF Rejections!Stored
    <3>8. Cardinality(late) \in Nat
      BY <3>7, KeysAreFinite
    <3> QED
      BY <3>2, <3>6, <3>8, <2>f, <1>t
  <2> QED
    BY <2>1, <2>3, <1>7
<1>12. ASSUME NEW d \in Rejections!Classes \ {c}
       PROVE  /\ PlacesAreStamps(d)' /\ LiveIsHeld(d)'
              /\ Cardinality(Rejections!Stored(hits'[d])) <= Capacity
  <2>1. hits'[d] = hits[d] /\ order'[d] = order[d] /\ stamp'[d] = stamp[d]
    BY <1>5
  <2>2. /\ PlacesAreStamps(d) /\ LiveIsHeld(d)
        /\ Cardinality(Rejections!Stored(hits[d])) <= Capacity
    BY DEF RejectionInv
  <2>3. PlacesAreStamps(d)'
    <3>1. \A x \in Rejections!Keys : stamp[d][x].n \in Nat
      BY <1>t DEF RejectionTypes
    <3> QED
      BY <2>1, <2>2, <3>1, <1>t DEF PlacesAreStamps
  <2>4. LiveIsHeld(d)'
    BY <2>1, <2>2, <1>t DEF LiveIsHeld, NewerKeys
  <2> QED
    BY <2>1, <2>2, <2>3, <2>4
<1> QED
  BY <1>8, <1>9, <1>10, <1>11, <1>12 DEF RejectionInv

\* A step that records nothing only drops what is out of time or cleared.
LEMMA DroppingKeeps ==
  ASSUME RejectionInv, RejectionTypes', records' = records, now' >= now,
         \A c \in Rejections!Classes, k \in Rejections!Keys :
           /\ stamp'[c][k].n = stamp[c][k].n
           /\ stamp'[c][k].until \in {stamp[c][k].until, 0}
           /\ hits'[c][k] \in {hits[c][k], 0}
           /\ order'[c][k] \in {order[c][k], 0}
           /\ hits'[c][k] # 0 => order'[c][k] = order[c][k]
           /\ stamp'[c][k].until >= now' /\ hits[c][k] = stamp[c][k].until
              => hits'[c][k] = hits[c][k]
  PROVE  RejectionInv'
<1>1. ASSUME NEW c \in Rejections!Classes
      PROVE  /\ PlacesAreStamps(c)' /\ LiveIsHeld(c)'
             /\ Cardinality(Rejections!Stored(hits'[c])) <= Capacity
  <2>1. /\ PlacesAreStamps(c) /\ LiveIsHeld(c)
        /\ Cardinality(Rejections!Stored(hits[c])) <= Capacity
    BY DEF RejectionInv
  <2>2. /\ now \in Nat \ {0} /\ now' \in Nat \ {0} /\ Capacity \in Nat
        /\ \A k \in Rejections!Keys : /\ stamp[c][k].n \in Nat /\ stamp[c][k].until \in Nat
                                      /\ stamp'[c][k].n \in Nat /\ stamp'[c][k].until \in Nat
    BY RejectionAssumption DEF RejectionInv, RejectionTypes
  <2>3. PlacesAreStamps(c)'
    BY <2>1, <2>2 DEF PlacesAreStamps
  <2>4. ASSUME NEW k \in Rejections!Keys, stamp'[c][k].until >= now',
               Cardinality(NewerKeys(c, k)') < Capacity
        PROVE  hits'[c][k] = stamp'[c][k].until
    <3>1. NewerKeys(c, k)' = NewerKeys(c, k)
      BY DEF NewerKeys
    <3>2. stamp'[c][k].until = stamp[c][k].until /\ stamp[c][k].until >= now
      BY <2>2, <2>4
    <3>3. hits[c][k] = stamp[c][k].until
      BY <3>1, <3>2, <2>1, <2>4 DEF LiveIsHeld
    <3> QED
      BY <3>2, <3>3, <2>4
  <2>5. Rejections!Stored(hits'[c]) \subseteq Rejections!Stored(hits[c])
    BY DEF Rejections!Stored
  <2>6. /\ Rejections!Stored(hits[c]) \in SUBSET Rejections!Keys
        /\ Rejections!Stored(hits'[c]) \in SUBSET Rejections!Keys
    BY DEF Rejections!Stored
  <2>7. Cardinality(Rejections!Stored(hits'[c])) <= Cardinality(Rejections!Stored(hits[c]))
    BY <2>5, <2>6, KeysAreFinite, FS_Subset
  <2>8. Cardinality(Rejections!Stored(hits'[c])) <= Capacity
    BY <2>1, <2>2, <2>6, <2>7, KeysAreFinite
  <2> QED
    BY <2>3, <2>4, <2>8 DEF LiveIsHeld
<1> QED
  BY <1>1 DEF RejectionInv

LEMMA RejectionStepKeeps ==
  ASSUME RejectionInv, [Rejections!Next]_rejectionVars
  PROVE  RejectionInv'
<1>t. RejectionTypes
  BY DEF RejectionInv
<1>1. ASSUME NEW c \in Rejections!Classes, NEW k \in Rejections!Keys, Rejections!Record(c, k)
      PROVE  RejectionInv'
  BY <1>1, RecordKeeps
<1>2. ASSUME NEW c \in Rejections!Classes, NEW k \in Rejections!Keys, Rejections!Has(c, k)
      PROVE  RejectionInv'
  <2> DEFINE Left(x) == IF /\ x \in Rejections!Asked(c, k) /\ now > hits[c][x]
                           /\ \A y \in Rejections!Asked(c, k) : y[2] < x[2] => now > hits[c][y]
                        THEN 0 ELSE hits[c][x]
  <2>1. /\ hits' = [hits EXCEPT ![c] = [x \in Rejections!Keys |-> Left(x)]]
        /\ UNCHANGED <<now, order, records, stamp>>
    BY <1>2 DEF Rejections!Has
  <2>2. \A x \in Rejections!Keys : /\ Left(x) \in Nat /\ Left(x) \in {hits[c][x], 0}
                                   /\ now <= hits[c][x] => Left(x) = hits[c][x]
    BY <1>t DEF RejectionTypes, Places
  <2> HIDE DEF Left
  <2>3. \A d \in Rejections!Classes, x \in Rejections!Keys :
          hits'[d][x] = IF d = c THEN Left(x) ELSE hits[d][x]
    BY <2>1, <1>t DEF RejectionTypes, Places
  <2>4. RejectionTypes'
    <3>1. [x \in Rejections!Keys |-> Left(x)] \in Places
      BY <2>2, <1>t DEF RejectionTypes, Places
    <3> QED
      BY <2>1, <3>1, <1>t DEF RejectionTypes
  <2>5. ASSUME NEW d \in Rejections!Classes, NEW x \in Rejections!Keys
        PROVE  /\ stamp'[d][x].n = stamp[d][x].n
               /\ stamp'[d][x].until \in {stamp[d][x].until, 0}
               /\ hits'[d][x] \in {hits[d][x], 0}
               /\ order'[d][x] \in {order[d][x], 0}
               /\ hits'[d][x] # 0 => order'[d][x] = order[d][x]
               /\ stamp'[d][x].until >= now' /\ hits[d][x] = stamp[d][x].until
                  => hits'[d][x] = hits[d][x]
    <3>1. hits[d][x] \in Nat /\ stamp[d][x].until \in Nat /\ now \in Nat
      BY <1>t DEF RejectionTypes, Places
    <3> QED
      BY <2>1, <2>2, <2>3, <3>1
  <2>6. now' >= now /\ records' = records
    BY <2>1, <1>t DEF RejectionTypes
  <2> QED
    BY <2>4, <2>5, <2>6, DroppingKeeps
<1>3. ASSUME NEW es \in SUBSET Endpoints,
             stamp' = Rejections!Forgotten(es), UNCHANGED <<now, records>>,
             hits' = [d \in Rejections!Classes |-> [x \in Rejections!Keys |->
                        IF x[1] \in es THEN 0 ELSE hits[d][x]]],
             order' \in [Rejections!Classes -> Places],
             \A d \in Rejections!Classes, x \in Rejections!Keys :
               order'[d][x] = order[d][x] \/ (order'[d][x] = 0 /\ es = Endpoints)
      PROVE  RejectionInv'
  <2>1. \A d \in Rejections!Classes, x \in Rejections!Keys :
          /\ hits'[d][x] = IF x[1] \in es THEN 0 ELSE hits[d][x]
          /\ stamp'[d][x] = IF x[1] \in es THEN [stamp[d][x] EXCEPT !.until = 0] ELSE stamp[d][x]
    BY <1>3 DEF Rejections!Forgotten
  <2>2. \A d \in Rejections!Classes, x \in Rejections!Keys :
          /\ stamp[d][x] \in [n : Nat, until : Nat] /\ hits[d][x] \in Nat
          /\ [stamp[d][x] EXCEPT !.until = 0] \in [n : Nat, until : Nat]
          /\ [stamp[d][x] EXCEPT !.until = 0].until = 0
          /\ [stamp[d][x] EXCEPT !.until = 0].n = stamp[d][x].n
    BY <1>t DEF RejectionTypes, Places
  <2>3. hits' \in [Rejections!Classes -> Places]
    BY <1>3, <2>2 DEF Places
  <2>4. stamp' \in [Rejections!Classes -> [Rejections!Keys -> [n : Nat, until : Nat]]]
    BY <1>3, <2>2, Zenon DEF Rejections!Forgotten
  <2>5. RejectionTypes' /\ now' >= now
    BY <2>3, <2>4, <1>3, <1>t DEF RejectionTypes
  <2>6. \A x \in Rejections!Keys : x[1] \in Endpoints
    BY DEF Rejections!Keys
  <2>7. ASSUME NEW d \in Rejections!Classes, NEW x \in Rejections!Keys
        PROVE  /\ stamp'[d][x].n = stamp[d][x].n
               /\ stamp'[d][x].until \in {stamp[d][x].until, 0}
               /\ hits'[d][x] \in {hits[d][x], 0}
               /\ order'[d][x] \in {order[d][x], 0}
               /\ hits'[d][x] # 0 => order'[d][x] = order[d][x]
               /\ stamp'[d][x].until >= now' /\ hits[d][x] = stamp[d][x].until
                  => hits'[d][x] = hits[d][x]
    <3>1. now' \in Nat \ {0}
      BY <2>5 DEF RejectionTypes
    <3>2. CASE x[1] \in es
      <4>1. hits'[d][x] = 0 /\ stamp'[d][x].until = 0 /\ stamp'[d][x].n = stamp[d][x].n
        BY <2>1, <2>2, <3>2
      <4> QED
        BY <4>1, <1>3, <3>1
    <3>3. CASE x[1] \notin es
      <4>1. hits'[d][x] = hits[d][x] /\ stamp'[d][x] = stamp[d][x] /\ order'[d][x] = order[d][x]
        BY <2>1, <2>6, <1>3, <3>3
      <4> QED
        BY <4>1
    <3> QED
      BY <3>2, <3>3
  <2> QED
    BY <2>5, <2>7, <1>3, DroppingKeeps
<1>4. ASSUME NEW e \in Endpoints, Rejections!Clear(e)
      PROVE  RejectionInv'
  <2>1. hits' = [d \in Rejections!Classes |-> [x \in Rejections!Keys |->
                   IF x[1] \in {e} THEN 0 ELSE hits[d][x]]]
    BY <1>4 DEF Rejections!Clear
  <2>2. stamp' = Rejections!Forgotten({e}) /\ UNCHANGED <<now, records, order>>
    BY <1>4 DEF Rejections!Clear
  <2> QED
    BY <2>1, <2>2, <1>3, <1>t DEF RejectionTypes
<1>5. ASSUME Rejections!ClearAll
      PROVE  RejectionInv'
  <2>1. hits' = [d \in Rejections!Classes |-> [x \in Rejections!Keys |->
                   IF x[1] \in Endpoints THEN 0 ELSE hits[d][x]]]
    BY <1>5 DEF Rejections!ClearAll, Rejections!Keys
  <2>2. /\ stamp' = Rejections!Forgotten(Endpoints) /\ UNCHANGED <<now, records>>
        /\ order' = [d \in Rejections!Classes |-> [x \in Rejections!Keys |-> 0]]
    BY <1>5 DEF Rejections!ClearAll
  <2>3. /\ order' \in [Rejections!Classes -> Places]
        /\ \A d \in Rejections!Classes, x \in Rejections!Keys : order'[d][x] = 0
    BY <2>2 DEF Places
  <2> QED
    BY <2>1, <2>2, <2>3, <1>3
<1>6. ASSUME Rejections!Tick \/ UNCHANGED rejectionVars
      PROVE  RejectionInv'
  <2>1. UNCHANGED <<hits, order, records, stamp>> /\ now' \in {now, now + 1}
    BY <1>6 DEF Rejections!Tick, rejectionVars
  <2>2. RejectionTypes' /\ now' >= now
    BY <2>1, <1>t DEF RejectionTypes
  <2>3. \A d \in Rejections!Classes, x \in Rejections!Keys :
               /\ stamp'[d][x].n = stamp[d][x].n
               /\ stamp'[d][x].until \in {stamp[d][x].until, 0}
               /\ hits'[d][x] \in {hits[d][x], 0}
               /\ order'[d][x] \in {order[d][x], 0}
               /\ hits'[d][x] # 0 => order'[d][x] = order[d][x]
               /\ stamp'[d][x].until >= now' /\ hits[d][x] = stamp[d][x].until
                  => hits'[d][x] = hits[d][x]
    BY <2>1
  <2> QED
    BY <2>1, <2>2, <2>3, DroppingKeeps
<1> QED
  BY <1>1, <1>2, <1>4, <1>5, <1>6 DEF Rejections!Next

\* What the cache says of an endpoint is its newest rejection (route_state.go, put and
\* trim): for any endpoints, values and capacity a rejection on record is answered until
\* it expires, is cleared, or as many newer ones as the cache holds have displaced it.
THEOREM RejectionsStand == MCSpec => []RejectionRemembered
<1>1. MCInit => RejectionInv
  BY RejectionsBegin DEF MCInit
<1>2. RejectionInv /\ [MCNext]_allVars => RejectionInv'
  <2> SUFFICES ASSUME RejectionInv, [MCNext]_allVars PROVE RejectionInv'
    OBVIOUS
  <2>1. [Rejections!Next]_rejectionVars
    BY DEF MCNext, RequestStep, allVars, rejectionVars
  <2> QED
    BY <2>1, RejectionStepKeeps
<1>3. RejectionInv => RejectionRemembered
  <2> SUFFICES ASSUME RejectionInv PROVE Rejections!RejectionRemembered
    BY DEF RejectionRemembered
  <2>0. \A c \in Rejections!Classes : Cardinality(Rejections!Stored(hits[c])) <= Capacity
    BY DEF RejectionInv
  <2> SUFFICES ASSUME NEW c \in Rejections!Classes, NEW k \in Rejections!Keys,
                      stamp[c][k].until >= now, Cardinality(NewerKeys(c, k)) < Capacity
               PROVE  /\ Rejections!Answers(c, k)
                      /\ c = "body" => \A v \in Values :
                                         v >= k[2] => Rejections!Answers(c, <<k[1], v>>)
    BY <2>0, SameCount DEF Rejections!RejectionRemembered, NewerKeys
  <2>1. hits[c][k] = stamp[c][k].until
    BY DEF RejectionInv, LiveIsHeld
  <2>2. hits[c][k] # 0 /\ now <= hits[c][k]
    BY <2>1 DEF RejectionInv, RejectionTypes
  <2>3. k = <<k[1], k[2]>> /\ k[2] \in Values /\ Values \subseteq Nat
    BY RejectionAssumption DEF Rejections!Keys
  <2>4. k \in Rejections!Asked(c, k)
    BY <2>3 DEF Rejections!Asked
  <2>5. ASSUME c = "body", NEW v \in Values, v >= k[2]
        PROVE  k \in Rejections!Asked(c, <<k[1], v>>)
    <3>1. Rejections!Asked(c, <<k[1], v>>) = {<<k[1], w>> : w \in {w \in Values : w <= v}}
      BY <2>5 DEF Rejections!Asked
    <3>2. k[2] \in {w \in Values : w <= v}
      BY <2>3, <2>5
    <3> QED
      BY <3>1, <3>2, <2>3
  <2> QED
    BY <2>2, <2>4, <2>5 DEF Rejections!Answers
<1> QED
  BY <1>1, <1>2, <1>3, PTL DEF MCSpec

-----------------------------------------------------------------------------
(* The reading of an answer.  A chunk is folded into the parser line by    *)
(* line, so that a fact about every chunk is proved by induction over its  *)
(* prefixes.                                                               *)

LEMMA UpTo ==
  ASSUME NEW n \in Nat, NEW S, 0 \in S, \A k \in 0 .. n - 1 : k \in S => k + 1 \in S
  PROVE  \A k \in 0 .. n : k \in S
<1>1. SUFFICES ASSUME {k \in 0 .. n : k \notin S} # {} PROVE FALSE
  OBVIOUS
<1>2. PICK m \in {k \in 0 .. n : k \notin S} : \A y \in {k \in 0 .. n : k \notin S} : m <= y
  BY <1>1, LeastNatural, {k \in 0 .. n : k \notin S} \in SUBSET Nat
<1>3. m # 0 /\ m - 1 \in 0 .. n - 1 /\ (m - 1) + 1 = m
  OBVIOUS
<1>4. m - 1 \notin S
  BY <1>3
<1>5. m - 1 \in {k \in 0 .. n : k \notin S}
  BY <1>3, <1>4
<1>6. m <= m - 1
  BY <1>2, <1>5
<1> QED
  BY <1>6, <1>3

LEMMA MaxOfPrefix ==
  ASSUME NEW n \in Nat, NEW s \in SUBSET (1 .. n + 1), n + 1 \in s
  PROVE  Answers!Max(s) = n + 1
<1>1. \A x \in s : n + 1 >= x
  OBVIOUS
<1>2. \A y \in s : (\A x \in s : y >= x) => y = n + 1
  OBVIOUS
<1> QED
  BY <1>1, <1>2, Zenon DEF Answers!Max

LEMMA OneMoreLine ==
  ASSUME NEW n \in Nat, NEW k \in 0 .. n - 1
  PROVE  /\ 1 .. k + 1 \in SUBSET (1 .. n) /\ 1 .. k + 1 # {}
         /\ k + 1 \in 1 .. k + 1 /\ (1 .. k + 1) \ {k + 1} = 1 .. k
         /\ k \in 0 .. n /\ k + 1 \in 0 .. n /\ k \in Nat
<1>1. k \in Nat /\ k + 1 <= n
  OBVIOUS
<1>2. \A x : x \in (1 .. k + 1) \ {k + 1} <=> x \in 1 .. k
  BY <1>1
<1> QED
  BY <1>1, <1>2

\* What one line does to the parser, to what has been heard, and to the two parsers
\* that read a whole body.
LineStep(what, x, l) ==
  IF what = "parser" THEN Answers!Line(x, l)
  ELSE IF what = "heard" THEN IF l.kind = "data" THEN Answers!HeardEvent(x, l.of) ELSE x
  ELSE IF what = "whole" THEN Whole!Line(x, l)
  ELSE Whole!OldLine(x, l)

\* The table that folding the first n lines fills in.
Filled(g, what, p, ls, n) ==
  g = [s \in SUBSET (1 .. n) |->
         IF s = {} THEN p ELSE LineStep(what, g[s \ {Answers!Max(s)}], ls[Answers!Max(s)])]

LEMMA TableGrows ==
  ASSUME NEW what, NEW p, NEW ls, NEW k \in Nat, NEW g, Filled(g, what, p, ls, k)
  PROVE  \E h : Filled(h, what, p, ls, k + 1)
<1> DEFINE h == [s \in SUBSET (1 .. k + 1) |->
                   IF k + 1 \in s THEN LineStep(what, g[s \ {k + 1}], ls[k + 1]) ELSE g[s]]
<1>1. ASSUME NEW s \in SUBSET (1 .. k + 1)
      PROVE  h[s] = IF s = {} THEN p
                    ELSE LineStep(what, h[s \ {Answers!Max(s)}], ls[Answers!Max(s)])
  <2>1. CASE k + 1 \in s
    <3>1. Answers!Max(s) = k + 1
      BY <2>1, MaxOfPrefix
    <3>2. h[s \ {k + 1}] = g[s \ {k + 1}]
      OBVIOUS
    <3>3. s # {} /\ h[s] = LineStep(what, g[s \ {k + 1}], ls[k + 1])
      BY <2>1
    <3> QED
      BY <3>1, <3>2, <3>3, Zenon
  <2>2. CASE k + 1 \notin s
    <3>1. s \in SUBSET (1 .. k) /\ h[s] = g[s]
      BY <2>2
    <3>2. g[s] = IF s = {} THEN p
                 ELSE LineStep(what, g[s \ {Answers!Max(s)}], ls[Answers!Max(s)])
      BY <3>1, Zenon DEF Filled
    <3>3. h[s \ {Answers!Max(s)}] = g[s \ {Answers!Max(s)}]
      BY <2>2
    <3> QED
      BY <3>1, <3>2, <3>3, Zenon
  <2> QED
    BY <2>1, <2>2
<1>2. h = [s \in SUBSET (1 .. k + 1) |-> h[s]]
  BY Zenon
<1> HIDE DEF h
<1>3. Filled(h, what, p, ls, k + 1)
  BY <1>1, <1>2, Zenon DEF Filled
<1> QED
  BY <1>3, Zenon

LEMMA TableExists ==
  ASSUME NEW what, NEW p, NEW ls, NEW n \in Nat
  PROVE  \E g : Filled(g, what, p, ls, n)
<1> DEFINE S == {k \in 0 .. n : \E g : Filled(g, what, p, ls, k)}
<1>1. 0 \in S
  <2>1. \A s \in SUBSET (1 .. 0) : s = {}
    OBVIOUS
  <2>2. Filled([s \in SUBSET (1 .. 0) |-> p], what, p, ls, 0)
    BY <2>1, Zenon DEF Filled
  <2> QED
    BY <2>2, SMT
<1>2. ASSUME NEW k \in 0 .. n - 1, k \in S PROVE k + 1 \in S
  <2>1. \E g : Filled(g, what, p, ls, k + 1)
    BY <1>2, TableGrows
  <2>2. k + 1 \in 0 .. n
    OBVIOUS
  <2> QED
    BY <2>1, <2>2, Zenon
<1>3. n \in 0 .. n
  OBVIOUS
<1> HIDE DEF S
<1>4. n \in S
  BY <1>1, <1>2, <1>3, UpTo
<1> QED
  BY <1>4 DEF S

\* Folding is taking one line after the other.
OneByOne(a, what, p, ls) ==
  /\ a[0] = p
  /\ \A k \in 0 .. Len(ls) - 1 : a[k + 1] = LineStep(what, a[k], ls[k + 1])

LEMMA TableOneByOne ==
  ASSUME NEW what, NEW p, NEW T, NEW ls \in Seq(T), NEW g, Filled(g, what, p, ls, Len(ls))
  PROVE  \E a : OneByOne(a, what, p, ls) /\ g[1 .. Len(ls)] = a[Len(ls)]
<1> DEFINE n == Len(ls)
           a == [k \in 0 .. n |-> g[1 .. k]]
<1>0. n \in Nat
  OBVIOUS
<1>1. a[0] = p
  <2>1. 1 .. 0 = {} /\ {} \in SUBSET (1 .. n) /\ 0 \in 0 .. n
    BY <1>0
  <2>2. g[{}] = p
    BY <2>1, Zenon DEF Filled
  <2> QED
    BY <2>1, <2>2
<1>2. ASSUME NEW k \in 0 .. n - 1 PROVE a[k + 1] = LineStep(what, a[k], ls[k + 1])
  <2>1. /\ 1 .. k + 1 \in SUBSET (1 .. n) /\ 1 .. k + 1 # {}
        /\ k + 1 \in 1 .. k + 1 /\ (1 .. k + 1) \ {k + 1} = 1 .. k
        /\ k \in 0 .. n /\ k + 1 \in 0 .. n /\ k \in Nat
    BY <1>0, OneMoreLine
  <2>2. Answers!Max(1 .. k + 1) = k + 1
    BY <2>1, MaxOfPrefix
  <2>3. g[1 .. k + 1] = LineStep(what, g[1 .. k], ls[k + 1])
    BY <2>1, <2>2, Zenon DEF Filled
  <2> QED
    BY <2>1, <2>3, Zenon
<1>3. a[n] = g[1 .. n]
  BY <1>0
<1> HIDE DEF a
<1> QED
  BY <1>1, <1>2, <1>3, Zenon DEF OneByOne

LEMMA LinesOneByOne ==
  ASSUME NEW p, NEW T, NEW ls \in Seq(T)
  PROVE  \E a : OneByOne(a, "parser", p, ls) /\ Answers!Lines(p, ls) = a[Len(ls)]
<1> DEFINE g == CHOOSE g : Filled(g, "parser", p, ls, Len(ls))
<1>0. DOMAIN ls = 1 .. Len(ls) /\ Len(ls) \in Nat
  OBVIOUS
<1>1. Filled(g, "parser", p, ls, Len(ls))
  BY <1>0, TableExists, Zenon
<1>2. Answers!Lines(p, ls) = g[1 .. Len(ls)]
  BY <1>0, Zenon DEF Answers!Lines, Answers!FoldLeft, Answers!MapThenFoldSet, Filled, LineStep
<1> HIDE DEF g
<1>3. \E a : OneByOne(a, "parser", p, ls) /\ g[1 .. Len(ls)] = a[Len(ls)]
  BY <1>1, TableOneByOne
<1> QED
  BY <1>2, <1>3, Zenon

LEMMA HeardOneByOne ==
  ASSUME NEW h, NEW T, NEW ls \in Seq(T)
  PROVE  \E a : OneByOne(a, "heard", h, ls) /\ Answers!Heard(h, ls) = a[Len(ls)]
<1> DEFINE g == CHOOSE g : Filled(g, "heard", h, ls, Len(ls))
<1>0. DOMAIN ls = 1 .. Len(ls) /\ Len(ls) \in Nat
  OBVIOUS
<1>1. Filled(g, "heard", h, ls, Len(ls))
  BY <1>0, TableExists, Zenon
<1>2. Answers!Heard(h, ls) = g[1 .. Len(ls)]
  <2>1. "heard" # "parser"
    OBVIOUS
  <2> QED
    BY <1>0, <2>1, Zenon DEF Answers!Heard, Answers!FoldLeft, Answers!MapThenFoldSet, Filled, LineStep
<1> HIDE DEF g
<1>3. \E a : OneByOne(a, "heard", h, ls) /\ g[1 .. Len(ls)] = a[Len(ls)]
  BY <1>1, TableOneByOne
<1> QED
  BY <1>2, <1>3, Zenon

LEMMA BodyOneByOne ==
  ASSUME NEW p, NEW T, NEW ls \in Seq(T)
  PROVE  \E a : OneByOne(a, "whole", p, ls) /\ Whole!Lines(p, ls) = a[Len(ls)]
<1> DEFINE g == CHOOSE g : Filled(g, "whole", p, ls, Len(ls))
<1>0. DOMAIN ls = 1 .. Len(ls) /\ Len(ls) \in Nat
  OBVIOUS
<1>1. Filled(g, "whole", p, ls, Len(ls))
  BY <1>0, TableExists, Zenon
<1>2. Whole!Lines(p, ls) = g[1 .. Len(ls)]
  <2>1. "whole" # "parser" /\ "whole" # "heard"
    OBVIOUS
  <2> QED
    BY <1>0, <2>1, Zenon DEF Whole!Lines, Whole!FoldLeft, Whole!MapThenFoldSet,
       Whole!Max, Answers!Max, Filled, LineStep
<1> HIDE DEF g
<1>3. \E a : OneByOne(a, "whole", p, ls) /\ g[1 .. Len(ls)] = a[Len(ls)]
  BY <1>1, TableOneByOne
<1> QED
  BY <1>2, <1>3, Zenon

LEMMA OldOneByOne ==
  ASSUME NEW T, NEW ls \in Seq(T), NEW n \in 0 .. Len(ls)
  PROVE  \E a : /\ OneByOne(a, "old", Whole!NewTokenParser, SubSeq(ls, 1, n))
                /\ Whole!OldLines(ls, n) = a[n]
<1> DEFINE q == SubSeq(ls, 1, n)
           p == Whole!NewTokenParser
           g == CHOOSE g : Filled(g, "old", p, q, Len(q))
<1>0. DOMAIN q = 1 .. n /\ Len(q) = n /\ n \in Nat /\ q \in Seq(T)
  OBVIOUS
<1>1. Filled(g, "old", p, q, Len(q))
  BY <1>0, TableExists, Zenon
<1>2. Whole!OldLines(ls, n) = g[1 .. n]
  <2>1. "old" # "parser" /\ "old" # "heard" /\ "old" # "whole"
    OBVIOUS
  <2> QED
    BY <1>0, <2>1, Zenon DEF Whole!OldLines, Whole!FoldLeft, Whole!MapThenFoldSet,
       Whole!Max, Answers!Max, Filled, LineStep
<1> HIDE DEF g, q
<1>3. \E a : OneByOne(a, "old", p, q) /\ g[1 .. Len(q)] = a[Len(q)]
  BY <1>0, <1>1, TableOneByOne
<1> QED
  BY <1>0, <1>2, <1>3, Zenon DEF q

-----------------------------------------------------------------------------
(* What one event does to the parser and to what has been heard.            *)

Kinds   == Answers!Tracked \cup Answers!Terminal
TokenCounts  == [Answers!Fields -> Int]
Tracks(e) == e.type \in Answers!Tracked
LinesOf == [kind : {"event", "data", "blank"}, of : Answers!Events]

Parsers ==
  [event : Kinds \cup {Answers!Absent}, data : Seq(Answers!Events), collecting : BOOLEAN,
   start : BOOLEAN, delta : BOOLEAN, deltaUsage : BOOLEAN, stop : BOOLEAN,
   blocks : [Blocks -> {"none", "open", "closed"}], protocol : BOOLEAN,
   responses : BOOLEAN, completed : BOOLEAN, final : TokenCounts, partial : TokenCounts]
Hearings == [open : SUBSET Blocks, last : TokenCounts, first : TokenCounts]

OpenBlocks(p) == {b \in Blocks : p.blocks[b] = "open"}

\* The parser has the usage of the events that were heard, and while it knows of no
\* error the blocks it holds open are those that were heard to be.
InStep(p, h) ==
  /\ p.final = h.last /\ p.partial = h.first
  /\ p.protocol = FALSE => h.open = OpenBlocks(p)

LEMMA EventFacts ==
  ASSUME NEW e \in Answers!Events
  PROVE  /\ e.type \in Kinds /\ e.block \in Blocks /\ e.whole \in BOOLEAN
         /\ e.usage \in TokenCounts
         /\ e.usage # Answers!NoUsage => e.usage \in [Answers!Fields -> Nat]
<1>1. Answers!AnyBlock \in Blocks
  BY AnswerAssumption, Zenon DEF Answers!AnyBlock
<1>2. Answers!NoUsage \in TokenCounts
  BY DEF Answers!NoUsage, TokenCounts
<1>3. \A u \in Usages : u \in [Answers!Fields -> Nat] /\ u \in TokenCounts
  BY AnswerAssumption DEF Answers!Fields, TokenCounts
<1>4. {"block_start", "block_delta", "block_stop", "message_start", "message_delta",
       "completed", "message_stop", "error", "in_progress", "failed"} \subseteq Kinds
  BY DEF Kinds, Answers!Tracked, Answers!Terminal
<1>5. \/ \E t \in {"block_start", "block_delta", "block_stop"}, b \in Blocks, w \in BOOLEAN :
           e = Answers!Event(t, b, Answers!NoUsage, w)
      \/ \E t \in {"message_start", "message_delta", "completed"},
             u \in Usages \cup {Answers!NoUsage} : e = Answers!Event(t, Answers!AnyBlock, u, TRUE)
      \/ \E t \in {"message_stop", "error", "in_progress", "failed"} :
           e = Answers!Event(t, Answers!AnyBlock, Answers!NoUsage, TRUE)
  BY DEF Answers!Events, Answers!Event
<1>6. ASSUME NEW t \in Kinds, NEW b \in Blocks, NEW u \in Usages \cup {Answers!NoUsage},
             NEW w \in BOOLEAN, e = [type |-> t, block |-> b, usage |-> u, whole |-> w]
      PROVE  /\ e.type \in Kinds /\ e.block \in Blocks /\ e.whole \in BOOLEAN
             /\ e.usage \in TokenCounts
             /\ e.usage # Answers!NoUsage => e.usage \in [Answers!Fields -> Nat]
  <2>1. e.type = t /\ e.block = b /\ e.usage = u /\ e.whole = w
    BY <1>6
  <2> QED
    BY <2>1, <1>2, <1>3
<1> QED
  BY <1>1, <1>4, <1>5, <1>6 DEF Answers!Event

\* Nothing that is handled touches what is being collected.
HandledWell(p, q, e) ==
  /\ q \in Parsers
  /\ q.data = p.data /\ q.collecting = p.collecting /\ q.event = p.event /\ q.stop = p.stop
  /\ q.completed = TRUE => p.completed = TRUE \/ e.type \in {"completed", "failed"}

LEMMA ProtocolErrorWell ==
  ASSUME NEW p \in Parsers, NEW e \in Answers!Events, NEW bad \in BOOLEAN
  PROVE  LET q == Answers!ProtocolError(p, bad) IN
         /\ HandledWell(p, q, e) /\ q.final = p.final /\ q.partial = p.partial
         /\ q.blocks = p.blocks /\ q.protocol = (p.protocol \/ bad)
  BY DEF Answers!ProtocolError, Parsers, HandledWell

LEMMA BlockHandled ==
  ASSUME NEW p \in Parsers, NEW h \in Hearings, NEW e \in Answers!Events, InStep(p, h),
         e.type \in {"block_start", "block_stop", "block_delta"}
  PROVE  LET q == Answers!Handled(p, e)  g == Answers!HeardEvent(h, e) IN
         HandledWell(p, q, e) /\ g \in Hearings /\ InStep(q, g)
<1> DEFINE b == e.block
<1>0. b \in Blocks /\ e.whole \in BOOLEAN
  BY EventFacts
<1>1. /\ h.open \subseteq Blocks /\ h.last = p.final /\ h.first = p.partial
      /\ p.blocks \in [Blocks -> {"none", "open", "closed"}]
      /\ {p.protocol, p.start, p.delta, p.stop} \subseteq BOOLEAN
      /\ p.protocol = FALSE => h.open = OpenBlocks(p)
  BY DEF Hearings, Parsers, InStep
<1>2. ASSUME NEW bad \in BOOLEAN, NEW g \in Hearings,
             Answers!Handled(p, e) = Answers!ProtocolError(p, bad),
             Answers!HeardEvent(h, e) = g, g.last = h.last, g.first = h.first,
             bad = FALSE => g.open = h.open
      PROVE  LET q == Answers!Handled(p, e)  g1 == Answers!HeardEvent(h, e) IN
             HandledWell(p, q, e) /\ g1 \in Hearings /\ InStep(q, g1)
  <2> DEFINE q == Answers!ProtocolError(p, bad)
  <2>1. /\ HandledWell(p, q, e) /\ q.final = p.final /\ q.partial = p.partial
        /\ q.blocks = p.blocks /\ q.protocol = (p.protocol \/ bad)
    BY ProtocolErrorWell
  <2> HIDE DEF q
  <2>2. InStep(q, g)
    BY <2>1, <1>1, <1>2 DEF InStep, OpenBlocks
  <2> QED
    BY <2>1, <2>2, <1>2 DEF q
<1>3. CASE e.whole = FALSE
  <2>1. Answers!Handled(p, e) = Answers!ProtocolError(p, TRUE)
    BY <1>3 DEF Answers!Handled, Answers!Responses
  <2>2. Answers!HeardEvent(h, e) = h
    BY <1>3 DEF Answers!HeardEvent
  <2> QED
    BY <2>1, <2>2, <1>2
<1>4. CASE e.whole = TRUE /\ e.type = "block_delta"
  <2>1. Answers!Handled(p, e) = Answers!ProtocolError(p, Answers!Ending(p) \/ p.blocks[b] # "open")
    BY <1>4 DEF Answers!Handled, Answers!BlockDelta, Answers!Responses
  <2>2. Answers!HeardEvent(h, e) = h
    BY <1>4 DEF Answers!HeardEvent
  <2>3. (Answers!Ending(p) \/ p.blocks[b] # "open") \in BOOLEAN
    OBVIOUS
  <2> QED
    BY <2>1, <2>2, <2>3, <1>2
<1>5. CASE e.whole = TRUE /\ e.type = "block_start"
  <2> DEFINE g == [h EXCEPT !.open = @ \cup {b}]
  <2>1. Answers!Handled(p, e) = Answers!BlockStart(p, b)
    BY <1>5 DEF Answers!Handled, Answers!Responses
  <2>2. Answers!HeardEvent(h, e) = g
    BY <1>5 DEF Answers!HeardEvent
  <2>3. g \in Hearings /\ g.open = h.open \cup {b} /\ g.last = h.last /\ g.first = h.first
    BY <1>0 DEF Hearings
  <2>4. CASE ~p.start \/ Answers!Ending(p) \/ p.blocks[b] # Answers!Absent
    BY <2>1, <2>2, <2>3, <2>4, <1>2 DEF Answers!BlockStart
  <2>5. CASE ~(~p.start \/ Answers!Ending(p) \/ p.blocks[b] # Answers!Absent)
    <3> DEFINE q == [p EXCEPT !.blocks[b] = "open"]
    <3>1. Answers!Handled(p, e) = q
      BY <2>1, <2>5 DEF Answers!BlockStart
    <3>2. q.blocks = [p.blocks EXCEPT ![b] = "open"]
      BY DEF Parsers
    <3>3. /\ HandledWell(p, q, e) /\ q.final = p.final /\ q.partial = p.partial
          /\ q.protocol = p.protocol
      BY <1>0 DEF HandledWell, Parsers
    <3> HIDE DEF q, g, b
    <3>4. OpenBlocks(q) = OpenBlocks(p) \cup {b}
      BY <3>2, <1>0, <1>1 DEF OpenBlocks
    <3>5. InStep(q, g)
      BY <3>3, <3>4, <2>3, <1>1 DEF InStep
    <3> QED
      BY <3>1, <3>3, <3>5, <2>2, <2>3
  <2> QED
    BY <2>4, <2>5
<1>6. CASE e.whole = TRUE /\ e.type = "block_stop"
  <2> DEFINE g == [h EXCEPT !.open = @ \ {b}]
  <2>1. Answers!Handled(p, e) = Answers!BlockStop(p, b)
    BY <1>6 DEF Answers!Handled, Answers!Responses
  <2>2. Answers!HeardEvent(h, e) = g
    BY <1>6 DEF Answers!HeardEvent
  <2>3. g \in Hearings /\ g.open = h.open \ {b} /\ g.last = h.last /\ g.first = h.first
    BY <1>0 DEF Hearings
  <2>4. CASE p.blocks[b] # "open" \/ Answers!Ending(p)
    BY <2>1, <2>2, <2>3, <2>4, <1>2 DEF Answers!BlockStop
  <2>5. CASE ~(p.blocks[b] # "open" \/ Answers!Ending(p))
    <3> DEFINE q == [p EXCEPT !.blocks[b] = "closed"]
    <3>1. Answers!Handled(p, e) = q
      BY <2>1, <2>5 DEF Answers!BlockStop
    <3>2. q.blocks = [p.blocks EXCEPT ![b] = "closed"]
      BY DEF Parsers
    <3>3. /\ HandledWell(p, q, e) /\ q.final = p.final /\ q.partial = p.partial
          /\ q.protocol = p.protocol
      BY <1>0 DEF HandledWell, Parsers
    <3> HIDE DEF q, g, b
    <3>4. OpenBlocks(q) = OpenBlocks(p) \ {b}
      BY <3>2, <1>0, <1>1 DEF OpenBlocks
    <3>5. InStep(q, g)
      BY <3>3, <3>4, <2>3, <1>1 DEF InStep
    <3> QED
      BY <3>1, <3>3, <3>5, <2>2, <2>3
  <2> QED
    BY <2>4, <2>5
<1> QED
  BY <1>0, <1>3, <1>4, <1>5, <1>6

LEMMA UsageHandled ==
  ASSUME NEW p \in Parsers, NEW h \in Hearings, NEW e \in Answers!Events, InStep(p, h),
         e.type \notin {"block_start", "block_stop", "block_delta"}
  PROVE  LET q == Answers!Handled(p, e)  g == Answers!HeardEvent(h, e) IN
         HandledWell(p, q, e) /\ g \in Hearings /\ InStep(q, g)
<1>0. /\ e.type \in Kinds /\ e.usage \in TokenCounts
      /\ e.usage # Answers!NoUsage => e.usage \in [Answers!Fields -> Nat]
  BY EventFacts
<1>1. /\ h.last = p.final /\ h.first = p.partial /\ h.first \in TokenCounts /\ h.last \in TokenCounts
      /\ p.protocol \in BOOLEAN
      /\ p.protocol = FALSE => h.open = OpenBlocks(p)
  BY DEF Hearings, Parsers, InStep
<1>2. CASE e.type = "message_start"
  <2> DEFINE q == [p EXCEPT !.start = TRUE,
                            !.partial = IF e.usage = Answers!NoUsage THEN @ ELSE e.usage]
             g == IF e.usage = Answers!NoUsage THEN h ELSE [h EXCEPT !.first = e.usage]
  <2>1. Answers!Handled(p, e) = q
    <3>1. Answers!Handled(p, e) = Answers!MessageStart(p, e)
      BY <1>2 DEF Answers!Handled, Answers!Responses
    <3>2. Answers!MessageStart(p, e) = q
      BY Zenon DEF Answers!MessageStart
    <3> QED
      BY <3>1, <3>2, Zenon
  <2>2. Answers!HeardEvent(h, e) = g
    BY <1>2 DEF Answers!HeardEvent
  <2>3. /\ HandledWell(p, q, e) /\ q.final = p.final /\ q.blocks = p.blocks
        /\ q.partial = (IF e.usage = Answers!NoUsage THEN p.partial ELSE e.usage)
        /\ q.protocol = p.protocol
    BY <1>0 DEF HandledWell, Parsers
  <2>4. /\ g \in Hearings /\ g.open = h.open /\ g.last = h.last
        /\ g.first = (IF e.usage = Answers!NoUsage THEN h.first ELSE e.usage)
    BY <1>0 DEF Hearings
  <2> HIDE DEF q, g
  <2>5. InStep(q, g)
    BY <2>3, <2>4, <1>1 DEF InStep, OpenBlocks
  <2> QED
    BY <2>1, <2>2, <2>3, <2>4, <2>5
<1>3. CASE e.type = "message_delta"
  <2> DEFINE bad == Answers!SomeOpen(p)
             pe == Answers!ProtocolError(p, bad)
             d == Answers!DeltaSeen(p)
  <2>0. bad \in BOOLEAN
    BY DEF Answers!SomeOpen
  <2>1. /\ HandledWell(p, pe, e) /\ pe.final = p.final /\ pe.partial = p.partial
        /\ pe.blocks = p.blocks /\ pe.protocol = (p.protocol \/ bad)
    BY <2>0, ProtocolErrorWell
  <2>2. d = [pe EXCEPT !.delta = TRUE]
    BY DEF Answers!DeltaSeen
  <2> HIDE DEF pe, bad, d
  <2>7. Answers!Handled(p, e) = Answers!MessageDelta(p, e)
    BY <1>3 DEF Answers!Handled, Answers!Responses
  <2>3. /\ HandledWell(p, d, e) /\ d.final = p.final /\ d.partial = p.partial
        /\ d.blocks = p.blocks /\ d.protocol = (p.protocol \/ bad)
    BY <2>1, <2>2 DEF HandledWell, Parsers
  <2>4. CASE e.usage = Answers!NoUsage
    <3>0. Answers!MessageDelta(p, e) = d
      BY <2>4, Zenon DEF Answers!MessageDelta, d
    <3>1. Answers!Handled(p, e) = d /\ Answers!HeardEvent(h, e) = h
      BY <1>3, <2>4, <2>7, <3>0 DEF Answers!HeardEvent
    <3>2. InStep(d, h)
      BY <2>3, <1>1 DEF InStep, OpenBlocks
    <3> QED
      BY <3>1, <3>2, <2>3
  <2>5. CASE e.usage # Answers!NoUsage
    <3> DEFINE m == Answers!Merged(p, e.usage)
               q == [d EXCEPT !.deltaUsage = TRUE, !.final = m]
               g == [h EXCEPT !.last = Answers!Newer(h.first, e.usage)]
    <3>1. Answers!Handled(p, e) = q
      <4>1. Answers!MessageDelta(p, e) = q
        BY <2>5, Zenon DEF Answers!MessageDelta, d
      <4> QED
        BY <4>1, <2>7, Zenon
    <3>2. Answers!HeardEvent(h, e) = g
      BY <1>3, <2>5 DEF Answers!HeardEvent
    <3>3. m \in TokenCounts /\ m = Answers!Newer(h.first, e.usage)
      <4>1. p.partial \in TokenCounts /\ e.usage \in [Answers!Fields -> Nat]
        BY <1>0, <1>1, <2>5
      <4>2. \A f \in Answers!Fields : p.partial[f] > 0 => p.partial # Answers!NoUsage
        BY DEF Answers!NoUsage
      <4>3. m = [f \in Answers!Fields |->
                   IF f # "output" /\ e.usage[f] = 0 THEN IF p.partial[f] > 0 THEN p.partial[f] ELSE 0
                   ELSE e.usage[f]]
        BY <4>1, <4>2 DEF Answers!Merged, TokenCounts
      <4> QED
        BY <4>1, <4>3, <1>1 DEF Answers!Newer, TokenCounts
    <3> HIDE DEF m
    <3>4. /\ HandledWell(p, q, e) /\ q.final = m /\ q.partial = p.partial
          /\ q.blocks = p.blocks /\ q.protocol = d.protocol
      BY <2>3, <3>3 DEF HandledWell, Parsers
    <3>5. g \in Hearings /\ g.open = h.open /\ g.last = m /\ g.first = h.first
      BY <3>3 DEF Hearings
    <3> HIDE DEF q, g
    <3>6. InStep(q, g)
      BY <3>4, <3>5, <2>3, <1>1 DEF InStep, OpenBlocks
    <3> QED
      BY <3>1, <3>2, <3>4, <3>5, <3>6
  <2> QED
    BY <2>4, <2>5
<1>4. CASE e.type \in Answers!Responses
  <2> DEFINE u == IF e.type = "completed" /\ e.usage # Answers!NoUsage THEN e.usage ELSE p.final
             q == [p EXCEPT !.responses = TRUE,
                            !.completed = @ \/ e.type \in {"completed", "failed"},
                            !.final = IF e.type = "completed" /\ e.usage # Answers!NoUsage
                                      THEN e.usage ELSE @]
             g == IF e.type = "completed" /\ e.usage # Answers!NoUsage
                  THEN [h EXCEPT !.last = e.usage] ELSE h
  <2>1. Answers!Handled(p, e) = q
    BY <1>4 DEF Answers!Handled, Answers!ResponsesEvent, Answers!Responses
  <2>2. Answers!HeardEvent(h, e) = g
    BY <1>4 DEF Answers!HeardEvent, Answers!Responses
  <2>3. /\ HandledWell(p, q, e) /\ q.final = u /\ q.blocks = p.blocks
        /\ q.partial = p.partial /\ q.protocol = p.protocol
    BY <1>0 DEF HandledWell, Parsers
  <2>4. g \in Hearings /\ g.open = h.open /\ g.last = u /\ g.first = h.first
    BY <1>0, <1>1 DEF Hearings
  <2> HIDE DEF q, g
  <2>5. InStep(q, g)
    BY <2>3, <2>4, <1>1 DEF InStep, OpenBlocks
  <2> QED
    BY <2>1, <2>2, <2>3, <2>4, <2>5
<1>5. CASE e.type \in {"message_stop", "error"}
  <2>1. Answers!Handled(p, e) = p
    BY <1>5 DEF Answers!Handled, Answers!Responses
  <2>2. Answers!HeardEvent(h, e) = h
    BY <1>5 DEF Answers!HeardEvent
  <2>3. HandledWell(p, p, e)
    BY DEF HandledWell
  <2> QED
    BY <2>1, <2>2, <2>3
<1> QED
  BY <1>0, <1>2, <1>3, <1>4, <1>5 DEF Kinds, Answers!Tracked, Answers!Terminal, Answers!Responses

LEMMA HandledKeepsStep ==
  ASSUME NEW p \in Parsers, NEW h \in Hearings, NEW e \in Answers!Events, InStep(p, h)
  PROVE  LET q == Answers!Handled(p, e)  g == Answers!HeardEvent(h, e) IN
         HandledWell(p, q, e) /\ g \in Hearings /\ InStep(q, g)
  BY BlockHandled, UsageHandled

\* The parser q is p with the event t named.
NamedAs(p, q, t) ==
  /\ q \in Parsers /\ q.data = p.data /\ q.collecting = (t \in Answers!Tracked)
  /\ q.stop = (p.stop \/ t = "message_stop") /\ q.completed = p.completed
  /\ q.final = p.final /\ q.partial = p.partial /\ q.blocks = p.blocks
  /\ q.protocol = FALSE => p.protocol = FALSE

LEMMA NamedWell ==
  ASSUME NEW p \in Parsers, NEW t \in Kinds
  PROVE  NamedAs(p, Answers!Named(p, t), t)
<1> DEFINE bad == t = "message_stop" /\ Answers!SomeOpen(p)
           r == Answers!ProtocolError(p, bad)
<1>1. bad \in BOOLEAN
  OBVIOUS
<1>2. r = [p EXCEPT !.protocol = @ \/ bad]
  BY DEF Answers!ProtocolError
<1>3. Answers!Named(p, t) = [r EXCEPT !.stop = @ \/ t = "message_stop",
                                      !.event = t, !.collecting = t \in Answers!Tracked]
  BY DEF Answers!Named
<1> HIDE DEF bad, r
<1>4. /\ r \in Parsers /\ r.data = p.data /\ r.stop = p.stop /\ r.completed = p.completed
      /\ r.final = p.final /\ r.partial = p.partial /\ r.blocks = p.blocks
      /\ r.protocol = (p.protocol \/ bad)
  BY <1>1, <1>2 DEF Parsers
<1>5. t \in Kinds \cup {Answers!Absent} /\ (t \in Answers!Tracked) \in BOOLEAN
  OBVIOUS
<1>6. LET q == Answers!Named(p, t) IN
      /\ q \in Parsers /\ q.data = p.data /\ q.collecting = (t \in Answers!Tracked)
      /\ q.stop = (p.stop \/ t = "message_stop") /\ q.completed = p.completed
      /\ q.final = p.final /\ q.partial = p.partial /\ q.blocks = p.blocks
      /\ q.protocol = FALSE => p.protocol = FALSE
  BY <1>1, <1>3, <1>4, <1>5 DEF Parsers
<1> QED
  BY <1>6, Zenon DEF NamedAs

LEMMA ClearedWell ==
  ASSUME NEW p \in Parsers
  PROVE  LET q == Answers!Cleared(p) IN
         /\ q \in Parsers /\ q.data = << >> /\ q.collecting = FALSE
         /\ q.stop = p.stop /\ q.completed = p.completed
         /\ q.final = p.final /\ q.partial = p.partial /\ q.blocks = p.blocks
         /\ q.protocol = p.protocol
<1>1. << >> \in Seq(Answers!Events) /\ Answers!Absent \in Kinds \cup {Answers!Absent}
  OBVIOUS
<1> QED
  BY <1>1 DEF Answers!Cleared, Parsers

\* What the parser has, with the event that is being collected.
LEMMA FlushWell ==
  ASSUME NEW p \in Parsers
  PROVE  /\ p.data = << >> => Answers!Flush(p) = p
         /\ \A e \in Answers!Events : p.collecting = TRUE /\ p.data = <<e>> =>
              Answers!Flush(p) = Answers!Cleared(Answers!Handled(p, e))
<1>1. p.data = << >> => Answers!Flush(p) = p
  BY DEF Answers!Flush, Answers!Pending
<1>2. ASSUME NEW e \in Answers!Events, p.collecting = TRUE, p.data = <<e>>
      PROVE  Answers!Flush(p) = Answers!Cleared(Answers!Handled(p, e))
  <2>1. p.data # << >> /\ Answers!Last(p.data) = e
    BY <1>2 DEF Answers!Last
  <2>2. Answers!Pending(p) = TRUE
    BY <1>2, <2>1 DEF Answers!Pending
  <2> QED
    BY <2>1, <2>2, Zenon DEF Answers!Flush
<1> QED
  BY <1>1, <1>2

-----------------------------------------------------------------------------
(* Where the parser is in the lines w when it has taken k of them: between *)
(* two events, after the name of one, or after its data.  `over` says that *)
(* the body has ended, `more` that the upstream may send another event.    *)

Finished(p) == p.stop = TRUE \/ p.completed = TRUE

Between(p, w, k, more) ==
  /\ p.collecting = FALSE /\ p.data = << >>
  /\ k < Len(w) => w[k + 1].kind \in {"event", "data"}
  /\ Finished(p) => k = Len(w) /\ ~more

Underway(p, e, next, w, k, over, more) ==
  /\ IF k < Len(w) THEN w[k + 1] = next ELSE over
  /\ Finished(p) => e.type = "message_stop"
  /\ e.type \in Answers!Terminal => ~more

AfterName(p, w, k, over, more) ==
  \E e \in Answers!Events :
    /\ p.collecting = Tracks(e) /\ p.data = << >>
    /\ Underway(p, e, Answers!DataLine(e), w, k, over, more)

AfterData(p, w, k, over, more) ==
  \E e \in Answers!Events :
    /\ p.collecting = Tracks(e) /\ p.data = IF Tracks(e) THEN <<e>> ELSE << >>
    /\ Underway(p, e, Answers!BlankLine(e), w, k, over, more)

Reading(p, h, w, k, over, more) ==
  /\ p \in Parsers /\ h \in Hearings /\ InStep(Answers!Flush(p), h)
  /\ \/ Between(p, w, k, more)
     \/ AfterName(p, w, k, over, more)
     \/ AfterData(p, w, k, over, more)

\* The upstream sends whole events, name, data and blank line, and nothing after a
\* terminal event; what it sends is cut only where the body ends.
Comes(x, y) ==
  \/ x.kind = "event" /\ y = Answers!DataLine(x.of)
  \/ x.kind = "data" /\ y = Answers!BlankLine(x.of)
  \/ x.kind = "blank" /\ y.kind \in {"event", "data"} /\ x.of.type \notin Answers!Terminal

Sequel(w, over, more) ==
  /\ w \in Seq(LinesOf)
  /\ \A k \in 1 .. Len(w) - 1 : Comes(w[k], w[k + 1])
  /\ \A k \in 1 .. Len(w) : w[k].of.type \in Answers!Terminal => ~more
  /\ w # << >> /\ ~over => w[Len(w)].kind = "blank"

LEMMA LineFacts ==
  /\ \A e : /\ Answers!DataLine(e).kind = "data" /\ Answers!DataLine(e).of = e
            /\ Answers!BlankLine(e).kind = "blank" /\ Answers!BlankLine(e).of = e
            /\ Answers!TypeLine(e).kind = "event" /\ Answers!TypeLine(e).of = e
  /\ \A l \in LinesOf : l.kind \in {"event", "data", "blank"} /\ l.of \in Answers!Events
  /\ \A e \in Answers!Events : /\ Tracks(e) \in BOOLEAN
                               /\ ~Tracks(e) => e.type = "message_stop"
<1>1. \A e \in Answers!Events : ~Tracks(e) => e.type = "message_stop"
  BY EventFacts DEF Tracks, Kinds, Answers!Terminal, Answers!Tracked
<1> QED
  BY <1>1 DEF Answers!DataLine, Answers!BlankLine, Answers!TypeLine, LinesOf, Tracks

LEMMA EventLine ==
  ASSUME NEW p, NEW h, NEW w, NEW k \in Nat, NEW over \in BOOLEAN, NEW more \in BOOLEAN,
         Sequel(w, over, more), k < Len(w), Reading(p, h, w, k, over, more),
         w[k + 1].kind = "event"
  PROVE  Reading(Answers!Line(p, w[k + 1]), h, w, k + 1, over, more)
<1> DEFINE l == w[k + 1]
           e == l.of
           n == Answers!Named(p, e.type)
           q == [n EXCEPT !.data = << >>]
<1>1. /\ w \in Seq(LinesOf) /\ Len(w) \in Nat /\ k + 1 \in 1 .. Len(w) /\ l \in LinesOf
      /\ e \in Answers!Events
  BY LineFacts DEF Sequel
<1>2. /\ p \in Parsers /\ h \in Hearings /\ Between(p, w, k, more)
      /\ InStep(Answers!Flush(p), h)
  BY LineFacts, <1>1 DEF Reading, AfterName, AfterData, Underway
<1>3. p.data = << >> /\ p.stop = FALSE /\ p.completed = FALSE
  BY <1>2, <1>1 DEF Between, Finished, Parsers
<1>4. e.type \in Kinds
  BY <1>1, EventFacts
<1>5. Answers!Line(p, l) = q
  BY DEF Answers!Line
<1>6. /\ n \in Parsers /\ n.data = << >> /\ n.collecting = Tracks(e)
      /\ n.stop = (e.type = "message_stop") /\ n.completed = FALSE
      /\ n.final = p.final /\ n.partial = p.partial /\ n.blocks = p.blocks
      /\ n.protocol = FALSE => p.protocol = FALSE
  <2>1. /\ n \in Parsers /\ n.data = p.data /\ n.collecting = (e.type \in Answers!Tracked)
        /\ n.stop = (p.stop \/ e.type = "message_stop") /\ n.completed = p.completed
        /\ n.final = p.final /\ n.partial = p.partial /\ n.blocks = p.blocks
        /\ n.protocol = FALSE => p.protocol = FALSE
    <3>1. NamedAs(p, n, e.type)
      BY <1>2, <1>4, NamedWell
    <3> HIDE DEF n, e
    <3> QED
      BY <3>1, Zenon DEF NamedAs
  <2> HIDE DEF n, e
  <2> QED
    BY <2>1, <1>3 DEF Tracks
<1> HIDE DEF n
<1>7. << >> \in Seq(Answers!Events)
  OBVIOUS
<1>8. /\ q \in Parsers /\ q.data = << >> /\ q.collecting = Tracks(e)
      /\ q.stop = (e.type = "message_stop") /\ q.completed = FALSE
      /\ q.final = p.final /\ q.partial = p.partial /\ q.blocks = p.blocks
      /\ q.protocol = FALSE => p.protocol = FALSE
  BY <1>6, <1>7 DEF Parsers
<1> HIDE DEF q
<1>9. InStep(Answers!Flush(q), h)
  <2>1. Answers!Flush(p) = p /\ Answers!Flush(q) = q
    BY <1>2, <1>3, <1>8, FlushWell
  <2> QED
    BY <2>1, <1>2, <1>8 DEF InStep, OpenBlocks
<1>10. Underway(q, e, Answers!DataLine(e), w, k + 1, over, more)
  <2>1. IF k + 1 < Len(w) THEN w[(k + 1) + 1] = Answers!DataLine(e) ELSE over
    <3>1. CASE k + 1 < Len(w)
      <4>1. Comes(w[k + 1], w[(k + 1) + 1])
        BY <3>1, <1>1 DEF Sequel
      <4> QED
        BY <3>1, <4>1 DEF Comes
    <3>2. CASE ~(k + 1 < Len(w))
      <4>1. k + 1 = Len(w) /\ w # << >>
        BY <3>2, <1>1
      <4> QED
        BY <4>1, <3>2 DEF Sequel
    <3> QED
      BY <3>1, <3>2
  <2>2. e.type \in Answers!Terminal => ~more
    BY <1>1 DEF Sequel
  <2> QED
    BY <2>1, <2>2, <1>8 DEF Underway, Finished
<1>11. AfterName(q, w, k + 1, over, more)
  BY <1>1, <1>8, <1>10 DEF AfterName
<1> QED
  BY <1>2, <1>5, <1>8, <1>9, <1>11 DEF Reading

LEMMA DataLineRead ==
  ASSUME NEW p, NEW h, NEW w, NEW k \in Nat, NEW over \in BOOLEAN, NEW more \in BOOLEAN,
         Sequel(w, over, more), k < Len(w), Reading(p, h, w, k, over, more),
         w[k + 1].kind = "data"
  PROVE  Reading(Answers!Line(p, w[k + 1]), Answers!HeardEvent(h, w[k + 1].of), w, k + 1, over, more)
<1> DEFINE l == w[k + 1]
           e == l.of
           n == Answers!Named(p, e.type)
           q == IF p.collecting = TRUE THEN p ELSE n
           r == IF q.collecting = TRUE THEN [q EXCEPT !.data = Append(@, e)] ELSE q
           g == Answers!HeardEvent(h, e)
<1>1. /\ w \in Seq(LinesOf) /\ Len(w) \in Nat /\ k + 1 \in 1 .. Len(w) /\ l \in LinesOf
      /\ e \in Answers!Events
  BY LineFacts DEF Sequel
<1>2. /\ p \in Parsers /\ h \in Hearings /\ InStep(Answers!Flush(p), h)
  BY DEF Reading
<1>3. /\ p.data = << >> /\ p.collecting \in {FALSE, Tracks(e)}
      /\ Finished(p) => e.type = "message_stop"
  <2>1. CASE Between(p, w, k, more)
    <3>1. p.collecting = FALSE /\ p.data = << >> /\ (Finished(p) => k = Len(w))
      BY <2>1 DEF Between
    <3>2. k # Len(w)
      BY <1>1
    <3> QED
      BY <3>1, <3>2
  <2>2. CASE AfterName(p, w, k, over, more)
    <3>1. PICK x \in Answers!Events : /\ p.collecting = Tracks(x) /\ p.data = << >>
                                      /\ Underway(p, x, Answers!DataLine(x), w, k, over, more)
      BY <2>2 DEF AfterName
    <3>2. l = Answers!DataLine(x) /\ (Finished(p) => x.type = "message_stop")
      BY <3>1 DEF Underway
    <3>3. x = e
      BY <3>2, LineFacts
    <3> QED
      BY <3>1, <3>2, <3>3
  <2>3. ~AfterData(p, w, k, over, more)
    BY LineFacts DEF AfterData, Underway
  <2> QED
    BY <2>1, <2>2, <2>3 DEF Reading
<1>4. e.type \in Kinds /\ Tracks(e) \in BOOLEAN /\ p.collecting \in BOOLEAN /\ p.stop \in BOOLEAN
      /\ p.completed \in BOOLEAN
  BY <1>1, <1>2, EventFacts, LineFacts DEF Parsers
<1>5. Answers!Line(p, l) = r
  <2>1. Answers!Line(p, l) = LET s == IF p.collecting THEN p ELSE n
                             IN IF s.collecting THEN [s EXCEPT !.data = Append(@, e)] ELSE s
    BY DEF Answers!Line
  <2>2. n.collecting = (e.type \in Answers!Tracked)
    <3>1. NamedAs(p, n, e.type)
      BY <1>2, <1>4, NamedWell
    <3> HIDE DEF n, e
    <3> QED
      BY <3>1, Zenon DEF NamedAs
  <2>3. (e.type \in Answers!Tracked) \in BOOLEAN
    OBVIOUS
  <2> HIDE DEF n, e, l
  <2> QED
    BY <2>1, <2>2, <2>3, <1>4
<1>6. /\ q \in Parsers /\ q.data = << >> /\ q.collecting = Tracks(e)
      /\ q.final = p.final /\ q.partial = p.partial /\ q.blocks = p.blocks
      /\ q.protocol = FALSE => p.protocol = FALSE
      /\ Finished(q) => e.type = "message_stop"
  <2>1. /\ n \in Parsers /\ n.data = p.data /\ n.collecting = (e.type \in Answers!Tracked)
        /\ n.stop = (p.stop \/ e.type = "message_stop") /\ n.completed = p.completed
        /\ n.final = p.final /\ n.partial = p.partial /\ n.blocks = p.blocks
        /\ n.protocol = FALSE => p.protocol = FALSE
    <3>1. NamedAs(p, n, e.type)
      BY <1>2, <1>4, NamedWell
    <3> HIDE DEF n, e
    <3> QED
      BY <3>1, Zenon DEF NamedAs
  <2> HIDE DEF n, e
  <2>2. CASE p.collecting = TRUE
    <3>1. q = p /\ Tracks(e) = TRUE
      BY <2>2, <1>3, <1>4
    <3> QED
      BY <3>1, <1>2, <1>3, <2>2
  <2>3. CASE p.collecting # TRUE
    <3>1. q = n
      BY <2>3
    <3>2. Finished(n) => e.type = "message_stop"
      BY <2>1, <1>3, <1>4 DEF Finished
    <3> HIDE DEF q
    <3> QED
      BY <3>1, <3>2, <2>1, <1>3 DEF Tracks
  <2> QED
    BY <2>2, <2>3
<1> HIDE DEF n, q
<1>7. InStep(q, h)
  <2>1. Answers!Flush(p) = p
    BY <1>2, <1>3, FlushWell
  <2> QED
    BY <2>1, <1>2, <1>6 DEF InStep, OpenBlocks
<1>8. /\ r \in Parsers /\ r.collecting = Tracks(e)
      /\ r.data = IF Tracks(e) THEN <<e>> ELSE << >>
      /\ Finished(r) => e.type = "message_stop"
      /\ InStep(r, h)
  <2>1. CASE Tracks(e) = TRUE
    <3>1. r = [q EXCEPT !.data = <<e>>]
      BY <2>1, <1>6 DEF Parsers
    <3>2. <<e>> \in Seq(Answers!Events)
      BY <1>1
    <3> HIDE DEF r, e
    <3>3. /\ r \in Parsers /\ r.data = <<e>> /\ r.collecting = q.collecting
          /\ r.final = q.final /\ r.partial = q.partial /\ r.blocks = q.blocks
          /\ r.protocol = q.protocol /\ r.stop = q.stop /\ r.completed = q.completed
      BY <3>1, <3>2, <1>6 DEF Parsers
    <3> QED
      BY <3>3, <2>1, <1>6, <1>7 DEF InStep, OpenBlocks, Finished
  <2>2. CASE Tracks(e) = FALSE
    <3>1. r = q
      BY <2>2, <1>6
    <3> HIDE DEF r, e
    <3> QED
      BY <3>1, <2>2, <1>6, <1>7
  <2> QED
    BY <2>1, <2>2, <1>4
<1> HIDE DEF r
<1>9. InStep(Answers!Flush(r), g) /\ g \in Hearings
  <2>1. CASE Tracks(e) = TRUE
    <3> DEFINE a == Answers!Handled(r, e)
    <3>1. HandledWell(r, a, e) /\ g \in Hearings /\ InStep(a, g)
      BY <1>1, <1>2, <1>8, HandledKeepsStep
    <3>2. Answers!Flush(r) = Answers!Cleared(a)
      BY <1>1, <1>8, <2>1, FlushWell
    <3> HIDE DEF a, g
    <3>3. a \in Parsers
      BY <3>1 DEF HandledWell
    <3> DEFINE c == Answers!Cleared(a)
    <3>4. /\ c.final = a.final /\ c.partial = a.partial /\ c.blocks = a.blocks
          /\ c.protocol = a.protocol
      BY <3>3, ClearedWell
    <3> HIDE DEF c
    <3>5. InStep(c, g)
      BY <3>1, <3>4 DEF InStep, OpenBlocks
    <3> QED
      BY <3>1, <3>2, <3>5 DEF c
  <2>2. CASE Tracks(e) = FALSE
    <3>1. e.type = "message_stop"
      BY <2>2, <1>1, LineFacts
    <3>2. g = h
      BY <3>1 DEF Answers!HeardEvent
    <3>3. Answers!Flush(r) = r
      BY <1>8, <2>2, FlushWell
    <3> QED
      BY <3>2, <3>3, <1>2, <1>8
  <2> QED
    BY <2>1, <2>2, <1>4
<1>10. Underway(r, e, Answers!BlankLine(e), w, k + 1, over, more)
  <2>1. IF k + 1 < Len(w) THEN w[(k + 1) + 1] = Answers!BlankLine(e) ELSE over
    <3>1. CASE k + 1 < Len(w)
      <4>1. Comes(w[k + 1], w[(k + 1) + 1])
        BY <3>1, <1>1 DEF Sequel
      <4> QED
        BY <3>1, <4>1 DEF Comes
    <3>2. CASE ~(k + 1 < Len(w))
      <4>1. k + 1 = Len(w) /\ w # << >>
        BY <3>2, <1>1
      <4> QED
        BY <4>1, <3>2 DEF Sequel
    <3> QED
      BY <3>1, <3>2
  <2>2. e.type \in Answers!Terminal => ~more
    BY <1>1 DEF Sequel
  <2> QED
    BY <2>1, <2>2, <1>8 DEF Underway
<1>11. AfterData(r, w, k + 1, over, more)
  BY <1>1, <1>8, <1>10 DEF AfterData
<1> QED
  BY <1>5, <1>8, <1>9, <1>11 DEF Reading

LEMMA BlankLineRead ==
  ASSUME NEW p, NEW h, NEW w, NEW k \in Nat, NEW over \in BOOLEAN, NEW more \in BOOLEAN,
         Sequel(w, over, more), k < Len(w), Reading(p, h, w, k, over, more),
         w[k + 1].kind = "blank"
  PROVE  Reading(Answers!Line(p, w[k + 1]), h, w, k + 1, over, more)
<1> DEFINE l == w[k + 1]
           r == Answers!Line(p, l)
<1>1. /\ w \in Seq(LinesOf) /\ Len(w) \in Nat /\ k + 1 \in 1 .. Len(w) /\ l \in LinesOf
      /\ w # << >>
  BY LineFacts DEF Sequel
<1>2. /\ p \in Parsers /\ h \in Hearings /\ InStep(Answers!Flush(p), h)
      /\ AfterData(p, w, k, over, more)
  BY LineFacts DEF Reading, Between, AfterName, Underway
<1>3. PICK e \in Answers!Events :
        /\ p.collecting = Tracks(e) /\ p.data = IF Tracks(e) THEN <<e>> ELSE << >>
        /\ Underway(p, e, Answers!BlankLine(e), w, k, over, more)
  BY <1>2 DEF AfterData
<1>4. l = Answers!BlankLine(e) /\ l.of = e /\ l.kind = "blank" /\ Tracks(e) \in BOOLEAN
  BY <1>3, LineFacts DEF Underway
<1>5. r = Answers!Flush(p)
  BY <1>4 DEF Answers!Line, Answers!Flush
<1>6. /\ r \in Parsers /\ r.collecting = FALSE /\ r.data = << >>
      /\ Finished(r) => e.type \in Answers!Terminal
  <2>1. CASE Tracks(e) = TRUE
    <3> DEFINE a == Answers!Handled(p, e)
               c == Answers!Cleared(a)
    <3>1. r = c
      BY <1>3, <1>2, <1>5, <2>1, FlushWell
    <3>2. a \in Parsers /\ a.stop = p.stop
          /\ (a.completed = TRUE => p.completed = TRUE \/ e.type \in {"completed", "failed"})
      <4>1. PICK x \in Hearings : InStep(p, x)
        <5> DEFINE x == [open |-> OpenBlocks(p), last |-> p.final, first |-> p.partial]
        <5>1. x \in Hearings /\ InStep(p, x)
          BY <1>2 DEF Hearings, InStep, Parsers, OpenBlocks
        <5> QED
          BY <5>1
      <4>2. HandledWell(p, a, e)
        BY <4>1, <1>2, HandledKeepsStep
      <4> QED
        BY <4>2 DEF HandledWell
    <3> HIDE DEF a
    <3>3. /\ c \in Parsers /\ c.collecting = FALSE /\ c.data = << >>
          /\ c.stop = a.stop /\ c.completed = a.completed
      BY <3>2, ClearedWell
    <3> QED
      BY <3>1, <3>2, <3>3, <1>3 DEF Finished, Underway, Answers!Terminal
  <2>2. CASE Tracks(e) = FALSE
    <3>1. r = p
      BY <1>3, <1>2, <1>5, <2>2, FlushWell
    <3> QED
      BY <3>1, <2>2, <1>2, <1>3 DEF Finished, Underway, Answers!Terminal
  <2> QED
    BY <2>1, <2>2, <1>4
<1>7. InStep(Answers!Flush(r), h)
  <2>1. Answers!Flush(r) = r
    BY <1>6, FlushWell
  <2> QED
    BY <2>1, <1>2, <1>5
<1> HIDE DEF r
<1>8. Between(r, w, k + 1, more)
  <2>1. k + 1 < Len(w) => Comes(l, w[(k + 1) + 1])
    BY <1>1 DEF Sequel
  <2>2. e.type \in Answers!Terminal => ~(k + 1 < Len(w)) /\ ~more
    BY <2>1, <1>3, <1>4 DEF Comes, Underway
  <2>3. k + 1 < Len(w) => w[(k + 1) + 1].kind \in {"event", "data"}
    BY <2>1, <1>4 DEF Comes
  <2> QED
    BY <2>2, <2>3, <1>1, <1>6 DEF Between
<1> QED
  BY <1>2, <1>6, <1>7, <1>8 DEF Reading, r

\* A chunk is read line by line.
LEMMA ChunkRead ==
  ASSUME NEW p, NEW h, NEW w, NEW over \in BOOLEAN, NEW more \in BOOLEAN,
         Sequel(w, over, more), Reading(p, h, w, 0, over, more), NEW n \in 0 .. Len(w)
  PROVE  Reading(Answers!Lines(p, SubSeq(w, 1, n)), Answers!Heard(h, SubSeq(w, 1, n)),
                 w, n, over, more)
<1> DEFINE ls == SubSeq(w, 1, n)
<1>1. /\ w \in Seq(LinesOf) /\ Len(w) \in Nat /\ n \in Nat /\ ls \in Seq(LinesOf) /\ Len(ls) = n
      /\ \A k \in 0 .. n - 1 : ls[k + 1] = w[k + 1]
  BY DEF Sequel
<1> HIDE DEF ls
<1>2. PICK a : OneByOne(a, "parser", p, ls) /\ Answers!Lines(p, ls) = a[Len(ls)]
  BY <1>1, LinesOneByOne
<1>3. PICK b : OneByOne(b, "heard", h, ls) /\ Answers!Heard(h, ls) = b[Len(ls)]
  BY <1>1, HeardOneByOne
<1> DEFINE S == {k \in 0 .. n : Reading(a[k], b[k], w, k, over, more)}
<1>4. 0 \in S
  BY <1>1, <1>2, <1>3 DEF OneByOne
<1>5. ASSUME NEW k \in 0 .. n - 1, k \in S
      PROVE  k + 1 \in S
  <2> DEFINE l == w[k + 1]
  <2>1. /\ k \in Nat /\ k < Len(w) /\ k + 1 \in 0 .. n /\ k + 1 \in 1 .. Len(w)
        /\ Reading(a[k], b[k], w, k, over, more)
    BY <1>1, <1>5
  <2>2. a[k + 1] = Answers!Line(a[k], l)
    <3>1. a[k + 1] = LineStep("parser", a[k], ls[k + 1])
      BY <1>1, <1>2 DEF OneByOne
    <3> QED
      BY <3>1, <1>1 DEF LineStep
  <2>3. b[k + 1] = IF l.kind = "data" THEN Answers!HeardEvent(b[k], l.of) ELSE b[k]
    <3>1. b[k + 1] = LineStep("heard", b[k], ls[k + 1])
      BY <1>1, <1>3 DEF OneByOne
    <3> QED
      BY <3>1, <1>1 DEF LineStep
  <2>4. l.kind \in {"event", "data", "blank"}
    BY <1>1, <2>1, LineFacts
  <2>5. CASE l.kind = "event"
    BY <2>1, <2>2, <2>3, <2>5, EventLine
  <2>6. CASE l.kind = "data"
    BY <2>1, <2>2, <2>3, <2>6, DataLineRead
  <2>7. CASE l.kind = "blank"
    BY <2>1, <2>2, <2>3, <2>7, BlankLineRead
  <2> QED
    BY <2>4, <2>5, <2>6, <2>7
<1>6. n \in S
  <2> HIDE DEF S
  <2> QED
    BY <1>1, <1>4, <1>5, UpTo
<1> QED
  BY <1>1, <1>2, <1>3, <1>6 DEF ls

\* What is left of the lines is read from their start.
LEMMA RestRead ==
  ASSUME NEW p, NEW h, NEW w, NEW over \in BOOLEAN, NEW more \in BOOLEAN, NEW n \in 0 .. Len(w),
         Sequel(w, over, more), Reading(p, h, w, n, over, more)
  PROVE  LET rest == SubSeq(w, n + 1, Len(w)) IN
         Sequel(rest, over, more) /\ Reading(p, h, rest, 0, over, more)
<1> DEFINE rest == SubSeq(w, n + 1, Len(w))
<1>1. /\ w \in Seq(LinesOf) /\ Len(w) \in Nat /\ n \in Nat /\ n <= Len(w)
      /\ rest \in Seq(LinesOf) /\ Len(rest) = Len(w) - n
      /\ \A k \in 1 .. Len(w) - n : rest[k] = w[n + k]
  BY DEF Sequel
<1> HIDE DEF rest
<1>2. Sequel(rest, over, more)
  <2>1. ASSUME NEW k \in 1 .. Len(rest) - 1 PROVE Comes(rest[k], rest[k + 1])
    <3>1. /\ n + k \in 1 .. Len(w) - 1 /\ n + (k + 1) = (n + k) + 1
          /\ k \in 1 .. Len(w) - n /\ k + 1 \in 1 .. Len(w) - n
      BY <1>1
    <3>2. rest[k] = w[n + k] /\ rest[k + 1] = w[n + (k + 1)]
      BY <3>1, <1>1
    <3> QED
      BY <3>1, <3>2 DEF Sequel
  <2>2. ASSUME NEW k \in 1 .. Len(rest) PROVE rest[k].of.type \in Answers!Terminal => ~more
    <3>1. n + k \in 1 .. Len(w) /\ rest[k] = w[n + k]
      BY <1>1
    <3> QED
      BY <3>1 DEF Sequel
  <2>3. rest # << >> => w # << >> /\ rest[Len(rest)] = w[Len(w)]
    <3>1. rest # << >> => Len(rest) \in 1 .. Len(w) - n
      BY <1>1
    <3> QED
      BY <3>1, <1>1
  <2> QED
    BY <2>1, <2>2, <2>3, <1>1 DEF Sequel
<1>3. /\ 0 < Len(rest) <=> n < Len(w)
      /\ n < Len(w) => rest[0 + 1] = w[n + 1]
      /\ 0 = Len(rest) <=> n = Len(w)
  BY <1>1
<1>4. \A e, next : Underway(p, e, next, w, n, over, more) => Underway(p, e, next, rest, 0, over, more)
  BY <1>3 DEF Underway
<1>5. Between(p, w, n, more) => Between(p, rest, 0, more)
  BY <1>3 DEF Between
<1>6. Reading(p, h, rest, 0, over, more)
  BY <1>4, <1>5 DEF Reading, AfterName, AfterData
<1> QED
  BY <1>2, <1>6 DEF rest

LEMMA FlushType ==
  ASSUME NEW p, NEW h, NEW w, NEW k, NEW over \in BOOLEAN, NEW more \in BOOLEAN,
         Reading(p, h, w, k, over, more)
  PROVE  /\ Answers!Flush(p) \in Parsers
         /\ Finished(p) => Answers!Flush(p) = p
<1>1. p \in Parsers
  BY DEF Reading
<1>2. CASE p.data = << >>
  BY <1>1, <1>2, FlushWell
<1>3. CASE p.data # << >>
  <2>1. AfterData(p, w, k, over, more)
    BY <1>3 DEF Reading, Between, AfterName
  <2>2. PICK e \in Answers!Events :
          /\ p.collecting = Tracks(e) /\ p.data = IF Tracks(e) THEN <<e>> ELSE << >>
          /\ Underway(p, e, Answers!BlankLine(e), w, k, over, more)
    BY <2>1 DEF AfterData
  <2>3. Tracks(e) = TRUE /\ p.collecting = TRUE /\ p.data = <<e>>
    BY <1>3, <2>2, LineFacts
  <2>4. ~Finished(p)
    BY <2>2, <2>3 DEF Underway, Tracks, Answers!Tracked
  <2> DEFINE a == Answers!Handled(p, e)
             x == [open |-> OpenBlocks(p), last |-> p.final, first |-> p.partial]
  <2>5. x \in Hearings /\ InStep(p, x)
    BY <1>1 DEF Hearings, InStep, Parsers, OpenBlocks
  <2>6. HandledWell(p, a, e)
    BY <2>5, <1>1, HandledKeepsStep
  <2> HIDE DEF a
  <2>7. Answers!Cleared(a) \in Parsers
    BY <2>6, ClearedWell DEF HandledWell
  <2> QED
    BY <1>1, <2>3, <2>4, <2>7, FlushWell DEF a
<1> QED
  BY <1>2, <1>3

\* The upstream adds whole events to what it has sent.
LEMMA SentWhole ==
  ASSUME NEW w, NEW e \in Answers!Events, Sequel(w, FALSE, TRUE),
         NEW new, NEW more \in BOOLEAN, more => e.type \notin Answers!Terminal,
         \/ new = <<Answers!TypeLine(e), Answers!DataLine(e), Answers!BlankLine(e)>>
         \/ new = <<Answers!DataLine(e), Answers!BlankLine(e)>>
  PROVE  Sequel(w \o new, FALSE, more)
<1> DEFINE v == w \o new
           n == Len(w)
<1>1. w \in Seq(LinesOf) /\ n \in Nat
  BY DEF Sequel
<1>2. /\ Answers!TypeLine(e) \in LinesOf /\ Answers!DataLine(e) \in LinesOf
      /\ Answers!BlankLine(e) \in LinesOf
  BY DEF Answers!TypeLine, Answers!DataLine, Answers!BlankLine, LinesOf
<1>3. /\ new \in Seq(LinesOf) /\ Len(new) \in {2, 3} /\ Len(new) \in Nat
      /\ \A k \in 1 .. Len(new) : new[k].of = e
      /\ \A k \in 1 .. Len(new) - 1 : Comes(new[k], new[k + 1])
      /\ new[1].kind \in {"event", "data"} /\ new[Len(new)].kind = "blank"
  <2>1. CASE new = <<Answers!TypeLine(e), Answers!DataLine(e), Answers!BlankLine(e)>>
    <3>1. /\ new \in Seq(LinesOf) /\ Len(new) = 3 /\ new[1] = Answers!TypeLine(e)
          /\ new[2] = Answers!DataLine(e) /\ new[3] = Answers!BlankLine(e)
      BY <2>1, <1>2
    <3>2. Comes(new[1], new[2]) /\ Comes(new[2], new[3])
      BY <3>1, LineFacts DEF Comes
    <3>3. \A k \in 1 .. 3 : new[k].of = e
      BY <3>1, LineFacts
    <3> QED
      BY <3>1, <3>2, <3>3, LineFacts
  <2>2. CASE new = <<Answers!DataLine(e), Answers!BlankLine(e)>>
    <3>1. /\ new \in Seq(LinesOf) /\ Len(new) = 2 /\ new[1] = Answers!DataLine(e)
          /\ new[2] = Answers!BlankLine(e)
      BY <2>2, <1>2
    <3>2. Comes(new[1], new[2])
      BY <3>1, LineFacts DEF Comes
    <3>3. \A k \in 1 .. 2 : new[k].of = e
      BY <3>1, LineFacts
    <3> QED
      BY <3>1, <3>2, <3>3, LineFacts
  <2> QED
    BY <2>1, <2>2
<1>4. /\ v \in Seq(LinesOf) /\ Len(v) = n + Len(new)
      /\ \A k \in 1 .. n : v[k] = w[k]
      /\ \A k \in 1 .. Len(new) : v[n + k] = new[k]
  BY <1>1, <1>3
<1> HIDE DEF v
<1>6. ASSUME NEW k \in 1 .. Len(v) - 1 PROVE Comes(v[k], v[k + 1])
  <2>1. CASE k < n
    <3>1. k \in 1 .. n - 1 /\ k \in 1 .. n /\ k + 1 \in 1 .. n
      BY <2>1, <1>1
    <3>2. v[k] = w[k] /\ v[k + 1] = w[k + 1]
      BY <3>1, <1>4
    <3> QED
      BY <3>1, <3>2 DEF Sequel
  <2>2. CASE k = n
    <3>1. n \in 1 .. n /\ w # << >> /\ 1 \in 1 .. Len(new)
      BY <2>2, <1>1, <1>3
    <3>2. v[k] = w[n] /\ v[k + 1] = new[1]
      BY <2>2, <3>1, <1>4
    <3>3. w[n].kind = "blank" /\ w[n].of.type \notin Answers!Terminal
      BY <3>1 DEF Sequel
    <3> QED
      BY <3>2, <3>3, <1>3 DEF Comes
  <2>3. CASE k > n
    <3>1. /\ k - n \in 1 .. Len(new) - 1 /\ n + (k - n) = k /\ n + ((k - n) + 1) = k + 1
          /\ k - n \in 1 .. Len(new) /\ (k - n) + 1 \in 1 .. Len(new)
      BY <2>3, <1>1, <1>3, <1>4
    <3>2. v[n + (k - n)] = new[k - n] /\ v[n + ((k - n) + 1)] = new[(k - n) + 1]
      BY <3>1, <1>4
    <3>3. Comes(new[k - n], new[(k - n) + 1])
      BY <3>1, <1>3
    <3> QED
      BY <3>1, <3>2, <3>3
  <2> QED
    BY <2>1, <2>2, <2>3, <1>1, <1>4
<1>7. ASSUME NEW k \in 1 .. Len(v) PROVE v[k].of.type \in Answers!Terminal => ~more
  <2>1. CASE k <= n
    <3>1. k \in 1 .. n /\ v[k] = w[k]
      BY <2>1, <1>4
    <3> QED
      BY <3>1 DEF Sequel
  <2>2. CASE ~(k <= n)
    <3>1. k - n \in 1 .. Len(new) /\ n + (k - n) = k
      BY <2>2, <1>1, <1>3, <1>4
    <3>2. v[n + (k - n)] = new[k - n] /\ new[k - n].of = e
      BY <3>1, <1>3, <1>4
    <3> QED
      BY <3>1, <3>2
  <2> QED
    BY <2>1, <2>2
<1>8. v[Len(v)].kind = "blank"
  <2>1. Len(new) \in 1 .. Len(new)
    BY <1>3
  <2>2. v[n + Len(new)] = new[Len(new)]
    BY <2>1, <1>4
  <2> QED
    BY <2>2, <1>3, <1>4
<1> QED
  BY <1>4, <1>6, <1>7, <1>8 DEF Sequel, v

-----------------------------------------------------------------------------
(* The reading of an answer, step by step.                                  *)

\* What is on the wire is the rest of what is being read.
StreamInv ==
  /\ verdict = Answers!Absent =>
       /\ Sequel(wire, ended # "no", sends # "nothing")
       /\ Reading(parser, heard, wire, 0, ended # "no", sends # "nothing")
  /\ Answers!UsageIsWhatWasSaid /\ Answers!CompleteIsClosed

\* The upstream sends an event behind what is on the wire.
LEMMA SentRead ==
  ASSUME NEW p, NEW h, NEW w, NEW v, NEW more \in BOOLEAN,
         Sequel(w, FALSE, TRUE), Reading(p, h, w, 0, FALSE, TRUE), Sequel(v, FALSE, more),
         0 < Len(w) => 0 < Len(v) /\ v[1] = w[1],
         ~(0 < Len(w)) => 0 < Len(v) /\ v[1].kind \in {"event", "data"}
  PROVE  Reading(p, h, v, 0, FALSE, more)
<1>0. Len(w) \in Nat /\ Len(v) \in Nat /\ 0 + 1 = 1
  BY DEF Sequel
<1>1. CASE Between(p, w, 0, TRUE)
  <2>1. Between(p, v, 0, more)
    <3>1. ~Finished(p) /\ p.collecting = FALSE /\ p.data = << >>
      BY <1>1 DEF Between
    <3>2. v[0 + 1].kind \in {"event", "data"}
      BY <1>0, <1>1 DEF Between
    <3> QED
      BY <3>1, <3>2 DEF Between
  <2> QED
    BY <2>1 DEF Reading
<1>2. ASSUME NEW e, NEW next, Underway(p, e, next, w, 0, FALSE, TRUE)
      PROVE  Underway(p, e, next, v, 0, FALSE, more)
  <2>1. 0 < Len(w) /\ w[0 + 1] = next /\ e.type \notin Answers!Terminal
    BY <1>2 DEF Underway
  <2>2. 0 < Len(v) /\ v[0 + 1] = next
    BY <2>1, <1>0
  <2> QED
    BY <2>1, <2>2, <1>2 DEF Underway
<1>3. CASE AfterName(p, w, 0, FALSE, TRUE)
  <2>1. AfterName(p, v, 0, FALSE, more)
    BY <1>2, <1>3 DEF AfterName
  <2> QED
    BY <2>1 DEF Reading
<1>4. CASE AfterData(p, w, 0, FALSE, TRUE)
  <2>1. AfterData(p, v, 0, FALSE, more)
    BY <1>2, <1>4 DEF AfterData
  <2> QED
    BY <2>1 DEF Reading
<1> QED
  BY <1>1, <1>3, <1>4 DEF Reading

\* The body ends after any line.
LEMMA CutRead ==
  ASSUME NEW p, NEW h, NEW w, NEW more \in BOOLEAN, NEW n \in 0 .. Len(w),
         Sequel(w, FALSE, more), Reading(p, h, w, 0, FALSE, more)
  PROVE  LET v == SubSeq(w, 1, n) IN Sequel(v, TRUE, more) /\ Reading(p, h, v, 0, TRUE, more)
<1> DEFINE v == SubSeq(w, 1, n)
<1>1. /\ w \in Seq(LinesOf) /\ Len(w) \in Nat /\ n \in Nat /\ n <= Len(w)
      /\ v \in Seq(LinesOf) /\ Len(v) = n
      /\ \A k \in 1 .. n : v[k] = w[k]
  BY DEF Sequel
<1> HIDE DEF v
<1>2. Sequel(v, TRUE, more)
  <2>1. ASSUME NEW k \in 1 .. Len(v) - 1 PROVE Comes(v[k], v[k + 1])
    <3>1. k \in 1 .. n /\ k + 1 \in 1 .. n /\ k \in 1 .. Len(w) - 1
      BY <1>1
    <3>2. v[k] = w[k] /\ v[k + 1] = w[k + 1]
      BY <3>1, <1>1
    <3> QED
      BY <3>1, <3>2 DEF Sequel
  <2>2. ASSUME NEW k \in 1 .. Len(v) PROVE v[k].of.type \in Answers!Terminal => ~more
    <3>1. k \in 1 .. n /\ k \in 1 .. Len(w)
      BY <1>1
    <3> QED
      BY <3>1, <1>1 DEF Sequel
  <2> QED
    BY <2>1, <2>2, <1>1 DEF Sequel
<1>3. 0 < Len(v) => 0 < Len(w) /\ v[0 + 1] = w[0 + 1]
  BY <1>1
<1>4. ASSUME NEW e, NEW next, Underway(p, e, next, w, 0, FALSE, more)
      PROVE  Underway(p, e, next, v, 0, TRUE, more)
  BY <1>3, <1>4 DEF Underway
<1>5. ASSUME Between(p, w, 0, more) PROVE Between(p, v, 0, more)
  <2>1. 0 = Len(w) => 0 = Len(v)
    BY <1>1
  <2> QED
    BY <2>1, <1>3, <1>5 DEF Between
<1>6. Reading(p, h, v, 0, TRUE, more)
  BY <1>4, <1>5 DEF Reading, AfterName, AfterData
<1> QED
  BY <1>2, <1>6 DEF v

\* The usage of a parser in step is what was said, and the parser judges a stream to be
\* complete only when it has heard of the end of every block.
LEMMA Judgement ==
  ASSUME NEW p \in Parsers, NEW h \in Hearings, InStep(p, h), NEW err \in BOOLEAN
  PROVE  /\ Answers!Judged(p, err) # Answers!Absent
         /\ Answers!Judged(p, err) = "complete" =>
              err = FALSE /\ (~p.responses => h.open = {} /\ p.start)
         /\ LET said == IF h.last = Answers!NoUsage THEN h.first ELSE h.last IN
            /\ Answers!Usage(p) = said
            /\ \/ Answers!FinalUsage(p) = said
               \/ Answers!FinalUsage(p) = Answers!NoUsage /\ said = Answers!Zero
<1>1. p.final = h.last /\ p.partial = h.first /\ (p.protocol = FALSE => h.open = OpenBlocks(p))
  BY DEF InStep
<1>2. Answers!Complete(p) /\ ~p.responses => p.start /\ p.protocol = FALSE /\ OpenBlocks(p) = {}
  BY DEF Answers!Complete, Answers!SomeOpen, OpenBlocks, Parsers
<1>3. Answers!Judged(p, err) \in {"api_error", "complete", "incomplete"}
      /\ (Answers!Judged(p, err) = "complete" => err = FALSE /\ Answers!Complete(p))
  BY DEF Answers!Judged
<1>4. Answers!Judged(p, err) # Answers!Absent
  BY <1>3 DEF Answers!Absent
<1> QED
  BY <1>1, <1>2, <1>3, <1>4 DEF Answers!Usage, Answers!FinalUsage

LEMMA StreamBegins == MCInit => StreamInv
<1> SUFFICES ASSUME MCInit PROVE StreamInv
  OBVIOUS
<1> DEFINE p == Answers!NewTokenParser
           h == [open |-> {}, last |-> Answers!NoUsage, first |-> Answers!NoUsage]
<1>1. /\ wire = << >> /\ ended = "no" /\ parser = p /\ heard = h
      /\ verdict = Answers!Absent
  BY DEF MCInit, Answers!Init
<1>2. Answers!NoUsage \in TokenCounts
  BY DEF Answers!NoUsage, TokenCounts
<1>3. /\ p \in Parsers /\ p.data = << >> /\ p.collecting = FALSE /\ p.stop = FALSE
      /\ p.completed = FALSE /\ p.final = h.last /\ p.partial = h.first
      /\ OpenBlocks(p) = {}
  BY <1>2 DEF Answers!NewTokenParser, Parsers, OpenBlocks, Answers!Absent
<1>4. h \in Hearings /\ h.open = {}
  BY <1>2 DEF Hearings
<1> HIDE DEF p, h
<1>5. Answers!Flush(p) = p /\ InStep(p, h)
  BY <1>3, <1>4, FlushWell DEF InStep
<1>6. /\ << >> \in Seq(LinesOf) /\ Len(<< >>) = 0 /\ 1 .. 0 - 1 = {} /\ 1 .. 0 = {}
  OBVIOUS
<1>7. Between(p, << >>, 0, sends # "nothing")
  BY <1>3, <1>6 DEF Between, Finished
<1>8. Sequel(<< >>, FALSE, sends # "nothing")
  BY <1>6 DEF Sequel
<1>9. Reading(p, h, << >>, 0, FALSE, sends # "nothing")
  BY <1>3, <1>4, <1>5, <1>7 DEF Reading
<1>10. (ended # "no") = FALSE
  BY <1>1
<1>11. Answers!UsageIsWhatWasSaid /\ Answers!CompleteIsClosed
  BY <1>1 DEF Answers!UsageIsWhatWasSaid, Answers!CompleteIsClosed, Answers!Absent
<1> QED
  BY <1>1, <1>8, <1>9, <1>10, <1>11 DEF StreamInv

\* One step of the reading of the answer.
LEMMA StreamSteps == StreamInv /\ Answers!Next => StreamInv'
<1> SUFFICES ASSUME StreamInv, Answers!Next PROVE StreamInv'
  OBVIOUS
<1> DEFINE over == ended # "no"
           more == sends # "nothing"
<1>0. verdict = Answers!Absent
  BY DEF Answers!Next, Answers!Emit, Answers!Stop, Answers!ClientLeaves, Answers!Read,
         Answers!ReadEnds, Answers!ReadBreaks
<1>1. Sequel(wire, over, more) /\ Reading(parser, heard, wire, 0, over, more)
  BY <1>0 DEF StreamInv
<1>2. ASSUME verdict' = verdict PROVE (Answers!UsageIsWhatWasSaid /\ Answers!CompleteIsClosed)'
  BY <1>0, <1>2 DEF Answers!UsageIsWhatWasSaid, Answers!CompleteIsClosed, Answers!Absent
<1>3. ASSUME NEW e \in Answers!Events, NEW named \in BOOLEAN, Answers!Emit(e, named)
      PROVE  StreamInv'
  <2> DEFINE new == (IF named THEN <<Answers!TypeLine(e)>> ELSE << >>)
                    \o <<Answers!DataLine(e), Answers!BlankLine(e)>>
  <2>1. /\ ended = "no" /\ ended' = ended /\ verdict' = verdict /\ parser' = parser
        /\ heard' = heard /\ wire' = (wire \o (IF named THEN <<Answers!TypeLine(e)>> ELSE << >>))
                                     \o <<Answers!DataLine(e), Answers!BlankLine(e)>>
        /\ sends \in {"claude", "responses"}
        /\ sends' = IF e.type \in Answers!Terminal THEN "nothing" ELSE sends
    BY <1>3 DEF Answers!Emit
  <2>2. over = FALSE /\ over' = FALSE /\ more = TRUE /\ more' \in BOOLEAN
        /\ (more' => e.type \notin Answers!Terminal)
    BY <2>1
  <2>3. wire \in Seq(LinesOf)
    BY <1>1 DEF Sequel
  <2>4. PICK x : /\ wire' = wire \o x
                 /\ \/ x = <<Answers!TypeLine(e), Answers!DataLine(e), Answers!BlankLine(e)>>
                    \/ x = <<Answers!DataLine(e), Answers!BlankLine(e)>>
    <3>1. CASE named = TRUE
      <4> DEFINE x == <<Answers!TypeLine(e), Answers!DataLine(e), Answers!BlankLine(e)>>
      <4>1. wire' = wire \o x
        BY <2>1, <2>3, <3>1
      <4> QED
        BY <4>1
    <3>2. CASE named = FALSE
      <4> DEFINE x == <<Answers!DataLine(e), Answers!BlankLine(e)>>
      <4>1. wire' = wire \o x
        BY <2>1, <2>3, <3>2
      <4> QED
        BY <4>1
    <3> QED
      BY <3>1, <3>2
  <2>5. Sequel(wire, FALSE, TRUE) /\ Reading(parser, heard, wire, 0, FALSE, TRUE)
    BY <1>1, <2>2
  <2>6. Sequel(wire', FALSE, more')
    BY <2>2, <2>4, <2>5, SentWhole
  <2>7. /\ Len(wire) \in Nat /\ Len(x) \in {2, 3} /\ Len(wire \o x) = Len(wire) + Len(x)
        /\ 0 < Len(wire) => (wire \o x)[1] = wire[1]
        /\ Len(wire) = 0 => (wire \o x)[1] = x[1]
        /\ x[1].kind \in {"event", "data"}
    <3>1. x \in Seq(LinesOf) /\ Len(x) \in {2, 3} /\ x[1].kind \in {"event", "data"}
      <4>1. /\ Answers!TypeLine(e) \in LinesOf /\ Answers!DataLine(e) \in LinesOf
            /\ Answers!BlankLine(e) \in LinesOf
        BY DEF Answers!TypeLine, Answers!DataLine, Answers!BlankLine, LinesOf
      <4>2. x = <<Answers!DataLine(e), Answers!BlankLine(e)>> =>
              x \in Seq(LinesOf) /\ Len(x) = 2 /\ x[1] = Answers!DataLine(e)
        BY <4>1
      <4>3. x = <<Answers!TypeLine(e), Answers!DataLine(e), Answers!BlankLine(e)>> =>
              x \in Seq(LinesOf) /\ Len(x) = 3 /\ x[1] = Answers!TypeLine(e)
        BY <4>1
      <4> QED
        BY <2>4, <4>2, <4>3, LineFacts
    <3> QED
      BY <2>3, <3>1
  <2>8. /\ 0 < Len(wire) => 0 < Len(wire') /\ wire'[1] = wire[1]
        /\ ~(0 < Len(wire)) => 0 < Len(wire') /\ wire'[1].kind \in {"event", "data"}
    BY <2>4, <2>7
  <2>9. Reading(parser, heard, wire', 0, FALSE, more')
    BY <2>2, <2>5, <2>6, <2>8, SentRead
  <2> QED
    BY <1>2, <2>1, <2>2, <2>6, <2>9 DEF StreamInv
<1>4. ASSUME NEW how \in {"eof", "broken"}, Answers!Stop(how) PROVE StreamInv'
  <2>1. PICK n \in 0 .. Len(wire) : wire' = SubSeq(wire, 1, n)
    BY <1>4 DEF Answers!Stop
  <2>2. /\ over = FALSE /\ over' = TRUE /\ more' = more /\ more \in BOOLEAN
        /\ verdict' = verdict /\ parser' = parser /\ heard' = heard
    BY <1>4 DEF Answers!Stop
  <2>3. Sequel(wire, FALSE, more) /\ Reading(parser, heard, wire, 0, FALSE, more)
    BY <1>1, <2>2
  <2>4. LET v == SubSeq(wire, 1, n) IN Sequel(v, TRUE, more) /\ Reading(parser, heard, v, 0, TRUE, more)
    BY <2>2, <2>3, CutRead
  <2> QED
    BY <1>2, <2>1, <2>2, <2>4 DEF StreamInv
<1>5. ASSUME Answers!ClientLeaves PROVE StreamInv'
  <2>1. /\ verdict' = verdict /\ parser' = parser /\ heard' = heard /\ wire' = wire
        /\ ended' = ended /\ sends' = sends
    BY <1>5 DEF Answers!ClientLeaves
  <2> QED
    BY <1>1, <1>2, <2>1 DEF StreamInv
<1>6. ASSUME Answers!Read PROVE StreamInv'
  <2>1. PICK n \in 1 .. Len(wire) :
          LET chunk == SubSeq(wire, 1, n)
              rest  == SubSeq(wire, n + 1, Len(wire))
              p     == Answers!Lines(parser, chunk)
              err   == apiError \/ Answers!AnyReports(parser, chunk)
          IN /\ heard' = Answers!Heard(heard, chunk)
             /\ IF Answers!HasTerminalEvent(p)
                THEN /\ parser' = Answers!Flush(p)
                     /\ apiError' = (err \/ Answers!FlushReports(p))
                     /\ verdict' = Answers!Judged(Answers!Flush(p), apiError')
                     /\ reported' = Answers!FinalUsage(p)
                ELSE /\ parser' = p /\ wire' = rest /\ verdict' = verdict
    BY <1>6 DEF Answers!Read
  <2> DEFINE chunk == SubSeq(wire, 1, n)
             rest  == SubSeq(wire, n + 1, Len(wire))
             p     == Answers!Lines(parser, chunk)
             h     == Answers!Heard(heard, chunk)
  <2>2. heard' = h /\ sends' = sends /\ ended' = ended
    BY <1>6, <2>1 DEF Answers!Read
  <2>3. over \in BOOLEAN /\ more \in BOOLEAN /\ n \in 0 .. Len(wire)
    BY <1>1 DEF Sequel
  <2>4. Reading(p, h, wire, n, over, more)
    BY <1>1, <2>3, ChunkRead
  <2>5. CASE Answers!HasTerminalEvent(p)
    <3>1. /\ parser' = Answers!Flush(p) /\ apiError' \in BOOLEAN
          /\ verdict' = Answers!Judged(Answers!Flush(p), apiError')
          /\ reported' = Answers!FinalUsage(p)
      BY <2>1, <2>5
    <3> HIDE DEF p, h, over, more
    <3>2. p \in Parsers /\ h \in Hearings /\ InStep(Answers!Flush(p), h)
      BY <2>4 DEF Reading
    <3>3. Finished(p)
      BY <2>5, <3>2 DEF Finished, Answers!HasTerminalEvent, Parsers
    <3>4. Answers!Flush(p) = p
      BY <2>3, <2>4, <3>3, FlushType
    <3>5. InStep(p, h)
      BY <3>2, <3>4
    <3>6. /\ Answers!Judged(p, apiError') # Answers!Absent
          /\ Answers!Judged(p, apiError') = "complete" =>
               apiError' = FALSE /\ (~p.responses => h.open = {} /\ p.start)
          /\ LET said == IF h.last = Answers!NoUsage THEN h.first ELSE h.last IN
             /\ Answers!Usage(p) = said
             /\ \/ Answers!FinalUsage(p) = said
                \/ Answers!FinalUsage(p) = Answers!NoUsage /\ said = Answers!Zero
      BY <3>1, <3>2, <3>5, Judgement
    <3>7. verdict' # Answers!Absent /\ parser' = p
      BY <3>1, <3>4, <3>6
    <3>8. Answers!UsageIsWhatWasSaid'
      BY <3>1, <3>6, <2>2 DEF Answers!UsageIsWhatWasSaid, Answers!Expected
    <3>9. Answers!CompleteIsClosed'
      BY <3>1, <3>4, <3>6, <3>7, <2>2 DEF Answers!CompleteIsClosed
    <3> QED
      BY <3>7, <3>8, <3>9 DEF StreamInv
  <2>6. CASE ~Answers!HasTerminalEvent(p)
    <3>1. parser' = p /\ wire' = rest /\ verdict' = verdict
      BY <2>1, <2>6
    <3> HIDE DEF p, h
    <3>2. LET r == SubSeq(wire, n + 1, Len(wire)) IN
          Sequel(r, over, more) /\ Reading(p, h, r, 0, over, more)
      BY <1>1, <2>3, <2>4, RestRead
    <3> QED
      BY <1>2, <2>2, <3>1, <3>2 DEF StreamInv
  <2> QED
    BY <2>5, <2>6
<1>7. ASSUME Answers!ReadEnds \/ Answers!ReadBreaks PROVE StreamInv'
  <2> DEFINE q == Answers!Flush(parser)
  <2>1. q \in Parsers /\ heard \in Hearings /\ InStep(q, heard)
    BY <1>1, FlushType DEF Reading
  <2>2. parser' = q /\ heard' = heard
    BY <1>7 DEF Answers!ReadEnds, Answers!ReadBreaks
  <2> HIDE DEF q
  <2>3. CASE Answers!ReadEnds
    <3>1. /\ apiError' \in BOOLEAN /\ verdict' = Answers!Judged(q, apiError')
          /\ reported' = Answers!FinalUsage(q)
      BY <2>2, <2>3 DEF Answers!ReadEnds
    <3>2. /\ Answers!Judged(q, apiError') # Answers!Absent
          /\ Answers!Judged(q, apiError') = "complete" =>
               apiError' = FALSE /\ (~q.responses => heard.open = {} /\ q.start)
          /\ LET said == IF heard.last = Answers!NoUsage THEN heard.first ELSE heard.last IN
             /\ Answers!Usage(q) = said
             /\ \/ Answers!FinalUsage(q) = said
                \/ Answers!FinalUsage(q) = Answers!NoUsage /\ said = Answers!Zero
      BY <2>1, <3>1, Judgement
    <3>3. verdict' # Answers!Absent
      BY <3>1, <3>2
    <3>4. Answers!UsageIsWhatWasSaid'
      BY <3>1, <3>2, <2>2 DEF Answers!UsageIsWhatWasSaid, Answers!Expected
    <3>5. Answers!CompleteIsClosed'
      BY <3>1, <3>2, <2>2 DEF Answers!CompleteIsClosed
    <3> QED
      BY <3>3, <3>4, <3>5 DEF StreamInv
  <2>4. CASE Answers!ReadBreaks
    <3>1. verdict' \in {"cancelled", "error"} /\ reported' = Answers!Usage(q)
      BY <2>2, <2>4 DEF Answers!ReadBreaks
    <3>2. Answers!Usage(q) = IF heard.last = Answers!NoUsage THEN heard.first ELSE heard.last
      BY <2>1, Judgement, TRUE \in BOOLEAN
    <3>3. verdict' # Answers!Absent /\ verdict' # "complete"
      BY <3>1 DEF Answers!Absent
    <3>4. Answers!UsageIsWhatWasSaid' /\ Answers!CompleteIsClosed'
      BY <3>1, <3>2, <3>3, <2>2 DEF Answers!UsageIsWhatWasSaid, Answers!Expected, Answers!CompleteIsClosed
    <3> QED
      BY <3>3, <3>4 DEF StreamInv
  <2> QED
    BY <1>7, <2>3, <2>4
<1> QED
  BY <1>3, <1>4, <1>5, <1>6, <1>7 DEF Answers!Next

LEMMA StreamHolds == StreamInv /\ [MCNext]_allVars => StreamInv'
<1> SUFFICES ASSUME StreamInv, [MCNext]_allVars PROVE StreamInv'
  OBVIOUS
<1>1. CASE UNCHANGED answerVars
  BY <1>1 DEF StreamInv, answerVars, Answers!UsageIsWhatWasSaid, Answers!CompleteIsClosed,
              Answers!Expected
<1>2. CASE Answers!Next
  BY <1>2, StreamSteps
<1>3. UNCHANGED answerVars \/ Answers!Next
  BY DEF MCNext, allVars, RequestStep
<1> QED
  BY <1>1, <1>2, <1>3

-----------------------------------------------------------------------------
(* A whole body.  The parser that merges usage and the older one that stops *)
(* at the first usage take the same lines; they collect the same events and *)
(* differ only in what they make of the usage of one.                       *)

\* What a line of a body may be.
Spoken == {l \in [kind : {"event", "data", "blank"}, of : Answers!Events \cup Blocks] :
             l.kind # "blank" => l.of \in Answers!Events}

LEMMA SameParser ==
  /\ \A p, e : Whole!Handled(p, e) = Answers!Handled(p, e)
  /\ \A p, l : Whole!Line(p, l) = Answers!Line(p, l)
  /\ \A p : /\ Whole!Flush(p) = Answers!Flush(p) /\ Whole!Usage(p) = Answers!Usage(p)
            /\ Whole!Pending(p) = Answers!Pending(p) /\ Whole!Cleared(p) = Answers!Cleared(p)
            /\ Whole!DeltaSeen(p) = Answers!DeltaSeen(p)
  /\ \A p, e : Whole!ResponsesEvent(p, e) = Answers!ResponsesEvent(p, e)
  /\ \A t, i, u, whole : Whole!Event(t, i, u, whole) = Answers!Event(t, i, u, whole)
  /\ Whole!NewTokenParser = Answers!NewTokenParser /\ Whole!Events = Answers!Events
  /\ Whole!NoUsage = Answers!NoUsage /\ Whole!Responses = Answers!Responses
  /\ Whole!Fields = Answers!Fields /\ Whole!AnyBlock = Answers!AnyBlock
<1>1. \A p, e : Whole!Handled(p, e) = Answers!Handled(p, e)
  BY ZenonT(40) DEF Whole!Handled, Answers!Handled, Whole!MessageStart, Answers!MessageStart,
     Whole!MessageDelta, Answers!MessageDelta, Whole!DeltaSeen, Answers!DeltaSeen,
     Whole!ProtocolError, Answers!ProtocolError, Whole!SomeOpen, Answers!SomeOpen,
     Whole!Merged, Answers!Merged, Whole!NoUsage, Answers!NoUsage, Whole!Fields, Answers!Fields,
     Whole!BlockStart, Answers!BlockStart, Whole!BlockStop, Answers!BlockStop,
     Whole!BlockDelta, Answers!BlockDelta, Whole!Ending, Answers!Ending,
     Whole!ResponsesEvent, Answers!ResponsesEvent, Whole!Responses, Answers!Responses,
     Whole!Absent, Answers!Absent
<1>2. \A p : /\ Whole!Pending(p) = Answers!Pending(p) /\ Whole!Cleared(p) = Answers!Cleared(p)
             /\ Whole!Last(p.data) = Answers!Last(p.data)
             /\ Whole!DeltaSeen(p) = Answers!DeltaSeen(p) /\ Whole!Usage(p) = Answers!Usage(p)
  BY Zenon DEF Whole!Pending, Answers!Pending, Whole!Cleared, Answers!Cleared,
     Whole!Last, Answers!Last, Whole!DeltaSeen, Answers!DeltaSeen, Whole!ProtocolError,
     Answers!ProtocolError, Whole!SomeOpen, Answers!SomeOpen, Whole!Usage, Answers!Usage,
     Whole!NoUsage, Answers!NoUsage, Whole!Fields, Answers!Fields, Whole!Absent, Answers!Absent
<1>3. \A p : Whole!Flush(p) = Answers!Flush(p)
  BY <1>1, <1>2, Zenon DEF Whole!Flush, Answers!Flush
<1>4. \A p, t : Whole!Named(p, t) = Answers!Named(p, t)
  BY Zenon DEF Whole!Named, Answers!Named, Whole!ProtocolError, Answers!ProtocolError,
     Whole!SomeOpen, Answers!SomeOpen, Whole!Tracked, Answers!Tracked
<1>5. \A p, l : Whole!Line(p, l) = Answers!Line(p, l)
  BY <1>1, <1>2, <1>4, Zenon DEF Whole!Line, Answers!Line
<1>6. \A p, e : Whole!ResponsesEvent(p, e) = Answers!ResponsesEvent(p, e)
  BY Zenon DEF Whole!ResponsesEvent, Answers!ResponsesEvent, Whole!NoUsage, Answers!NoUsage,
     Whole!Fields, Answers!Fields
<1>7. \A t, i, u, whole : Whole!Event(t, i, u, whole) = Answers!Event(t, i, u, whole)
  BY Zenon DEF Whole!Event, Answers!Event
<1>8. /\ Whole!NoUsage = Answers!NoUsage /\ Whole!Responses = Answers!Responses
      /\ Whole!Fields = Answers!Fields /\ Whole!AnyBlock = Answers!AnyBlock
      /\ Whole!Absent = Answers!Absent
  BY Zenon DEF Whole!NoUsage, Answers!NoUsage, Whole!Responses, Answers!Responses, Whole!Fields,
     Answers!Fields, Whole!AnyBlock, Answers!AnyBlock, Whole!Absent, Answers!Absent
<1>9. Whole!NewTokenParser = Answers!NewTokenParser
  BY <1>8, Zenon DEF Whole!NewTokenParser, Answers!NewTokenParser
<1>10. Whole!Events = Answers!Events
  <2> DEFINE A(x, y) == {[type |-> t, block |-> b, usage |-> y, whole |-> w] :
                           t \in {"block_start", "block_delta", "block_stop"}, b \in Blocks, w \in BOOLEAN}
             B(x, y) == {[type |-> t, block |-> x, usage |-> u, whole |-> TRUE] :
                           t \in {"message_start", "message_delta", "completed"}, u \in Usages \cup {y}}
             C(x, y) == {[type |-> t, block |-> x, usage |-> y, whole |-> TRUE] :
                           t \in {"message_stop", "error", "in_progress", "failed"}}
             All(x, y) == A(x, y) \cup B(x, y) \cup C(x, y)
  <2>1. Whole!Events = All(Whole!AnyBlock, Whole!NoUsage)
    BY DEF Whole!Events, Whole!Event
  <2>2. Answers!Events = All(Answers!AnyBlock, Answers!NoUsage)
    BY DEF Answers!Events, Answers!Event
  <2> HIDE DEF All
  <2> QED
    BY <2>1, <2>2, <1>8
<1> QED
  BY <1>1, <1>2, <1>3, <1>5, <1>6, <1>7, <1>8, <1>9, <1>10, Zenon

\* An event that tells a usage, in the reading of a whole body.
Telling(e) == e.type \in {"message_delta", "completed"} /\ e.usage # Answers!NoUsage

\* A usage that was not told is -1 in every field.
Floored(p) == \A f \in Answers!Fields : p.final[f] >= -1 /\ p.partial[f] >= -1

LEMMA HandledUsage ==
  ASSUME NEW p \in Parsers, NEW e \in Answers!Events
  PROVE  LET q == Answers!Handled(p, e) IN
         /\ HandledWell(p, q, e)
         /\ Floored(p) => Floored(q)
         /\ ~Telling(e) => q.final = p.final
         /\ Telling(e) => \A f \in Answers!Fields : q.final[f] >= e.usage[f]
<1> DEFINE x == [open |-> OpenBlocks(p), last |-> p.final, first |-> p.partial]
           q == Answers!Handled(p, e)
           g == Answers!HeardEvent(x, e)
<1>1. x \in Hearings /\ InStep(p, x) /\ x.last = p.final /\ x.first = p.partial
  BY DEF Hearings, InStep, Parsers, OpenBlocks
<1>2. HandledWell(p, q, e) /\ g \in Hearings /\ InStep(q, g)
  BY <1>1, HandledKeepsStep
<1>3. q.final = g.last /\ q.partial = g.first
  BY <1>2 DEF InStep
<1>4. /\ e.type \in Kinds /\ e.usage \in TokenCounts
      /\ e.usage # Answers!NoUsage => e.usage \in [Answers!Fields -> Nat]
  BY EventFacts
<1>5. /\ p.final \in TokenCounts /\ p.partial \in TokenCounts
  BY DEF Parsers
<1> HIDE DEF q, x
<1>6. \/ g.last = p.final /\ g.first = p.partial /\ ~Telling(e)
      \/ g.last = p.final /\ g.first = e.usage /\ e.usage # Answers!NoUsage /\ ~Telling(e)
      \/ g.first = p.partial /\ g.last = Answers!Newer(p.partial, e.usage) /\ Telling(e)
      \/ g.first = p.partial /\ g.last = e.usage /\ Telling(e)
  <2>1. CASE e.type = "message_start" /\ e.usage # Answers!NoUsage
    <3>1. g = [x EXCEPT !.first = e.usage]
      BY <2>1 DEF Answers!HeardEvent
    <3> QED
      BY <3>1, <2>1, <1>1 DEF Hearings, Telling
  <2>2. CASE e.type = "message_delta" /\ e.usage # Answers!NoUsage
    <3>1. g = [x EXCEPT !.last = Answers!Newer(x.first, e.usage)]
      BY <2>2 DEF Answers!HeardEvent
    <3> QED
      BY <3>1, <2>2, <1>1 DEF Hearings, Telling
  <2>3. CASE e.type = "completed" /\ e.usage # Answers!NoUsage
    <3>1. g = [x EXCEPT !.last = e.usage]
      BY <2>3 DEF Answers!HeardEvent
    <3> QED
      BY <3>1, <2>3, <1>1 DEF Hearings, Telling
  <2>4. CASE ~(e.type \in {"message_start", "message_delta", "completed"} /\ e.usage # Answers!NoUsage)
    <3>1. g = x \/ (\E s : g = [x EXCEPT !.open = s])
      BY <2>4 DEF Answers!HeardEvent
    <3>2. g.last = x.last /\ g.first = x.first
      BY <3>1, <1>1 DEF Hearings
    <3> QED
      BY <3>2, <2>4, <1>1 DEF Telling
  <2> QED
    BY <2>1, <2>2, <2>3, <2>4
<1> HIDE DEF g
<1>7. Telling(e) => e.usage \in [Answers!Fields -> Nat]
  BY <1>4 DEF Telling
<1>8. Telling(e) => \A f \in Answers!Fields : Answers!Newer(p.partial, e.usage)[f] >= e.usage[f]
  BY <1>5, <1>7 DEF Answers!Newer, TokenCounts
<1>9. Telling(e) => \A f \in Answers!Fields : q.final[f] >= e.usage[f] /\ q.final[f] \in Int
  BY <1>2, <1>3, <1>6, <1>7, <1>8 DEF Hearings, TokenCounts
<1>10. Floored(p) => Floored(q)
  <2>1. CASE Telling(e)
    <3>1. \A f \in Answers!Fields : q.final[f] >= -1
      BY <2>1, <1>7, <1>9
    <3> QED
      BY <2>1, <3>1, <1>3, <1>6 DEF Floored
  <2>2. CASE ~Telling(e)
    BY <2>2, <1>3, <1>4, <1>6 DEF Floored
  <2> QED
    BY <2>1, <2>2
<1>11. ~Telling(e) => q.final = p.final
  BY <1>3, <1>6
<1> QED
  BY <1>2, <1>9, <1>10, <1>11 DEF q

LEMMA OldHandledUsage ==
  ASSUME NEW p \in Parsers, NEW e \in Answers!Events
  PROVE  LET q == Whole!OldHandled(p, e) IN
         q \in Parsers /\ (Telling(e) => q.final = e.usage)
<1> DEFINE q == Whole!OldHandled(p, e)
<1>0. /\ e.usage \in TokenCounts
  BY EventFacts
<1>1. CASE e.type = "message_delta"
  <2> DEFINE d == Answers!DeltaSeen(p)
             bad == Answers!SomeOpen(p)
             pe == Answers!ProtocolError(p, bad)
  <2>1. bad \in BOOLEAN
    BY DEF Answers!SomeOpen
  <2>2. pe \in Parsers
    BY <2>1, ProtocolErrorWell DEF HandledWell
  <2>3. d = [pe EXCEPT !.delta = TRUE]
    BY DEF Answers!DeltaSeen
  <2>4. q = IF e.usage = Answers!NoUsage THEN d ELSE [d EXCEPT !.final = e.usage]
    <3>1. q = Whole!DeltaAlone(p, e)
      BY <1>1 DEF Whole!OldHandled, Whole!Responses
    <3>2. /\ Whole!DeltaSeen(p) = d /\ Whole!NoUsage = Answers!NoUsage
      BY SameParser
    <3> HIDE DEF q, d
    <3> QED
      BY <3>1, <3>2, Zenon DEF Whole!DeltaAlone
  <2> HIDE DEF pe, d, q
  <2>5. d \in Parsers
    BY <2>2, <2>3 DEF Parsers
  <2>6. CASE e.usage = Answers!NoUsage
    BY <2>4, <2>5, <2>6 DEF Telling, q
  <2>7. CASE e.usage # Answers!NoUsage
    <3>1. q = [d EXCEPT !.final = e.usage]
      BY <2>4, <2>7
    <3>2. q \in Parsers /\ q.final = e.usage
      BY <3>1, <2>5, <1>0 DEF Parsers
    <3> QED
      BY <3>2 DEF q
  <2> QED
    BY <2>6, <2>7
<1>2. CASE e.type \in Answers!Responses
  <2>1. q = Answers!ResponsesEvent(p, e)
    BY <1>2, SameParser DEF Whole!OldHandled, Answers!Responses, Whole!Responses
  <2>2. Answers!ResponsesEvent(p, e) =
          [p EXCEPT !.responses = TRUE,
                    !.completed = @ \/ e.type \in {"completed", "failed"},
                    !.final = IF e.type = "completed" /\ e.usage # Answers!NoUsage
                              THEN e.usage ELSE @]
    BY Zenon DEF Answers!ResponsesEvent
  <2> DEFINE u == IF e.type = "completed" /\ e.usage # Answers!NoUsage THEN e.usage ELSE p.final
             done == p.completed \/ e.type \in {"completed", "failed"}
             r == [p EXCEPT !.responses = TRUE, !.completed = done, !.final = u]
  <2>3. u \in TokenCounts /\ done \in BOOLEAN /\ (Telling(e) => u = e.usage)
    BY <1>0, <1>2 DEF Parsers, Telling, Answers!Responses
  <2>4. q = r
    BY <2>1, <2>2 DEF Parsers
  <2> HIDE DEF q, u, done
  <2>5. r \in Parsers /\ r.final = u
    BY <2>3 DEF Parsers
  <2> QED
    BY <2>3, <2>4, <2>5 DEF q
<1>3. CASE e.type # "message_delta" /\ e.type \notin Answers!Responses
  <2>1. q = Answers!Handled(p, e)
    BY <1>3, SameParser DEF Whole!OldHandled, Answers!Responses, Whole!Responses
  <2>2. HandledWell(p, q, e)
    BY <2>1, HandledUsage
  <2> QED
    BY <2>2, <1>3 DEF HandledWell, Telling, Answers!Responses
<1> QED
  BY <1>1, <1>2, <1>3

\* The events that a parser has collected.
HeldBy(p) == {p.data[i] : i \in 1 .. Len(p.data)}

LEMMA HeldFacts ==
  ASSUME NEW p \in Parsers
  PROVE  /\ HeldBy(p) \subseteq Answers!Events
         /\ Answers!Pending(p) => Answers!Last(p.data) \in HeldBy(p)
         /\ Answers!Pending(p) \in BOOLEAN
         /\ p.data = << >> => HeldBy(p) = {}
<1>1. p.data \in Seq(Answers!Events) /\ Len(p.data) \in Nat /\ p.collecting \in BOOLEAN
  BY DEF Parsers
<1>2. Answers!Pending(p) => Len(p.data) \in 1 .. Len(p.data) /\ Answers!Last(p.data) = p.data[Len(p.data)]
  BY <1>1 DEF Answers!Pending, Answers!Last
<1> QED
  BY <1>1, <1>2 DEF HeldBy, Answers!Pending

\* A line that ends no event collects one or begins one.
LEMMA SpokenRead ==
  ASSUME NEW p \in Parsers, NEW l \in Spoken, ~(l.kind = "blank" /\ Answers!Pending(p))
  PROVE  LET q == Answers!Line(p, l) IN
         /\ q \in Parsers /\ q.final = p.final /\ q.partial = p.partial
         /\ HeldBy(q) \subseteq HeldBy(p) \cup (IF l.kind = "data" THEN {l.of} ELSE {})
         /\ l.kind = "event" => q.data = << >> /\ q.collecting = (l.of.type \in Answers!Tracked)
         /\ l.kind = "data" =>
              /\ q.collecting = (p.collecting \/ l.of.type \in Answers!Tracked)
              /\ q.data = IF p.collecting \/ l.of.type \in Answers!Tracked
                          THEN Append(p.data, l.of) ELSE p.data
         /\ l.kind = "blank" => q = p
<1> DEFINE e == l.of
           n == Answers!Named(p, e.type)
<1>0. /\ l.kind \in {"event", "data", "blank"} /\ (l.kind # "blank" => e \in Answers!Events)
      /\ p.collecting \in BOOLEAN /\ p.data \in Seq(Answers!Events)
  BY DEF Spoken, Parsers
<1>1. ASSUME e \in Answers!Events
      PROVE  /\ n \in Parsers /\ n.data = p.data /\ n.collecting = (e.type \in Answers!Tracked)
             /\ n.final = p.final /\ n.partial = p.partial
  <2>1. e.type \in Kinds
    BY <1>1, EventFacts
  <2>2. NamedAs(p, n, e.type)
    BY <2>1, NamedWell
  <2> HIDE DEF e, n
  <2> QED
    BY <2>2, Zenon DEF NamedAs
<1>2. CASE l.kind = "event"
  <2> DEFINE q == [n EXCEPT !.data = << >>]
  <2>1. Answers!Line(p, l) = q
    BY <1>2 DEF Answers!Line
  <2>2. << >> \in Seq(Answers!Events)
    OBVIOUS
  <2>3. /\ q \in Parsers /\ q.data = << >> /\ q.collecting = n.collecting
        /\ q.final = n.final /\ q.partial = n.partial
    BY <1>0, <1>1, <1>2, <2>2 DEF Parsers
  <2>4. HeldBy(q) = {}
    BY <2>3, HeldFacts
  <2> HIDE DEF q, n
  <2> QED
    BY <2>1, <2>3, <2>4, <1>0, <1>1, <1>2
<1>3. CASE l.kind = "data"
  <2> DEFINE q == IF p.collecting THEN p ELSE n
             r == IF q.collecting THEN [q EXCEPT !.data = Append(@, e)] ELSE q
  <2>1. Answers!Line(p, l) = r
    <3>1. Answers!Line(p, l) = LET s == IF p.collecting THEN p ELSE n
                               IN IF s.collecting THEN [s EXCEPT !.data = Append(@, e)] ELSE s
      BY <1>3 DEF Answers!Line
    <3> HIDE DEF n, e
    <3> QED
      BY <3>1
  <2>2. e \in Answers!Events
    BY <1>0, <1>3
  <2>3. /\ q \in Parsers /\ q.data = p.data /\ q.final = p.final /\ q.partial = p.partial
        /\ q.collecting = (p.collecting \/ e.type \in Answers!Tracked) /\ q.collecting \in BOOLEAN
    <3> HIDE DEF n, e
    <3>1. CASE p.collecting = TRUE
      BY <3>1
    <3>2. CASE p.collecting = FALSE
      <4>1. q = n /\ (e.type \in Answers!Tracked) \in BOOLEAN
        BY <3>2
      <4>2. (p.collecting \/ e.type \in Answers!Tracked) = (e.type \in Answers!Tracked)
        BY <3>2
      <4>3. /\ n \in Parsers /\ n.data = p.data /\ n.collecting = (e.type \in Answers!Tracked)
            /\ n.final = p.final /\ n.partial = p.partial
        BY <1>1, <2>2
      <4> HIDE DEF q
      <4> QED
        BY <4>1, <4>2, <4>3
    <3> QED
      BY <3>1, <3>2, <1>0
  <2> HIDE DEF q
  <2>4. Append(p.data, e) \in Seq(Answers!Events)
    BY <1>0, <2>2
  <2>5. /\ r \in Parsers /\ r.final = p.final /\ r.partial = p.partial /\ r.collecting = q.collecting
        /\ r.data = IF q.collecting THEN Append(p.data, e) ELSE p.data
    BY <2>3, <2>4 DEF Parsers
  <2> HIDE DEF r
  <2>6. HeldBy(r) \subseteq HeldBy(p) \cup {e}
    <3>1. CASE q.collecting = TRUE
      <4>1. r.data = Append(p.data, e)
        BY <2>5, <3>1
      <4>2. /\ Len(r.data) = Len(p.data) + 1 /\ Len(p.data) \in Nat /\ r.data[Len(p.data) + 1] = e
            /\ \A i \in 1 .. Len(p.data) : r.data[i] = p.data[i]
        BY <4>1, <1>0, <2>2
      <4> QED
        BY <4>2 DEF HeldBy
    <3>2. CASE q.collecting = FALSE
      BY <2>5, <3>2 DEF HeldBy
    <3> QED
      BY <3>1, <3>2, <2>3
  <2> QED
    BY <2>1, <2>3, <2>5, <2>6, <1>3
<1>4. CASE l.kind = "blank"
  BY <1>4 DEF Answers!Line
<1> QED
  BY <1>0, <1>2, <1>3, <1>4

\* A blank line ends the event that is collected.
LEMMA EventEnds ==
  ASSUME NEW p \in Parsers, Answers!Pending(p), NEW l \in Spoken, l.kind = "blank"
  PROVE  LET q == Answers!Line(p, l)  e == Answers!Last(p.data) IN
         /\ q \in Parsers /\ q.data = << >> /\ q.collecting = FALSE
         /\ e \in HeldBy(p) /\ e \in Answers!Events
         /\ Floored(p) => Floored(q)
         /\ ~Telling(e) => q.final = p.final
         /\ Telling(e) => \A f \in Answers!Fields : q.final[f] >= e.usage[f]
<1> DEFINE e == Answers!Last(p.data)
           a == Answers!Handled(p, e)
           c == Answers!Cleared(a)
<1>1. e \in HeldBy(p) /\ e \in Answers!Events
  BY HeldFacts
<1>2. Answers!Line(p, l) = c
  BY DEF Answers!Line
<1> HIDE DEF e
<1>3. /\ HandledWell(p, a, e)
      /\ Floored(p) => Floored(a)
      /\ ~Telling(e) => a.final = p.final
      /\ Telling(e) => \A f \in Answers!Fields : a.final[f] >= e.usage[f]
  BY <1>1, HandledUsage
<1> HIDE DEF a
<1>4. a \in Parsers
  BY <1>3 DEF HandledWell
<1>5. /\ c \in Parsers /\ c.data = << >> /\ c.collecting = FALSE
      /\ c.final = a.final /\ c.partial = a.partial
  BY <1>4, ClearedWell
<1> HIDE DEF c
<1> QED
  BY <1>1, <1>2, <1>3, <1>5 DEF Floored, e

\* The older parser collects the same events.
LEMMA OldRead ==
  ASSUME NEW p \in Parsers, NEW o \in Parsers, NEW l \in Spoken,
         o.data = p.data, o.collecting = p.collecting
  PROVE  LET q == Answers!Line(p, l)  r == Whole!OldLine(o, l) IN
         /\ q \in Parsers /\ r \in Parsers /\ r.data = q.data /\ r.collecting = q.collecting
         /\ l.kind = "blank" /\ Answers!Pending(o) /\ Telling(Answers!Last(o.data)) =>
              r.final = Answers!Last(o.data).usage
<1>1. Answers!Pending(o) = Answers!Pending(p) /\ Answers!Pending(o) \in BOOLEAN
  BY HeldFacts DEF Answers!Pending
<1>2. CASE l.kind = "blank" /\ Answers!Pending(o)
  <2> DEFINE e == Answers!Last(o.data)
             a == Whole!OldHandled(o, e)
             c == Answers!Cleared(a)
  <2>1. Whole!OldLine(o, l) = c
    <3>1. Whole!Pending(o) = Answers!Pending(o) /\ Whole!Cleared(a) = Answers!Cleared(a)
          /\ Whole!Last(o.data) = Answers!Last(o.data)
      BY SameParser DEF Whole!Last, Answers!Last
    <3> HIDE DEF a
    <3> QED
      BY <3>1, <1>2 DEF Whole!OldLine, a
  <2>2. e \in Answers!Events
    BY <1>2, HeldFacts
  <2> HIDE DEF e
  <2>3. a \in Parsers /\ (Telling(e) => a.final = e.usage)
    BY <2>2, OldHandledUsage
  <2> HIDE DEF a
  <2>4. c \in Parsers /\ c.data = << >> /\ c.collecting = FALSE /\ c.final = a.final
    BY <2>3, ClearedWell
  <2> DEFINE q == Answers!Line(p, l)
  <2>5. q \in Parsers /\ q.data = << >> /\ q.collecting = FALSE
    BY <1>1, <1>2, EventEnds
  <2> HIDE DEF q, c
  <2> QED
    BY <2>1, <2>3, <2>4, <2>5 DEF e, q
<1>3. CASE ~(l.kind = "blank" /\ Answers!Pending(o))
  <2> DEFINE q == Answers!Line(p, l)
             r == Answers!Line(o, l)
  <2>1. Whole!OldLine(o, l) = r
    BY <1>3, SameParser DEF Whole!OldLine
  <2>2. /\ q \in Parsers
        /\ l.kind = "event" => q.data = << >> /\ q.collecting = (l.of.type \in Answers!Tracked)
        /\ l.kind = "data" =>
             /\ q.collecting = (p.collecting \/ l.of.type \in Answers!Tracked)
             /\ q.data = IF p.collecting \/ l.of.type \in Answers!Tracked
                         THEN Append(p.data, l.of) ELSE p.data
        /\ l.kind = "blank" => q = p
    BY <1>1, <1>3, SpokenRead
  <2>3. /\ r \in Parsers
        /\ l.kind = "event" => r.data = << >> /\ r.collecting = (l.of.type \in Answers!Tracked)
        /\ l.kind = "data" =>
             /\ r.collecting = (o.collecting \/ l.of.type \in Answers!Tracked)
             /\ r.data = IF o.collecting \/ l.of.type \in Answers!Tracked
                         THEN Append(o.data, l.of) ELSE o.data
        /\ l.kind = "blank" => r = o
    BY <1>1, <1>3, SpokenRead
  <2>4. l.kind \in {"event", "data", "blank"}
    BY DEF Spoken
  <2> HIDE DEF q, r
  <2>5. r.data = q.data /\ r.collecting = q.collecting
    <3>1. CASE l.kind = "event"
      BY <3>1, <2>2, <2>3
    <3>2. CASE l.kind = "data"
      BY <3>2, <2>2, <2>3
    <3>3. CASE l.kind = "blank"
      BY <3>3, <2>2, <2>3
    <3> QED
      BY <2>4, <3>1, <3>2, <3>3
  <2>6. r \in Parsers /\ q \in Parsers
    BY <2>2, <2>3
  <2> QED
    BY <2>1, <2>5, <2>6, <1>3 DEF q
<1> QED
  BY <1>2, <1>3

\* The older parser after its first n lines is where it is after n of them all.
LEMMA OldAt ==
  ASSUME NEW T, NEW ls \in Seq(T), NEW o, OneByOne(o, "old", Whole!NewTokenParser, ls),
         NEW n \in 0 .. Len(ls)
  PROVE  Whole!OldLines(ls, n) = o[n]
<1> DEFINE q == SubSeq(ls, 1, n)
<1>0. /\ Len(ls) \in Nat /\ n \in Nat /\ Len(q) = n
      /\ \A k \in 0 .. n - 1 : q[k + 1] = ls[k + 1] /\ k \in 0 .. Len(ls) - 1
  OBVIOUS
<1>1. PICK a : OneByOne(a, "old", Whole!NewTokenParser, q) /\ Whole!OldLines(ls, n) = a[n]
  BY OldOneByOne
<1> HIDE DEF q
<1> DEFINE X == {k \in 0 .. n : a[k] = o[k]}
<1>2. 0 \in X
  BY <1>0, <1>1 DEF OneByOne
<1>3. ASSUME NEW k \in 0 .. n - 1, k \in X PROVE k + 1 \in X
  <2>1. a[k + 1] = LineStep("old", a[k], q[k + 1]) /\ o[k + 1] = LineStep("old", o[k], ls[k + 1])
    BY <1>0, <1>1 DEF OneByOne
  <2>2. a[k] = o[k] /\ q[k + 1] = ls[k + 1] /\ k + 1 \in 0 .. n
    BY <1>0, <1>3
  <2> QED
    BY <2>1, <2>2
<1> HIDE DEF X
<1>4. n \in X
  BY <1>0, <1>2, <1>3, UpTo
<1> QED
  BY <1>1, <1>4 DEF X

\* What a body tells: the lines that carry a usage the analysis reads.
ToldIn(ls) == {n \in 1 .. Len(ls) : /\ ls[n].kind = "data" /\ ls[n].of.usage # Answers!NoUsage
                                    /\ ls[n].of.type # "message_start"}

\* The streaming reader's table of a body and the older reader's, side by side: they
\* collect the same events, of lines that were read.
SideBySide(a, o, ls) ==
  \A k \in 0 .. Len(ls) :
    /\ a[k] \in Parsers /\ Floored(a[k]) /\ o[k] \in Parsers
    /\ o[k].data = a[k].data /\ o[k].collecting = a[k].collecting
    /\ \A e \in HeldBy(a[k]) : \E j \in 1 .. k : ls[j].kind = "data" /\ ls[j].of = e

LEMMA ReadSideBySide ==
  ASSUME NEW ls \in Seq(Spoken), NEW a, OneByOne(a, "whole", Whole!NewTokenParser, ls),
         NEW o, OneByOne(o, "old", Whole!NewTokenParser, ls)
  PROVE  SideBySide(a, o, ls)
<1> DEFINE p == Answers!NewTokenParser
           Good(k) == /\ a[k] \in Parsers /\ Floored(a[k]) /\ o[k] \in Parsers
                      /\ o[k].data = a[k].data /\ o[k].collecting = a[k].collecting
                      /\ \A e \in HeldBy(a[k]) : \E j \in 1 .. k : ls[j].kind = "data" /\ ls[j].of = e
           X == {k \in 0 .. Len(ls) : Good(k)}
<1>0. Len(ls) \in Nat /\ a[0] = p /\ o[0] = p
  BY SameParser DEF OneByOne
<1>1. 0 \in X
  <2>1. Answers!NoUsage \in TokenCounts /\ \A f \in Answers!Fields : Answers!NoUsage[f] >= -1
    BY DEF Answers!NoUsage, TokenCounts
  <2>2. /\ p \in Parsers /\ p.data = << >> /\ p.final = Answers!NoUsage
        /\ p.partial = Answers!NoUsage
    BY <2>1 DEF Answers!NewTokenParser, Parsers, Answers!Absent
  <2> HIDE DEF p
  <2>3. HeldBy(p) = {} /\ Floored(p)
    BY <2>1, <2>2, HeldFacts DEF Floored
  <2> QED
    BY <1>0, <2>2, <2>3
<1>2. ASSUME NEW k \in 0 .. Len(ls) - 1, k \in X PROVE k + 1 \in X
  <2> DEFINE l == ls[k + 1]
             q == Answers!Line(a[k], l)
             r == Whole!OldLine(o[k], l)
  <2>1. Good(k) /\ k \in 0 .. Len(ls) /\ k + 1 \in 1 .. Len(ls) /\ k + 1 \in 0 .. Len(ls) /\ k \in Nat
        /\ l \in Spoken
    BY <1>0, <1>2
  <2>2. a[k + 1] = q
    <3>1. a[k + 1] = LineStep("whole", a[k], ls[k + 1])
      BY <1>2 DEF OneByOne
    <3> QED
      BY <3>1, SameParser DEF LineStep
  <2>3. o[k + 1] = r
    <3>1. o[k + 1] = LineStep("old", o[k], ls[k + 1])
      BY <1>2 DEF OneByOne
    <3> QED
      BY <3>1 DEF LineStep
  <2>4. q \in Parsers /\ r \in Parsers /\ r.data = q.data /\ r.collecting = q.collecting
    BY <2>1, OldRead
  <2> HIDE DEF Good, l
  <2>5. CASE l.kind = "blank" /\ Answers!Pending(a[k])
    <3>1. q.data = << >> /\ (Floored(a[k]) => Floored(q))
      BY <2>1, <2>5, EventEnds DEF Good
    <3>2. HeldBy(q) = {}
      BY <2>4, <3>1, HeldFacts
    <3> HIDE DEF q, r
    <3>3. Good(k + 1)
      BY <2>1, <2>2, <2>3, <2>4, <3>1, <3>2 DEF Good
    <3> QED
      BY <2>1, <3>3
  <2>6. CASE ~(l.kind = "blank" /\ Answers!Pending(a[k]))
    <3>1. /\ q.final = a[k].final /\ q.partial = a[k].partial
          /\ HeldBy(q) \subseteq HeldBy(a[k]) \cup (IF l.kind = "data" THEN {l.of} ELSE {})
      BY <2>1, <2>6, SpokenRead DEF Good
    <3> HIDE DEF q, r
    <3>2. Floored(q)
      BY <2>1, <3>1 DEF Good, Floored
    <3>3. ASSUME NEW e \in HeldBy(q) PROVE \E j \in 1 .. k + 1 : ls[j].kind = "data" /\ ls[j].of = e
      <4>1. CASE e \in HeldBy(a[k])
        <5>1. PICK j \in 1 .. k : ls[j].kind = "data" /\ ls[j].of = e
          BY <2>1, <4>1 DEF Good
        <5>2. j \in 1 .. k + 1
          BY <2>1
        <5> QED
          BY <5>1, <5>2
      <4>2. CASE e \notin HeldBy(a[k])
        <5>1. l.kind = "data" /\ l.of = e /\ k + 1 \in 1 .. k + 1
          BY <2>1, <3>1, <3>3, <4>2
        <5> QED
          BY <5>1 DEF l
      <4> QED
        BY <4>1, <4>2
    <3>4. Good(k + 1)
      BY <2>2, <2>3, <2>4, <3>2, <3>3 DEF Good
    <3> QED
      BY <2>1, <3>4
  <2> QED
    BY <2>5, <2>6
<1> HIDE DEF Good
<1>3. \A k \in 0 .. Len(ls) : k \in X
  <2> HIDE DEF X
  <2> QED
    BY <1>0, <1>1, <1>2, UpTo
<1> QED
  BY <1>3 DEF SideBySide, Good

\* The line that ends the only event that tells a usage.  From there on the streaming
\* reader has at least that usage.
LEMMA KeptToTheEnd ==
  ASSUME NEW ls \in Seq(Spoken), NEW a, OneByOne(a, "whole", Whole!NewTokenParser, ls),
         NEW o, SideBySide(a, o, ls), NEW j, ToldIn(ls) = {j}, NEW m \in 1 .. Len(ls),
         ls[m].kind = "blank", Answers!Pending(a[m - 1]), Telling(Answers!Last(a[m - 1].data))
  PROVE  LET u == Answers!Last(a[m - 1].data).usage IN
         \A f \in Answers!Fields : /\ u[f] \in Nat
                                   /\ Whole!Usage(Whole!Flush(a[Len(ls)]))[f] >= u[f]
<1> DEFINE n == Len(ls)
           e == Answers!Last(a[m - 1].data)
           u == e.usage
           Kept(k) == /\ \A x \in HeldBy(a[k]) : ~Telling(x)
                      /\ \A f \in Answers!Fields : a[k].final[f] >= u[f]
           X == {k \in 0 .. n : k >= m => Kept(k)}
<1>0. /\ n \in Nat /\ m \in Nat /\ m - 1 \in 0 .. n /\ m - 1 \in 0 .. n - 1 /\ (m - 1) + 1 = m /\ m <= n
      /\ 0 < m /\ ls[m] \in Spoken
  OBVIOUS
<1>1. a[m - 1] \in Parsers /\ e \in HeldBy(a[m - 1]) /\ e \in Answers!Events
  <2>1. a[m - 1] \in Parsers
    BY <1>0 DEF SideBySide
  <2> QED
    BY <2>1, HeldFacts
<1>2. PICK i \in 1 .. m - 1 : ls[i].kind = "data" /\ ls[i].of = e
  BY <1>0, <1>1 DEF SideBySide
<1> HIDE DEF e
<1>3. \A x : Telling(x) => x.usage # Answers!NoUsage /\ x.type # "message_start"
  BY DEF Telling
<1>4. i = j
  <2>1. Telling(e)
    BY DEF e
  <2>2. i \in ToldIn(ls)
    BY <1>0, <1>2, <1>3, <2>1 DEF ToldIn
  <2> QED
    BY <2>2
<1>5. u \in [Answers!Fields -> Nat]
  BY <1>1, EventFacts DEF Telling, e
<1>6. \A k \in 0 .. n - 1 : a[k + 1] = Answers!Line(a[k], ls[k + 1])
  BY SameParser DEF OneByOne, LineStep
\* A line behind the one that told the usage tells none.
<1>7. \A k \in m .. n : ls[k].kind = "data" => ~Telling(ls[k].of)
  <2> SUFFICES ASSUME NEW k \in m .. n, ls[k].kind = "data", Telling(ls[k].of) PROVE FALSE
    OBVIOUS
  <2>1. k \in 1 .. n
    BY <1>0
  <2>2. k \in ToldIn(ls)
    BY <2>1, <1>3 DEF ToldIn
  <2>3. k = i
    BY <2>2, <1>4
  <2> QED
    BY <2>3, <1>0
<1>8. a[m].data = << >> /\ \A f \in Answers!Fields : a[m].final[f] >= u[f]
  <2> DEFINE q == Answers!Line(a[m - 1], ls[m])
  <2>1. a[m] = q
    BY <1>0, <1>6
  <2>2. /\ q.data = << >>
        /\ Telling(e) => \A f \in Answers!Fields : q.final[f] >= e.usage[f]
    BY <1>0, <1>1, EventEnds DEF e
  <2>3. Telling(e)
    BY DEF e
  <2> HIDE DEF q
  <2> QED
    BY <2>1, <2>2, <2>3
<1>9. Kept(m)
  <2>1. a[m] \in Parsers
    BY <1>0 DEF SideBySide
  <2>2. HeldBy(a[m]) = {}
    BY <2>1, <1>8, HeldFacts
  <2> QED
    BY <2>2, <1>8
<1>10. \A k \in 0 .. n : a[k] \in Parsers /\ Floored(a[k])
  BY DEF SideBySide
<1>11. ASSUME NEW p \in Parsers, NEW l \in Spoken, l.kind = "data" => ~Telling(l.of),
              \A x \in HeldBy(p) : ~Telling(x),
              \A f \in Answers!Fields : p.final[f] >= u[f]
       PROVE  LET q == Answers!Line(p, l) IN
              /\ \A x \in HeldBy(q) : ~Telling(x)
              /\ \A f \in Answers!Fields : q.final[f] >= u[f]
  <2> DEFINE q == Answers!Line(p, l)
  <2>1. CASE l.kind = "blank" /\ Answers!Pending(p)
    <3>1. /\ q \in Parsers /\ q.data = << >> /\ Answers!Last(p.data) \in HeldBy(p)
          /\ ~Telling(Answers!Last(p.data)) => q.final = p.final
      BY <2>1, EventEnds
    <3> HIDE DEF q
    <3>2. HeldBy(q) = {}
      BY <3>1, HeldFacts
    <3> QED
      BY <3>1, <3>2, <1>11 DEF q
  <2>2. CASE ~(l.kind = "blank" /\ Answers!Pending(p))
    <3>1. /\ q.final = p.final
          /\ HeldBy(q) \subseteq HeldBy(p) \cup (IF l.kind = "data" THEN {l.of} ELSE {})
      BY <2>2, SpokenRead
    <3> HIDE DEF q
    <3> QED
      BY <3>1, <1>11 DEF q
  <2> QED
    BY <2>1, <2>2
<1>12. ASSUME NEW k \in 0 .. n - 1, k \in X PROVE k + 1 \in X
  <2>0. k + 1 \in 0 .. n /\ k + 1 \in 1 .. n /\ ls[k + 1] \in Spoken /\ k \in 0 .. n
    BY <1>0
  <2>1. CASE k + 1 < m
    BY <2>0, <2>1, <1>0
  <2>2. CASE k + 1 = m
    BY <2>0, <2>2, <1>9
  <2>3. CASE k + 1 > m
    <3>1. k >= m /\ k + 1 \in m .. n
      BY <1>0, <2>0, <2>3
    <3>2. Kept(k) /\ a[k] \in Parsers /\ (ls[k + 1].kind = "data" => ~Telling(ls[k + 1].of))
      BY <3>1, <2>0, <1>7, <1>10, <1>12
    <3>3. LET q == Answers!Line(a[k], ls[k + 1]) IN
          /\ \A x \in HeldBy(q) : ~Telling(x)
          /\ \A f \in Answers!Fields : q.final[f] >= u[f]
      <4> HIDE DEF u
      <4> QED
        BY <3>2, <2>0, <1>11
    <3>4. a[k + 1] = Answers!Line(a[k], ls[k + 1])
      BY <1>6
    <3> QED
      BY <3>3, <3>4, <2>0
  <2> QED
    BY <2>0, <2>1, <2>2, <2>3, <1>0
<1>13. Kept(n)
  <2>1. 0 \in X
    BY <1>0
  <2>2. \A k \in 0 .. n : k \in X
    <3> HIDE DEF X
    <3> QED
      BY <2>1, <1>0, <1>12, UpTo
  <2> QED
    BY <2>2, <1>0
<1> DEFINE z == Answers!Flush(a[n])
<1>14. \A f \in Answers!Fields : z.final[f] >= u[f]
  <2> DEFINE b == [kind |-> "blank", of |-> e]
  <2>1. b \in Spoken /\ b.kind = "blank" /\ a[n] \in Parsers
    BY <1>0, <1>1, <1>10 DEF Spoken
  <2>2. Answers!Line(a[n], b) = z
    BY <2>1 DEF Answers!Line, Answers!Flush
  <2> HIDE DEF z, b, u
  <2>3. LET q == Answers!Line(a[n], b) IN
        /\ \A x \in HeldBy(q) : ~Telling(x)
        /\ \A f \in Answers!Fields : q.final[f] >= u[f]
    BY <2>1, <1>11, <1>13
  <2> QED
    BY <2>2, <2>3
<1>15. z.final # Answers!NoUsage
  <2>1. "input" \in Answers!Fields /\ u["input"] \in Nat /\ Answers!NoUsage["input"] = -1
    BY <1>5 DEF Answers!Fields, Answers!NoUsage
  <2>2. z.final["input"] >= u["input"]
    BY <2>1, <1>14
  <2> HIDE DEF z, u
  <2>3. SUFFICES ASSUME z.final = Answers!NoUsage PROVE FALSE
    OBVIOUS
  <2>4. -1 >= u["input"]
    BY <2>1, <2>2, <2>3
  <2> QED
    BY <2>1, <2>4
<1>16. Whole!Usage(Whole!Flush(a[n])) = z.final
  <2>1. Whole!Flush(a[n]) = z /\ Whole!Usage(z) = Answers!Usage(z)
    BY SameParser
  <2> HIDE DEF z
  <2> QED
    BY <2>1, <1>15 DEF Answers!Usage
<1> QED
  BY <1>5, <1>14, <1>16 DEF e

LEMMA CountOfBody == \A S : Whole!Cardinality(S) = Cardinality(S)
  BY DEF Whole!Cardinality, Cardinality

\* What the analysis makes of a body of text is nothing, or what its lines say as events.
LEMMA AnalyzedAs ==
  ASSUME NEW b, b.form = "text"
  PROVE  Whole!Analyzed(b) \in {Answers!NoUsage, Whole!SseUsage(b.lines)}
<1>1. Whole!Format(b) \in {"sse", "unknown"}
  BY DEF Whole!Format
<1>2. Whole!Format(b) = "sse" => Whole!Analyzed(b) = Whole!SseUsage(b.lines)
  BY DEF Whole!Analyzed
<1>3. Whole!Format(b) = "unknown" => Whole!Analyzed(b) = Whole!FallbackUsage(b)
  BY DEF Whole!Analyzed
<1>4. Whole!FallbackUsage(b) \in {Answers!NoUsage, Whole!SseUsage(b.lines)}
  BY SameParser DEF Whole!FallbackUsage
<1> QED
  BY <1>1, <1>2, <1>3, <1>4

\* The usage of a body, from the line that is the first to tell one.
LEMMA FirstToTell ==
  ASSUME NEW ls \in Seq(Spoken), NEW a, NEW o, OneByOne(o, "old", Whole!NewTokenParser, ls),
         SideBySide(a, o, ls)
  PROVE  \/ Whole!SseUsage(ls) = Answers!NoUsage
         \/ \E m \in 1 .. Len(ls) :
              /\ ls[m].kind = "blank" /\ Answers!Pending(a[m - 1])
              /\ Telling(Answers!Last(a[m - 1].data))
              /\ Whole!SseUsage(ls) = Answers!Last(a[m - 1].data).usage
<1> DEFINE telling == {n \in 1 .. Len(ls) : Whole!Tells(Whole!OldLines(ls, n - 1), ls[n])}
           m == CHOOSE n \in telling : \A k \in telling : n <= k
<1>1. Whole!SseUsage(ls) = IF telling = {} THEN Answers!NoUsage ELSE Whole!OldLines(ls, m).final
  <2>1. Whole!SseUsage(ls) = IF telling = {} THEN Whole!NoUsage ELSE Whole!OldLines(ls, m).final
    BY Zenon DEF Whole!SseUsage
  <2>2. Whole!NoUsage = Answers!NoUsage
    BY SameParser
  <2> HIDE DEF telling, m
  <2> QED
    BY <2>1, <2>2
<1>2. Len(ls) \in Nat
  OBVIOUS
<1>3. CASE telling # {}
  <2>1. m \in telling
    <3>1. telling \in SUBSET Nat
      BY <1>2
    <3>2. \E n \in telling : \A k \in telling : n <= k
      <4> HIDE DEF telling
      <4> QED
        BY <1>3, <3>1, LeastNatural
    <3> HIDE DEF telling
    <3> QED
      BY <3>2, Zenon
  <2> HIDE DEF m
  <2>2. /\ m \in 1 .. Len(ls) /\ m - 1 \in 0 .. Len(ls) /\ m - 1 \in 0 .. Len(ls) - 1
        /\ m \in 0 .. Len(ls) /\ (m - 1) + 1 = m /\ ls[m] \in Spoken
        /\ Whole!Tells(Whole!OldLines(ls, m - 1), ls[m])
    BY <1>2, <2>1
  <2> DEFINE e == Answers!Last(o[m - 1].data)
  <2>3. Whole!OldLines(ls, m - 1) = o[m - 1] /\ Whole!OldLines(ls, m) = o[m]
    BY <2>2, OldAt
  <2>4. ls[m].kind = "blank" /\ Answers!Pending(o[m - 1]) /\ Telling(e)
    <3>1. Whole!Tells(o[m - 1], ls[m])
      BY <2>2, <2>3
    <3>2. Whole!Pending(o[m - 1]) = Answers!Pending(o[m - 1]) /\ Whole!NoUsage = Answers!NoUsage
          /\ Whole!Last(o[m - 1].data) = e
      BY SameParser DEF Whole!Last, Answers!Last
    <3> QED
      BY <3>1, <3>2, Zenon DEF Whole!Tells, Telling
  <2>5. /\ a[m - 1] \in Parsers /\ o[m - 1] \in Parsers
        /\ o[m - 1].data = a[m - 1].data /\ o[m - 1].collecting = a[m - 1].collecting
    BY <2>2 DEF SideBySide
  <2>6. o[m].final = e.usage
    <3>1. o[m] = Whole!OldLine(o[m - 1], ls[m])
      <4>1. o[(m - 1) + 1] = LineStep("old", o[m - 1], ls[(m - 1) + 1])
        BY <2>2 DEF OneByOne
      <4> QED
        BY <4>1, <2>2 DEF LineStep
    <3>2. LET r == Whole!OldLine(o[m - 1], ls[m]) IN
          ls[m].kind = "blank" /\ Answers!Pending(o[m - 1]) /\ Telling(Answers!Last(o[m - 1].data)) =>
            r.final = Answers!Last(o[m - 1].data).usage
      BY <2>2, <2>5, OldRead
    <3> QED
      BY <3>1, <3>2, <2>4
  <2>7. Answers!Pending(a[m - 1]) /\ Answers!Last(a[m - 1].data) = e
    BY <2>4, <2>5 DEF Answers!Pending
  <2>8. Whole!SseUsage(ls) = e.usage
    BY <1>1, <1>3, <2>3, <2>6
  <2> HIDE DEF e
  <2> QED
    BY <2>2, <2>4, <2>7, <2>8
<1> QED
  BY <1>1, <1>3

\* A body of text of any length, with any other text between its lines: the analysis of
\* the whole bills no usage that no event told, and when one event tells the usage, no
\* more in any field than the streaming reader (parseSSEForTokens, ParseSSELine against
\* ParseSSELineV2, FlushPendingEvent).
THEOREM TextReadAsNoMore ==
  ASSUME NEW b, b.form = "text", b.lines \in Seq(Spoken)
  PROVE  Whole!NoMoreThanTheStream(b)
<1> DEFINE ls == b.lines
           told == {n \in 1 .. Len(b.lines) : b.lines[n].kind = "data"
                                               /\ b.lines[n].of.usage # Whole!NoUsage
                                               /\ b.lines[n].of.type # "message_start"}
           streamed == Whole!Usage(Whole!Flush(Whole!Lines(Whole!NewTokenParser, b.lines)))
           u == Whole!SseUsage(ls)
<1>1. PICK a : /\ OneByOne(a, "whole", Whole!NewTokenParser, ls)
               /\ Whole!Lines(Whole!NewTokenParser, ls) = a[Len(ls)]
  BY BodyOneByOne
<1>2. PICK o : OneByOne(o, "old", Whole!NewTokenParser, ls)
  <2>1. SubSeq(ls, 1, Len(ls)) = ls /\ Len(ls) \in 0 .. Len(ls)
    OBVIOUS
  <2> QED
    BY <2>1, OldOneByOne
<1>3. SideBySide(a, o, ls)
  BY <1>1, <1>2, ReadSideBySide
<1>4. \/ u = Answers!NoUsage
      \/ \E m \in 1 .. Len(ls) :
           /\ ls[m].kind = "blank" /\ Answers!Pending(a[m - 1])
           /\ Telling(Answers!Last(a[m - 1].data)) /\ u = Answers!Last(a[m - 1].data).usage
  BY <1>2, <1>3, FirstToTell
<1>5. told = ToldIn(ls)
  BY SameParser DEF ToldIn
<1>6. Whole!Analyzed(b) \in {Answers!NoUsage, u}
  BY AnalyzedAs
<1>7. Len(ls) \in Nat
  OBVIOUS
<1> HIDE DEF told, u
<1>8. told = {} => u = Answers!NoUsage
  <2> SUFFICES ASSUME told = {}, u # Answers!NoUsage PROVE FALSE
    OBVIOUS
  <2>1. PICK m \in 1 .. Len(ls) :
          /\ ls[m].kind = "blank" /\ Answers!Pending(a[m - 1])
          /\ Telling(Answers!Last(a[m - 1].data)) /\ u = Answers!Last(a[m - 1].data).usage
    BY <1>4
  <2>2. m - 1 \in 0 .. Len(ls) /\ m \in Nat /\ m <= Len(ls)
    BY <1>7
  <2>3. a[m - 1] \in Parsers
    BY <1>3, <2>2 DEF SideBySide
  <2> DEFINE e == Answers!Last(a[m - 1].data)
  <2>4. e \in HeldBy(a[m - 1])
    BY <2>1, <2>3, HeldFacts
  <2> HIDE DEF e
  <2>5. PICK j \in 1 .. m - 1 : ls[j].kind = "data" /\ ls[j].of = e
    BY <1>3, <2>2, <2>4 DEF SideBySide
  <2>6. j \in 1 .. Len(ls)
    BY <1>7, <2>2
  <2>7. e.usage # Answers!NoUsage /\ e.type # "message_start"
    BY <2>1 DEF Telling, e
  <2> QED
    BY <1>5, <2>5, <2>6, <2>7 DEF ToldIn
<1>9. ASSUME Whole!Cardinality(told) = 1, NEW f \in Whole!Fields
      PROVE  Whole!Analyzed(b)[f] <= streamed[f]
  <2>1. IsFiniteSet(told)
    <3>1. IsFiniteSet(1 .. Len(ls)) /\ told \in SUBSET (1 .. Len(ls))
      BY <1>7, FS_Interval DEF told
    <3> QED
      BY <3>1, FS_Subset
  <2>2. PICK j : told = {j}
    BY <1>9, <2>1, CountOfBody, FS_Singleton
  <2>3. f \in Answers!Fields /\ Answers!NoUsage[f] = -1
    BY <1>9, SameParser DEF Answers!NoUsage
  <2>4. streamed = Whole!Usage(Whole!Flush(a[Len(ls)]))
    BY <1>1
  <2> HIDE DEF streamed
  <2>5. streamed[f] >= -1 /\ streamed[f] \in Int
    <3> DEFINE b0 == [kind |-> "blank", of |-> Answers!AnyBlock]
               z == Answers!Line(a[Len(ls)], b0)
    <3>1. a[Len(ls)] \in Parsers /\ Floored(a[Len(ls)])
      BY <1>3, <1>7 DEF SideBySide
    <3>2. b0 \in Spoken /\ b0.kind = "blank"
      BY AnswerAssumption, Zenon DEF Spoken, Answers!AnyBlock
    <3>3. Answers!Flush(a[Len(ls)]) = z
      BY DEF Answers!Line, Answers!Flush
    <3> HIDE DEF b0
    <3>4. z \in Parsers /\ Floored(z)
      <4>1. CASE Answers!Pending(a[Len(ls)])
        BY <3>1, <3>2, <4>1, EventEnds
      <4>2. CASE ~Answers!Pending(a[Len(ls)])
        BY <3>1, <3>2, <4>2, SpokenRead DEF Floored
      <4> QED
        BY <4>1, <4>2
    <3> HIDE DEF z
    <3>5. streamed = Answers!Usage(z)
      BY <2>4, <3>3, SameParser
    <3> QED
      BY <3>4, <3>5, <2>3 DEF Answers!Usage, Floored, Parsers, TokenCounts
  <2>6. CASE Whole!Analyzed(b) = Answers!NoUsage
    BY <2>3, <2>5, <2>6
  <2>7. CASE Whole!Analyzed(b) # Answers!NoUsage
    <3>1. Whole!Analyzed(b) = u /\ u # Answers!NoUsage
      BY <1>6, <2>7
    <3>2. PICK m \in 1 .. Len(ls) :
            /\ ls[m].kind = "blank" /\ Answers!Pending(a[m - 1])
            /\ Telling(Answers!Last(a[m - 1].data)) /\ u = Answers!Last(a[m - 1].data).usage
      BY <1>4, <3>1
    <3>3. LET v == Answers!Last(a[m - 1].data).usage IN
          \A g \in Answers!Fields : /\ v[g] \in Nat
                                    /\ Whole!Usage(Whole!Flush(a[Len(ls)]))[g] >= v[g]
      BY <1>1, <1>3, <1>5, <2>2, <3>2, KeptToTheEnd
    <3>4. u[f] \in Nat /\ streamed[f] >= u[f]
      BY <2>3, <2>4, <3>2, <3>3
    <3> QED
      BY <2>5, <3>1, <3>4
  <2> QED
    BY <2>6, <2>7
<1>10. told = {} => Whole!Analyzed(b) = Whole!NoUsage
  BY <1>6, <1>8, SameParser
<1>11. b.form # "json"
  OBVIOUS
<1> HIDE DEF streamed
<1> QED
  BY <1>9, <1>10, <1>11, Zenon DEF Whole!NoMoreThanTheStream, told, streamed

\* The bodies that are chosen are made of lines of events.
LEMMA BodiesAreSpoken ==
  ASSUME NEW b \in Whole!Bodies
  PROVE  \/ b.form = "json"
         \/ b.form = "text" /\ b.lines \in Seq(Spoken)
<1> DEFINE Said(u, s, e, d, end, n) ==
             Whole!Text((IF s THEN <<Whole!DataLine(Whole!Event("message_start", Whole!AnyBlock, u, TRUE)),
                                  Whole!BlankLine(Whole!AnyBlock)>> ELSE << >>)
                      \o <<Whole!TypeLine(e), Whole!DataLine(e), Whole!BlankLine(e)>>
                      \o <<Whole!DataLine(d)>>
                      \o (IF end THEN <<Whole!BlankLine(d)>> ELSE << >>), n)
           Texts == {Said(u, s, e, d, end, n) : u \in Usages \cup {Whole!NoUsage}, s \in BOOLEAN,
                       e \in Whole!Events, d \in Whole!Events, end \in BOOLEAN, n \in {0, 4}}
<1>1. CASE b \in {Whole!Json(u) : u \in Usages \cup {Whole!NoUsage}}
  BY <1>1 DEF Whole!Json
<1>2. CASE b \in Texts
  <2>1. PICK u \in Usages \cup {Whole!NoUsage}, s \in BOOLEAN, e \in Whole!Events,
              d \in Whole!Events, end \in BOOLEAN, n \in {0, 4} : b = Said(u, s, e, d, end, n)
    <3> HIDE DEF Said
    <3> QED
      BY <1>2
  <2> DEFINE g  == Whole!Event("message_start", Whole!AnyBlock, u, TRUE)
             s1 == IF s THEN <<Whole!DataLine(g), Whole!BlankLine(Whole!AnyBlock)>> ELSE << >>
             s2 == <<Whole!TypeLine(e), Whole!DataLine(e), Whole!BlankLine(e)>>
             s3 == <<Whole!DataLine(d)>>
             s4 == IF end THEN <<Whole!BlankLine(d)>> ELSE << >>
             all == s1 \o s2 \o s3 \o s4
  <2>2. e \in Answers!Events /\ d \in Answers!Events /\ Whole!AnyBlock \in Blocks
    <3>1. Answers!AnyBlock \in Blocks
      BY AnswerAssumption, Zenon DEF Answers!AnyBlock
    <3> QED
      BY <3>1, SameParser
  <2>3. g \in Answers!Events
    <3>1. /\ u \in Usages \cup {Answers!NoUsage} /\ Whole!AnyBlock = Answers!AnyBlock
      BY SameParser
    <3>2. g = [type |-> "message_start", block |-> Answers!AnyBlock, usage |-> u, whole |-> TRUE]
      BY <3>1 DEF Whole!Event
    <3> DEFINE R(t, b1, v, w) == [type |-> t, block |-> b1, usage |-> v, whole |-> w]
               N == Answers!NoUsage
               A == {R(t, b1, N, w) : t \in {"block_start", "block_delta", "block_stop"},
                                      b1 \in Blocks, w \in BOOLEAN}
               B == {R(t, Answers!AnyBlock, v, TRUE) :
                       t \in {"message_start", "message_delta", "completed"}, v \in Usages \cup {N}}
               C == {R(t, Answers!AnyBlock, N, TRUE) :
                       t \in {"message_stop", "error", "in_progress", "failed"}}
    <3>3. Answers!Events = A \cup B \cup C
      BY DEF Answers!Events, Answers!Event
    <3>4. g \in B
      <4> DEFINE Q(t, v) == R(t, Answers!AnyBlock, v, TRUE)
      <4>1. B = {Q(t, v) : t \in {"message_start", "message_delta", "completed"}, v \in Usages \cup {N}}
        OBVIOUS
      <4>2. g = Q("message_start", u)
        BY <3>2
      <4> HIDE DEF g, B, Q, N
      <4> QED
        BY <4>1, <4>2, <3>1 DEF N
    <3> HIDE DEF g, A, B, C
    <3> QED
      BY <3>3, <3>4
  <2> HIDE DEF g
  <2>4. \A x \in Answers!Events : /\ Whole!TypeLine(x) \in Spoken /\ Whole!DataLine(x) \in Spoken
                                  /\ Whole!BlankLine(x) \in Spoken
    BY DEF Whole!TypeLine, Whole!DataLine, Whole!BlankLine, Spoken
  <2>5. Whole!BlankLine(Whole!AnyBlock) \in Spoken
    BY <2>2 DEF Whole!BlankLine, Spoken
  <2>6. s1 \in Seq(Spoken) /\ s2 \in Seq(Spoken) /\ s3 \in Seq(Spoken) /\ s4 \in Seq(Spoken)
    BY <2>2, <2>3, <2>4, <2>5
  <2>7. b = Whole!Text(all, n)
    BY <2>1 DEF g
  <2> HIDE DEF s1, s2, s3, s4
  <2>8. all \in Seq(Spoken)
    BY <2>6
  <2> HIDE DEF all
  <2> QED
    BY <2>7, <2>8 DEF Whole!Text
<1>3. Whole!Bodies = {Whole!Json(u) : u \in Usages \cup {Whole!NoUsage}} \cup Texts
  BY DEF Whole!Bodies, Whole!Event
<1> HIDE DEF Texts
<1> QED
  BY <1>1, <1>2, <1>3

BodyInv == in = << >> \/ \E b \in Whole!Bodies : in = <<b>>

\* A whole body is read as no more than a stream of the same lines.
LEMMA BodyStep == BodyInv /\ [MCNext]_allVars => BodyInv'
<1> SUFFICES ASSUME BodyInv, [MCNext]_allVars PROVE BodyInv'
  OBVIOUS
<1>1. in' = in \/ \E b \in Whole!Bodies : in' = <<b>>
  BY DEF MCNext, allVars, RequestStep
<1> QED
  BY <1>1 DEF BodyInv

LEMMA BodyRead == BodyInv => (in # << >> => Whole!NoMoreThanTheStream(in[1]))
<1> SUFFICES ASSUME NEW b \in Whole!Bodies, in = <<b>> PROVE Whole!NoMoreThanTheStream(b)
  BY DEF BodyInv
<1>1. CASE b.form = "json"
  <2>1. Whole!Analyzed(b) = b.usage
    BY <1>1 DEF Whole!Analyzed, Whole!Format
  <2> QED
    BY <1>1, <2>1, Zenon DEF Whole!NoMoreThanTheStream
<1>2. CASE b.form = "text" /\ b.lines \in Seq(Spoken)
  BY <1>2, TextReadAsNoMore
<1> QED
  BY <1>1, <1>2, BodiesAreSpoken

\* What is reported of a stream is the usage that its events said, wherever the body is
\* cut and whatever the chunks are, and a stream is judged complete only when every block
\* it opened was closed; a whole body is billed no usage that no event told, and never
\* more than the streaming reader makes of it (ParseSSELineV2, FlushPendingEvent,
\* GetFinalUsage, parseSSEForTokens).
THEOREM UsageAsSaid == MCSpec => []UsageIsWhatWasSaid
<1>1. MCInit => StreamInv /\ BodyInv
  <2>1. MCInit => in = << >>
    BY DEF MCInit
  <2> QED
    BY <2>1, StreamBegins DEF BodyInv
<1>2. (StreamInv /\ BodyInv) /\ [MCNext]_allVars => (StreamInv /\ BodyInv)'
  BY StreamHolds, BodyStep
<1>3. StreamInv /\ BodyInv => UsageIsWhatWasSaid
  BY BodyRead DEF StreamInv, UsageIsWhatWasSaid
<1> QED
  BY <1>1, <1>2, <1>3, PTL DEF MCSpec
=============================================================================
