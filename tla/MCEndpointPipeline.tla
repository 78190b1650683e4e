------------------------- MODULE MCEndpointPipeline -------------------------
(***************************************************************************)
(* Small instances for TLC of what is sent upstream and what comes back:   *)
(* requests in the endpoint pipeline, the reading of one answer, the cache *)
(* of endpoints that rejected a kind of request, and the analysis of a     *)
(* whole body over bounded inputs.  A behaviour is the one part that       *)
(* `part` names; for the bodies it is one body, chosen into `in`.          *)
(***************************************************************************)
EXTENDS EndpointPipeline

CONSTANTS
  e1,
  Values, Capacity, TTL, MaxTime, MaxRecords,  \* of the cache of rejections
  Blocks, Usages, MaxEvents                    \* of the answers

ASSUME RejectionAssumption ==
  /\ IsFiniteSet(Endpoints) /\ IsFiniteSet(Values) /\ Values \subseteq Nat
  /\ Capacity \in Nat /\ TTL \in Nat

\* Counts of tokens are not negative.
ASSUME AnswerAssumption == Blocks # {} /\ Usages \subseteq [{"input", "output", "cache"} -> Nat]

VARIABLES
  part,
  sends, wire, ended, emitted, parser, apiError, left, unsent, verdict, reported, heard,
  now, hits, order, records, stamp,
  in

answerVars == <<sends, wire, ended, emitted, parser, apiError, left, unsent, verdict,
                reported, heard>>
rejectionVars == <<now, hits, order, records, stamp>>
allVars == <<part, vars, answerVars, rejectionVars, in>>

\* A stream may be offered to every endpoint, the other requests to one of them.
MCOffers == [r \in Requests |-> IF r \in Streams THEN Endpoints ELSE {e1}]

MCUsages == {[input |-> 1, output |-> 0, cache |-> 1], [input |-> 0, output |-> 2, cache |-> 0]}

Answers == INSTANCE StreamParsing WITH gone <- left

Rejections == INSTANCE NegativeHits

Whole == INSTANCE ResponseAnalysis

-----------------------------------------------------------------------------
MCInit ==
  /\ part \in {"together", "alone", "answer", "rejections", "body"}
  /\ Init /\ Answers!Init /\ Rejections!Init /\ in = << >>
  /\ part # "alone" => \A b \in Budgets : b <= budget
  /\ part # "answer" => sends = "claude"

\* The requests share an endpoint while the rules of the privacy filter stay as they
\* are, or the stream is alone, with any budget, while the rules change.
Fixed == INSTANCE EndpointPipeline WITH MaxRules <- 1

RequestStep ==
  /\ \/ part = "together" /\ Fixed!Next
     \/ part = "alone" /\ Next /\ \A r \in Requests \ Streams : pc'[r] = pc[r]
  /\ UNCHANGED <<answerVars, rejectionVars, in>>

MCNext ==
  /\ UNCHANGED part
  /\ \/ RequestStep
     \/ part = "answer" /\ Answers!Next /\ UNCHANGED <<vars, rejectionVars, in>>
     \/ part = "rejections" /\ Rejections!Next /\ UNCHANGED <<vars, answerVars, in>>
     \/ part = "body" /\ in = << >> /\ UNCHANGED <<vars, answerVars, rejectionVars>>
        /\ \E b \in Whole!Bodies : in' = <<b>>

MCSpec == MCInit /\ [][MCNext]_allVars

-----------------------------------------------------------------------------
\* What is reported of a stream is what its events said, and it is complete only when
\* every block it opened was closed; a whole body is never read as more than the same
\* stream.
UsageIsWhatWasSaid ==
  /\ Answers!UsageIsWhatWasSaid /\ Answers!CompleteIsClosed
  /\ in # << >> => Whole!NoMoreThanTheStream(in[1])

\* What the cache says of an endpoint is its newest rejection, until that expires or
\* newer ones displace it.
RejectionRemembered == Rejections!RejectionRemembered
=============================================================================
