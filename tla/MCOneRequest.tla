---------------------------- MODULE MCOneRequest ----------------------------
(* One request of EndpointPipeline, for the runs that show a finding. *)
EXTENDS EndpointPipeline

MCOffers == [r \in Requests |-> Endpoints]
=============================================================================
