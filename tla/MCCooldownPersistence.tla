----------------------- MODULE MCCooldownPersistence ------------------------
(***************************************************************************)
(* Small instances for TLC of what is stored and what survives a restart:  *)
(* cooldowns, the routing choice, the migration of an old installation and *)
(* the rules of the privacy filter; with them the two algorithms they      *)
(* rest on, the splitting of legacy endpoints and the scan of a body, over *)
(* bounded inputs.  A behaviour is the one part that `part` names; for the *)
(* algorithms it is one input, chosen into `in`.                           *)
(***************************************************************************)
EXTENDS CooldownPersistence, TLC

CONSTANTS
  Endpoints,
  MaxCalls, MaxRouteFaults, MaxRestarts,                             \* of ClaudeRouting
  Zones, MaxMigrationFaults, MaxEdits,                               \* of Migration
  UserRules, Builtin, Preset, Upstreams, MaxChanges, MaxKept, MaxFaults   \* of PrivacyService

ASSUME PartsAssumption ==
  /\ {MaxCalls, MaxRouteFaults, MaxRestarts, MaxMigrationFaults, MaxEdits} \subseteq Nat
  /\ {MaxChanges, MaxKept, MaxFaults} \subseteq Nat
  /\ Zones # {} /\ Preset \in UserRules /\ Builtin \notin UserRules

VARIABLES
  part,
  rtRows, rtLive, route, saved, ready, phase, rtCall, adding, calls, rtFaults, restarts, left, reset,
  pc, config, mgRows, flat, flatLedger, zoneLedger, times, backups, made, status, origin,
  mgFaults, edits,
  mode, rules, snapshot, installed, change, told, attempt, kept, sent, changes, faults,
  in

cooldownVars == vars
routingVars == <<rtRows, rtLive, route, saved, ready, phase, rtCall, adding, calls, rtFaults,
                 restarts, left, reset>>
migrationVars == <<pc, config, mgRows, flat, flatLedger, zoneLedger, times, backups, made, status,
                   origin, mgFaults, edits>>
privacyVars == <<mode, rules, snapshot, installed, change, told, attempt, kept, sent,
                 changes, faults>>
allVars == <<part, cooldownVars, routingVars, migrationVars, privacyVars, in>>

\* The cfg lets no cooldown expire but the name be created again; here it is the
\* other way round.
Expiring == INSTANCE CooldownPersistence WITH MaxTime <- 1, MaxId <- 1

\* Every read of a start succeeds in the end.
Routing == INSTANCE ClaudeRouting
             WITH rows <- rtRows, live <- rtLive, call <- rtCall, faults <- rtFaults,
                  MayMissSync <- FALSE, MaxFaults <- MaxRouteFaults

\* The configured time zone is edited between failed attempts.
Migrate == INSTANCE Migration
             WITH rows <- mgRows, faults <- mgFaults, MaxFaults <- MaxMigrationFaults

\* The built-in rule, the one of the preset, and those of the user.
Privacy == INSTANCE PrivacyService WITH rows <- rules, Rules <- UserRules

-----------------------------------------------------------------------------
Split == INSTANCE LegacyEndpoints

Legacy(n, gs, ts, ks, prio) ==
  [name : n, url : {TRUE}, group : gs, token : {0, 1}, key : {0, 1}, tokens : ts, keys : ks,
   on : {TRUE}, prio : {prio}, groupPrio : {1}]
FirstEntries  == Legacy({<<"x">>, <<"x", <<"t", 0>>>>, << >>}, {"", "g"},
                       {<< >>, <<"t", "t">>, <<"", "u">>}, {<< >>, <<"", "k">>}, 0)
OtherEntries == Legacy({<<"x">>, <<"x", <<"t", 0>>>>}, {"", "h"}, {<< >>, <<"t">>}, {<< >>, <<"k", "k">>}, 2)
Files == {[entries |-> <<e, f>>, scope |-> s, target |-> <<"x">>] :
            e \in FirstEntries, f \in OtherEntries,
            s \in {{<<"x">>}, {<<"x">>, <<"x", <<"t", 0>>>>}}}

Scan == INSTANCE PrivacyScan

Strings == UNION {[1..n -> {1, 2}] : n \in 0..3}
Rules(i, prios) == [id : {i}, prio : prios, pattern : {<<1>>, <<1, 2>>, <<2, 2>>}, redact : BOOLEAN]
Text(v) == [text |-> TRUE, value |-> v]
Bodies == {[body |-> <<[text |-> FALSE], Text(a), Text(b)>>, rules |-> <<x, y>>,
              secrets |-> z, redact |-> r, limit |-> n, refuse |-> FALSE] :
               a \in Strings, b \in {<< >>, <<2, 1>>}, x \in Rules(1, {100, 5}), y \in Rules(2, {50}),
               z \in {<< >>, <<<<1>>, <<2, 1>>>>}, r \in BOOLEAN, n \in {3, 4}}

-----------------------------------------------------------------------------
MCInit ==
  /\ part \in {"cooldowns", "expiring", "routing", "migration", "privacy", "inputs"}
  /\ Init /\ Routing!Init /\ Migrate!Init /\ Privacy!Init /\ in = << >>
  /\ part # "routing" => rtRows = {}
  /\ part # "migration" => Migrate!Fresh /\ config.zone = CHOOSE z \in Zones : TRUE

CooldownStep == /\ (part = "cooldowns" /\ Next) \/ (part = "expiring" /\ Expiring!Next)
                /\ UNCHANGED <<routingVars, migrationVars, privacyVars, in>>
RoutingStep == Routing!Next /\ UNCHANGED <<cooldownVars, migrationVars, privacyVars, in>>
MigrationStep == Migrate!Next /\ UNCHANGED <<cooldownVars, routingVars, privacyVars, in>>
PrivacyStep == Privacy!Next /\ UNCHANGED <<cooldownVars, routingVars, migrationVars, in>>
Input == /\ in = << >>
         /\ \/ \E c \in Files : in' = <<"file", c>>
            \/ \E s \in Bodies : in' = <<"message", s>>
         /\ UNCHANGED <<cooldownVars, routingVars, migrationVars, privacyVars>>

MCNext ==
  /\ UNCHANGED part
  /\ \/ CooldownStep
     \/ part = "routing" /\ RoutingStep
     \/ part = "migration" /\ MigrationStep
     \/ part = "privacy" /\ PrivacyStep
     \/ part = "inputs" /\ Input

MCSpec == MCInit /\ [][MCNext]_allVars

\* Clears are interchangeable; no liveness is checked.
ClearSymmetry == Permutations(Clears)

-----------------------------------------------------------------------------
\* Between calls the published and the saved route are what the calls that ended
\* left, and a manual route names an endpoint that exists. (Every variable keeps its type.)
RouteIsKept == Routing!TypeOK /\ Routing!RouteIsAsLeft /\ Routing!ManualTargetKnown

\* Whatever crashes, failures and edits come between the attempts of a migration, no
\* time is converted twice and no endpoint is lost.
MigrationIsSafe == Migrate!ConvertedOnce /\ Migrate!EndpointsSurvive

\* An attempt sends its own body, filtered by rules in force for its upstream, and a
\* change of the rules that reported success is in force. (Every variable keeps its type.)
RulesAreApplied == Privacy!TypeOK /\ Privacy!FilteredForUpstream /\ Privacy!SavedIsInForce

\* Every entry of an old file becomes its rows, and what referred to it refers to all
\* of them; what leaves a scan holds nothing a redacting rule finds, while nothing
\* else has changed.
InputsAreRight ==
  in # << >> => /\ in[1] = "file" => Split!SplitLosesNothing(in[2])
                /\ in[1] = "message" => Scan!RedactsWhatItFinds(in[2])
=============================================================================
