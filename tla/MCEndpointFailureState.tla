----------------------- MODULE MCEndpointFailureState -----------------------
(***************************************************************************)
(* Small instances for TLC of what goes wrong upstream and how it is       *)
(* remembered: the failure state of endpoints, the runtime state of an     *)
(* account, and which account a request may use.  The three share no       *)
(* state; a behaviour is one of them, the one that `part` names.           *)
(***************************************************************************)
EXTENDS EndpointFailureState, TLC

CONSTANTS
  AccountAttempts, DesktopCalls, AccountThreshold, AccountTime,   \* of AccountRuntime
  Accounts, OAuth, LastTier,                                      \* of AccountSelection
  MaxCalls, MaxFaults, MaxRestarts

ASSUME AccountAssumption ==
  /\ AccountThreshold \in Nat \ {0} /\ {AccountTime, MaxCalls, MaxFaults, MaxRestarts} \subseteq Nat
  /\ Accounts \subseteq Nat \ {0} /\ OAuth \subseteq Accounts
  /\ LastTier \in Nat \ {0}

VARIABLES
  part,
  rtNow, entry, version, rtRow, pending, batch, current, rtSoft, rtAtt, rtCall, refresh,
  faults, restarts, lastFail, off, deleted,
  group, status, preferred, selRetained, sel, savedPin, admin, selCalls, selRestarts, userPin

endpointVars == vars
runtimeVars == <<rtNow, entry, version, rtRow, pending, batch, current, rtSoft, rtAtt, rtCall,
                 refresh, faults, restarts, lastFail, off, deleted>>
selectionVars == <<group, status, preferred, selRetained, sel, savedPin, admin, selCalls,
                   selRestarts, userPin>>
allVars == <<part, endpointVars, runtimeVars, selectionVars>>

\* One account, attempts at it and calls of the desktop.
Runtime == INSTANCE AccountRuntime
             WITH now <- rtNow, row <- rtRow, soft <- rtSoft, att <- rtAtt, call <- rtCall,
                  Attempts <- AccountAttempts, Calls <- DesktopCalls,
                  Threshold <- AccountThreshold, MaxTime <- AccountTime

\* All accounts and their groups.
Selection == INSTANCE AccountSelection
               WITH retained <- selRetained, calls <- selCalls, restarts <- selRestarts

MCInit ==
  /\ part \in {"endpoints", "runtime", "selection"}
  /\ Init /\ Runtime!Init /\ Selection!Init
  /\ part # "selection" => group = [a \in Accounts |-> 1]

MCNext ==
  \/ part = "endpoints" /\ Next /\ UNCHANGED <<part, runtimeVars, selectionVars>>
  \/ part = "runtime" /\ Runtime!Next /\ UNCHANGED <<part, endpointVars, selectionVars>>
  \/ part = "selection" /\ Selection!Next /\ UNCHANGED <<part, endpointVars, runtimeVars>>

MCSpec == MCInit /\ [][MCNext]_allVars

\* Attempts are interchangeable; no liveness is checked.
AttemptSymmetry == Permutations(Attempts)

\* A recorded failure of an account is not taken back by the late success of an
\* older attempt or by the rollback of a failed call that overlapped no other.
NewerFailureStands == Runtime!NewerFailureStands

\* What the user has disabled or deleted stays so: the cache, the queued writes, a
\* refresh and a restart do not bring it back. (Every variable keeps its type.)
AdministrationStands == Runtime!TypeOK /\ Runtime!DisabledStays /\ Runtime!DeletedIsGone

\* The account the user pinned comes first, and the per-group choices follow the
\* accounts from group to group. (Every variable keeps its type.)
ChoiceIsKept == Selection!TypeOK /\ Selection!PinHonoured /\ Selection!SelectionFollowsGroups
=============================================================================
