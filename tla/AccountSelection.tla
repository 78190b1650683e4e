-------------------------- MODULE AccountSelection --------------------------
(***************************************************************************)
(* Which account a request gets.  Accounts belong to ranked groups; the    *)
(* user pins an account, names a preferred one per group, moves accounts   *)
(* and swaps groups; successes leave a retained account per group.  A      *)
(* request is given the accounts of ONE group, the chosen one first.       *)
(* Calls of the desktop come one at a time here; requests and reports fall *)
(* between any two of their steps.  How accounts are scored within a group *)
(* is left open: any eligible account may rank first.                      *)
(* internal/service/account_pool.go, account_pool_runtime_cache.go,        *)
(* account_pool_scheduler.go, account_pool_manual_failover.go and          *)
(* account_pool_groups.go.                                                 *)
(***************************************************************************)
EXTENDS Integers, FiniteSets

CONSTANTS
  Accounts,   \* database IDs, positive
  OAuth,      \* the accounts that sign in through ChatGPT
  LastTier,   \* number of groups
  MaxCalls, MaxRestarts   \* bounds

VARIABLES
  group,      \* tier of each account in the cache
  status,     \* what the account's record says
  preferred,  \* preferredByGroup, 0 = none
  retained,   \* autoRetainedByGroup, 0 = none
  sel,        \* activeTier, activeAccount, selectionPinned
  savedPin,   \* the persisted pin, 0 = none
  admin,      \* the call of the desktop under way
  calls, restarts,
  userPin     \* ghost: account the user's last completed calls left pinned

vars == <<group, status, preferred, retained, sel, savedPin, admin, calls, restarts,
          userPin>>

-----------------------------------------------------------------------------
Tiers == 1 .. LastTier
Ids   == Accounts \cup {0}
NoSelection == [tier |-> 0, account |-> 0, pinned |-> FALSE]
Selections  == [tier : 0 .. LastTier, account : Ids, pinned : BOOLEAN]

Statuses == {"ready", "cooling", "off", "gone"}
Known(a) == status[a] # "gone"

Ops  == {"none", "pin", "auto", "toggle", "move", "swap"}
Idle == [op |-> "none", pc |-> 0, account |-> 0, tier |-> 0, was |-> 0,
         saved |-> NoSelection, prefs |-> [t \in Tiers |-> 0], old |-> "ready",
         touched |-> FALSE]


Init ==
  /\ group \in [Accounts -> Tiers]
  /\ status = [a \in Accounts |-> "ready"]
  /\ preferred = [t \in Tiers |-> 0] /\ retained = [t \in Tiers |-> 0]
  /\ sel = NoSelection /\ savedPin = 0
  /\ admin = Idle /\ calls = 0 /\ restarts = 0
  /\ userPin = 0

-----------------------------------------------------------------------------
(* Helpers of the cache.                                                    *)

\* syncPreferredAccountsLocked, syncAutoRetainedAccountsLocked
SyncPreferred(p, g, st) ==
  [t \in Tiers |-> IF p[t] # 0 /\ st[p[t]] # "gone" /\ g[p[t]] = t THEN p[t] ELSE 0]
SyncRetained(p, g, st) ==
  [t \in Tiers |-> IF p[t] # 0 /\ st[p[t]] \notin {"gone", "off"} /\ g[p[t]] = t
                   THEN p[t] ELSE 0]

\* selectAccount
Select(a, g) == [tier |-> g[a], account |-> a, pinned |-> TRUE]

Populated(tier, st) == \E a \in Accounts : st[a] # "gone" /\ group[a] = tier

\* The tail of applyToggle and remove: an empty tier, or no pin, clears it.
Settle(s, st) ==
  IF (s.tier > 0 /\ ~Populated(s.tier, st)) \/ ~s.pinned THEN NoSelection ELSE s

Released(s, a) == IF s.account = a THEN [s EXCEPT !.account = 0] ELSE s

\* syncPinnedSelectionLocked
SyncPinned(g) == IF sel.pinned /\ sel.account # 0 THEN [sel EXCEPT !.tier = g[sel.account]]
                 ELSE sel

Without(p, a) == [t \in Tiers |-> IF p[t] = a THEN 0 ELSE p[t]]

-----------------------------------------------------------------------------
(* Reports of attempts, as far as the selection goes.                       *)

\* touched: the account's state version has moved under the call.
Report(a) ==
  /\ admin' = [admin EXCEPT !.touched = @ \/ admin.account = a]
  /\ UNCHANGED <<group, preferred, savedPin, calls, restarts>>

\* markTransientFailure: a pinned account keeps its pin while it cools.
Cool(a) ==
  /\ status[a] = "ready"
  /\ status' = [status EXCEPT ![a] = "cooling"]
  /\ retained' = Without(retained, a)
  /\ sel' = IF ~sel.pinned THEN Released(sel, a) ELSE sel
  /\ UNCHANGED userPin /\ Report(a)

CoolingEnds(a) ==
  /\ status[a] = "cooling"
  /\ status' = [status EXCEPT ![a] = "ready"]
  /\ UNCHANGED <<group, preferred, retained, sel, savedPin, admin, calls, restarts, userPin>>

\* markAuthFailed: the account is released, its tier stays pinned.
FailAuth(a) ==
  /\ status[a] \in {"ready", "cooling"}
  /\ status' = [status EXCEPT ![a] = "off"]
  /\ retained' = Without(retained, a)
  /\ sel' = Released(sel, a)
  /\ userPin' = IF userPin = a THEN 0 ELSE userPin
  /\ Report(a)

\* The success branch of markSuccessIfNoNewerFailure, a disabled account too.
Succeed(a) ==
  /\ Known(a)
  /\ status' = [status EXCEPT ![a] = IF @ = "cooling" THEN "ready" ELSE @]
  /\ IF sel.pinned
     THEN /\ sel' = IF sel.account = a THEN [sel EXCEPT !.tier = group[a]] ELSE sel
          /\ UNCHANGED retained
     ELSE retained' = [retained EXCEPT ![group[a]] = a] /\ UNCHANGED sel
  /\ UNCHANGED userPin /\ Report(a)

-----------------------------------------------------------------------------
(* Calls of the desktop.                                                    *)

Start(op, a, next) ==
  /\ admin = Idle /\ calls < MaxCalls /\ calls' = calls + 1
  /\ admin' = [next EXCEPT !.op = op, !.pc = 1, !.account = a]
  /\ UNCHANGED restarts

Step(op, pc)  == admin.op = op /\ admin.pc = pc /\ UNCHANGED <<calls, restarts>>
Advance       == admin' = [admin EXCEPT !.pc = @ + 1]
Return        == admin' = Idle

\* PinAccountSelection selects, then persists; a failed write is ignored.
Pin(a) ==
  /\ Known(a) /\ Start("pin", a, Idle)
  /\ sel' = Select(a, group)
  /\ userPin' = 0
  /\ UNCHANGED <<group, status, preferred, retained, savedPin>>

PersistPin ==
  /\ Step("pin", 1) /\ Return
  /\ savedPin' \in {savedPin, admin.account}
  /\ userPin' = IF sel.account = admin.account THEN admin.account ELSE 0
  /\ UNCHANGED <<group, status, preferred, retained, sel>>

\* EnableAutomaticAccountSelection
Unpin ==
  /\ Start("auto", 0, Idle)
  /\ sel' = NoSelection /\ userPin' = 0
  /\ UNCHANGED <<group, status, preferred, retained, savedPin>>

PersistUnpin ==
  /\ Step("auto", 1) /\ Return
  /\ savedPin' \in {savedPin, 0}
  /\ UNCHANGED <<group, status, preferred, retained, sel, userPin>>

\* SetGroupActiveAccount
SetGroupActive(a) ==
  /\ admin = Idle /\ Known(a)
  /\ preferred' = [preferred EXCEPT ![group[a]] = a]
  /\ UNCHANGED <<group, status, retained, sel, savedPin, admin, calls, restarts, userPin>>

\* applyToggle, then the row; a failed write restores what was saved.
Toggle(a) ==
  /\ Known(a)
  /\ Start("toggle", a, [Idle EXCEPT !.saved = sel, !.old = status[a]])
  /\ LET off == status[a] # "off"
         st  == [status EXCEPT ![a] = IF off THEN "off" ELSE "ready"]
     IN /\ status' = st
        /\ retained' = SyncRetained(retained, group, st)
        /\ sel' = Settle(IF off THEN Released(sel, a) ELSE sel, st)
  /\ userPin' = IF userPin = a THEN 0 ELSE userPin
  /\ UNCHANGED <<group, preferred, savedPin>>

ToggleSaved ==
  /\ Step("toggle", 1) /\ Return
  /\ UNCHANGED <<group, status, preferred, retained, sel, savedPin, userPin>>
 

\* restoreRuntimeStateIfVersion, the saved selection included; an account
\* reported on meanwhile is read again instead (its report may be unsaved).
ToggleFails ==
  /\ Step("toggle", 1) /\ Return
  /\ LET a == admin.account IN
     IF ~admin.touched
     THEN status' = [status EXCEPT ![a] = admin.old] /\ sel' = admin.saved
     ELSE /\ \E st \in {admin.old, status[a]} : status' = [status EXCEPT ![a] = st]
          /\ sel' = SyncPinned(group)
  /\ retained' = IF admin.touched THEN SyncRetained(retained, group, status') ELSE retained
  /\ UNCHANGED <<group, preferred, savedPin, userPin>>

\* UpdateAccount with another group: mergeRecordPreservingRuntimeState
EditGroup(a, t) ==
  /\ admin = Idle /\ Known(a) /\ t # group[a]
  /\ group' = [group EXCEPT ![a] = t]
  /\ preferred' = SyncPreferred(preferred, group', status)
  /\ retained' = SyncRetained(retained, group', status)
  /\ sel' = SyncPinned(group')
  /\ UNCHANGED <<status, savedPin, admin, calls, restarts, userPin>>

\* activeSelectionAccountID
PinnedNow == IF sel.pinned THEN sel.account ELSE 0

\* MoveAccountToTier: note the pin, move (which clears it), pin again.
Move(a, t) ==
  /\ Known(a) /\ t # group[a]
  /\ Start("move", a, [Idle EXCEPT !.tier = t, !.was = PinnedNow])
  /\ UNCHANGED <<group, status, preferred, retained, sel, savedPin, userPin>>
 

\* applySchedulingUpdates
Reschedule(g) ==
  /\ group' = g
  /\ preferred' = SyncPreferred(preferred, g, status)
  /\ retained' = SyncRetained(retained, g, status)
  /\ sel' = NoSelection

ApplyMove ==
  /\ Step("move", 1) /\ Advance
  /\ Reschedule([group EXCEPT ![admin.account] = admin.tier])
  /\ UNCHANGED <<status, savedPin, userPin>>

MoveFails ==
  /\ Step("move", 1) \/ Step("swap", 1)
  /\ Return
  /\ UNCHANGED <<group, status, preferred, retained, sel, savedPin, userPin>>
 

ForgetPin(was) == NoSelection                                \* faulty variant
PinAgain(was) == IF was # 0 /\ Known(was) THEN Select(was, group) ELSE sel

FinishMove ==
  /\ Step("move", 2) /\ Return
  /\ sel' = PinAgain(admin.was)
  /\ UNCHANGED <<group, status, preferred, retained, savedPin, userPin>>

\* SwapAccountGroups, adjacent groups: it ends with some account pinned.
Swap(t) ==
  /\ t + 1 \in Tiers /\ \E a \in Accounts : Known(a) /\ group[a] \in {t, t + 1}
  /\ Start("swap", 0, [Idle EXCEPT !.tier = t, !.was = PinnedNow, !.prefs = preferred])
  /\ UNCHANGED <<group, status, preferred, retained, sel, savedPin, userPin>>
 

Swapped(t) == IF t = admin.tier THEN admin.tier + 1
              ELSE IF t = admin.tier + 1 THEN admin.tier ELSE t

ApplySwap ==
  /\ Step("swap", 1) /\ Advance
  /\ Reschedule([a \in Accounts |-> Swapped(group[a])])
  /\ UNCHANGED <<status, savedPin, userPin>>

\* restorePreferredAccounts with the groups exchanged
RemapPreferred ==
  /\ Step("swap", 2) /\ Advance
  /\ preferred' = SyncPreferred([t \in Tiers |-> admin.prefs[Swapped(t)]], group, status)
  /\ UNCHANGED <<group, status, retained, sel, savedPin, userPin>>

InTier(t) == {a \in Accounts : Known(a) /\ group[a] = t}

\* The account pinned before, the first group's preferred one, or its first.
FinishSwap ==
  /\ Step("swap", 3) /\ Return
  /\ LET chosen == IF admin.was # 0 THEN {admin.was}
                   ELSE IF preferred[1] # 0 THEN {preferred[1]} ELSE InTier(1)
     IN IF chosen = {} THEN UNCHANGED sel
        ELSE \E a \in chosen : sel' = Select(a, group)
  /\ UNCHANGED <<group, status, preferred, retained, savedPin, userPin>>

\* DeleteAccount: the persisted pin goes first, then the cache entry.
Delete(a) ==
  /\ admin = Idle /\ Known(a)
  /\ status' = [status EXCEPT ![a] = "gone"]
  /\ savedPin' = IF savedPin = a THEN 0 ELSE savedPin
  /\ preferred' = SyncPreferred(preferred, group, status')
  /\ retained' = SyncRetained(retained, group, status')
  /\ sel' = Settle(Released(sel, a), status')
  /\ userPin' = IF userPin = a THEN 0 ELSE userPin
  /\ UNCHANGED <<group, admin, calls, restarts>>

\* replaceAll and restorePersistedPinnedAccountSelection: a pin on an account
\* that is not ready is dropped for good.
Restart ==
  /\ restarts < MaxRestarts /\ restarts' = restarts + 1
  /\ LET keep == savedPin # 0 /\ status[savedPin] = "ready" IN
     /\ sel' = IF keep THEN Select(savedPin, group) ELSE NoSelection
     /\ savedPin' = IF keep THEN savedPin ELSE 0
     /\ userPin' = IF keep /\ userPin = savedPin THEN userPin ELSE 0
  /\ preferred' = [t \in Tiers |-> 0] /\ retained' = [t \in Tiers |-> 0]
  /\ admin' = Idle /\ UNCHANGED <<calls, group, status>>

-----------------------------------------------------------------------------
(* Requests.                                                                *)

\* rankPriorityTier: the search route takes ChatGPT accounts only.
Eligible(t, search) ==
  {a \in Accounts : group[a] = t /\ status[a] = "ready" /\ (search => a \in OAuth)}

FirstTiers(search) == {t \in Tiers : /\ Eligible(t, search) # {}
                                     /\ \A u \in 1 .. (t - 1) : Eligible(u, search) = {}}

\* resolveActiveSelectionLocked: the tier, the accounts that may come first,
\* and whether the choice counts as pinned.
Choice(search) ==
  LET ignore == search /\ sel.account # 0 /\ Known(sel.account) /\ sel.account \notin OAuth
      auto(t) ==
        IF preferred[t] \in Eligible(t, search) THEN {preferred[t]} ELSE Eligible(t, search)
      own == Eligible(sel.tier, search)
  IN IF ~sel.pinned \/ ignore
     THEN {[tier |-> t, firsts |-> auto(t), pinned |-> FALSE] : t \in FirstTiers(search)}
     ELSE IF sel.tier > 0 /\ own # {}
     THEN IF sel.account \in own
          THEN {[tier |-> sel.tier, firsts |-> {sel.account}, pinned |-> TRUE]}
          ELSE {[tier |-> sel.tier, firsts |-> own, pinned |-> FALSE]}
     ELSE {[tier |-> t, firsts |-> Eligible(t, search), pinned |-> FALSE] :
             t \in FirstTiers(search)}

-----------------------------------------------------------------------------
DesktopStep ==
  \/ \E a \in Accounts :
       \/ Pin(a) \/ SetGroupActive(a) \/ Toggle(a) \/ Delete(a)
       \/ \E t \in Tiers : EditGroup(a, t) \/ Move(a, t)
  \/ PersistPin \/ Unpin \/ PersistUnpin \/ ToggleSaved \/ ToggleFails
  \/ ApplyMove \/ MoveFails \/ FinishMove
  \/ (\E t \in Tiers : Swap(t)) \/ ApplySwap \/ RemapPreferred \/ FinishSwap

Next ==
  \/ \E a \in Accounts : Cool(a) \/ CoolingEnds(a) \/ FailAuth(a) \/ Succeed(a)
  \/ DesktopStep \/ Restart

Spec == Init /\ [][Next]_vars

-----------------------------------------------------------------------------
(* Properties.                                                              *)

\* Every variable has its type.
TypeOK ==
  /\ group \in [Accounts -> Tiers] /\ status \in [Accounts -> Statuses]
  /\ preferred \in [Tiers -> Ids] /\ retained \in [Tiers -> Ids]
  /\ sel \in Selections /\ savedPin \in Ids /\ userPin \in Ids
  /\ admin.op \in Ops /\ admin.pc \in 0 .. 3

\* Between calls, the account the user pinned comes first in the list of
\* every request it can serve: through its cooldowns, moves between groups,
\* swaps, edits and failed calls on other accounts, and across a restart.
PinHonoured ==
  admin = Idle /\ userPin # 0 /\ status[userPin] = "ready" =>
    \A search \in BOOLEAN : (search => userPin \in OAuth) =>
      Choice(search) = {[tier |-> group[userPin], firsts |-> {userPin}, pinned |-> TRUE]}

\* The per-group maps and the pinned tier follow the accounts as they change
\* group: a preferred or retained account is known and in that group, and a
\* pinned account is looked for in the group it is in now.
SelectionFollowsGroups ==
  /\ \A t \in Tiers : \A a \in Accounts :
       a \in {preferred[t], retained[t]} => Known(a) /\ group[a] = t
  /\ sel.pinned /\ sel.account # 0 => sel.tier = group[sel.account] /\ Known(sel.account)

=============================================================================
