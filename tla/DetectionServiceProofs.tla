----------------------- MODULE DetectionServiceProofs -----------------------
(***************************************************************************)
(* The invariants of DetectionStore and of DetectionService over it, and   *)
(* the contract of an event, for every choice of their constants.          *)
(*                                                                         *)
(* The store comes first: its theorems hold of the service, as every step  *)
(* of the service is one of the store or leaves it alone.                  *)
(***************************************************************************)
EXTENDS DetectionProperties, TLAPS

USE DEF Never, Stamps, LogStatus

LEMMA StoreInit_Inv == StoreInit => StoreInv
  BY StoreConstants
     DEF StoreInit, StoreInv, StoreTypeOK, OneBindingPerMotion, BindingsResolve,
         StampsHaveBinding, BindingUsed, CooldownSpacing, OneBindingPerId,
         StampIsLatest, GrantsAreProcessed, Binding, Log, Grant

LEMMA CreateAction_Inv ==
  ASSUME StoreInv, NEW a \in Actions, CreateAction(a)
  PROVE  StoreInv'
BY DEF StoreInv, CreateAction, StoreTypeOK, OneBindingPerMotion, BindingsResolve,
       StampsHaveBinding, BindingUsed, CooldownSpacing, OneBindingPerId,
       StampIsLatest, GrantsAreProcessed

\* The bindings of other actions stay, and keep their stamps and grants.
LEMMA DeleteAction_Inv ==
  ASSUME StoreInv, NEW a \in Actions, DeleteAction(a)
  PROVE  StoreInv'
<1>1. StoreTypeOK'
  BY DEF StoreInv, StoreTypeOK, DeleteAction, Binding
<1>2. /\ bindings' \subseteq bindings
      /\ grants' \subseteq grants
      /\ processed' = processed
  BY DEF DeleteAction
<1>3. OneBindingPerMotion' /\ OneBindingPerId'
  BY <1>2 DEF StoreInv, OneBindingPerMotion, OneBindingPerId
<1>4. BindingsResolve'
  BY DEF StoreInv, BindingsResolve, DeleteAction
<1>5. StampsHaveBinding'
  BY DEF StoreInv, StoreTypeOK, StampsHaveBinding, BindingUsed, DeleteAction
<1>6. CooldownSpacing' /\ GrantsAreProcessed'
  BY <1>2 DEF StoreInv, CooldownSpacing, GrantsAreProcessed
<1>7. StampIsLatest'
  BY DEF StoreInv, StoreTypeOK, StampIsLatest, DeleteAction, Grant
<1>. QED  BY <1>1, <1>3, <1>4, <1>5, <1>6, <1>7 DEF StoreInv

LEMMA RebindMotion_Inv ==
  ASSUME StoreInv, NEW b \in bindings, NEW a \in Actions, RebindMotion(b, a)
  PROVE  StoreInv'
<1>. DEFINE c == [id |-> b.id, motion |-> b.motion, action |-> a]
<1>1. StoreTypeOK'
  BY DEF StoreInv, StoreTypeOK, RebindMotion, Binding
<1>2. c.id = b.id /\ c.motion = b.motion /\ c.action = a
  OBVIOUS
<1>3. bindings' = (bindings \ {b}) \cup {c} /\ a \in actions' /\ actions' = actions
  BY DEF RebindMotion
<1>. HIDE DEF c
<1>4. OneBindingPerMotion' /\ OneBindingPerId'
  BY <1>2, <1>3 DEF StoreInv, OneBindingPerMotion, OneBindingPerId
<1>5. BindingsResolve'
  BY <1>2, <1>3 DEF StoreInv, BindingsResolve
<1>6. StampsHaveBinding'
  BY <1>2, <1>3
     DEF StoreInv, StoreTypeOK, StampsHaveBinding, BindingUsed, RebindMotion
<1>7. CooldownSpacing' /\ GrantsAreProcessed'
  BY DEF StoreInv, CooldownSpacing, GrantsAreProcessed, RebindMotion
<1>8. StampIsLatest'
  BY DEF StoreInv, StoreTypeOK, StampIsLatest, RebindMotion, Grant
<1>. QED  BY <1>1, <1>4, <1>5, <1>6, <1>7, <1>8 DEF StoreInv

LEMMA BindMotion_Inv ==
  ASSUME StoreInv, NEW id \in BindingIds, NEW m \in Motions, NEW a \in Actions,
         BindMotion(id, m, a)
  PROVE  StoreInv'
<1>. DEFINE c == [id |-> id, motion |-> m, action |-> a]
<1>1. StoreTypeOK'
  BY DEF StoreInv, StoreTypeOK, BindMotion, Binding
<1>2. c.id = id /\ c.motion = m /\ c.action = a
  OBVIOUS
<1>3. /\ bindings' = bindings \cup {c}
      /\ a \in actions /\ actions' = actions
      /\ \A b \in bindings : b.motion # m /\ b.id # id
  BY DEF BindMotion, BindingUsed
<1>. HIDE DEF c
<1>4. OneBindingPerMotion' /\ OneBindingPerId'
  BY <1>2, <1>3 DEF StoreInv, OneBindingPerMotion, OneBindingPerId
<1>5. BindingsResolve'
  BY <1>2, <1>3 DEF StoreInv, BindingsResolve
<1>6. StampsHaveBinding'
  BY <1>3 DEF StoreInv, StampsHaveBinding, BindingUsed, BindMotion
<1>7. CooldownSpacing' /\ GrantsAreProcessed' /\ StampIsLatest'
  BY DEF StoreInv, CooldownSpacing, GrantsAreProcessed, StampIsLatest, BindMotion
<1>. QED  BY <1>1, <1>4, <1>5, <1>6, <1>7 DEF StoreInv

LEMMA DeleteBinding_Inv ==
  ASSUME StoreInv, NEW b \in bindings, DeleteBinding(b)
  PROVE  StoreInv'
<1>1. StoreTypeOK'
  BY DEF StoreInv, StoreTypeOK, DeleteBinding, Binding
<1>2. OneBindingPerMotion' /\ OneBindingPerId' /\ BindingsResolve'
  BY DEF StoreInv, OneBindingPerMotion, OneBindingPerId, BindingsResolve, DeleteBinding
<1>3. StampsHaveBinding'
  BY DEF StoreInv, StoreTypeOK, StampsHaveBinding, BindingUsed, DeleteBinding
<1>4. CooldownSpacing' /\ GrantsAreProcessed'
  BY DEF StoreInv, CooldownSpacing, GrantsAreProcessed, DeleteBinding
<1>5. StampIsLatest'
  BY DEF StoreInv, StoreTypeOK, StampIsLatest, DeleteBinding, Grant
<1>. QED  BY <1>1, <1>2, <1>3, <1>4, <1>5 DEF StoreInv

LEMMA Configure_Inv == ASSUME StoreInv, Configure PROVE StoreInv'
BY CreateAction_Inv, DeleteAction_Inv, RebindMotion_Inv, BindMotion_Inv,
   DeleteBinding_Inv DEF Configure

\* Operations that only add a log keep the invariant.
LEMMA AddLog_Inv ==
  ASSUME StoreInv,
         NEW e \in Events \cup {Manual}, NEW a \in Actions \cup {NoAction},
         NEW s \in LogStatus, AddLog(e, a, s),
         processed' \in SUBSET Events, processed \subseteq processed',
         UNCHANGED <<actions, bindings, lastExecuted, grants>>
  PROVE  StoreInv'
<1>1. StoreTypeOK'
  BY DEF StoreInv, StoreTypeOK, AddLog, Log
<1>2. /\ OneBindingPerMotion' /\ OneBindingPerId' /\ BindingsResolve'
      /\ StampsHaveBinding' /\ CooldownSpacing'
  BY DEF StoreInv, OneBindingPerMotion, OneBindingPerId, BindingsResolve,
         StampsHaveBinding, BindingUsed, CooldownSpacing
<1>3. StampIsLatest' /\ GrantsAreProcessed'
  BY DEF StoreInv, StampIsLatest, GrantsAreProcessed
<1>. QED  BY <1>1, <1>2, <1>3 DEF StoreInv

LEMMA AppendLog_Inv ==
  ASSUME StoreInv,
         NEW e \in Events \cup {Manual}, NEW a \in Actions,
         NEW s \in {"SUCCESS", "FAILED"}, AppendLog(e, a, s)
  PROVE  StoreInv'
BY AddLog_Inv DEF AppendLog, StoreInv, StoreTypeOK

LEMMA ClaimRejected_Inv ==
  ASSUME StoreInv, NEW e \in Events, ClaimRejected(e)
  PROVE  StoreInv'
<1>1. processed' \in SUBSET Events /\ processed \subseteq processed'
  BY DEF ClaimRejected, MarkProcessed, StoreInv, StoreTypeOK
<1>2. AddLog(e, NoAction, "FAILED")
  BY DEF ClaimRejected
<1>. QED  BY <1>1, <1>2, AddLog_Inv DEF ClaimRejected

LEMMA ClaimCooling_Inv ==
  ASSUME StoreInv, NEW e \in Events, NEW now \in Stamps, NEW b \in bindings,
         ClaimCooling(e, now, b)
  PROVE  StoreInv'
<1>1. processed' \in SUBSET Events /\ processed \subseteq processed'
  BY DEF ClaimCooling, MarkProcessed, StoreInv, StoreTypeOK
<1>2. AddLog(e, b.action, "COOLING_DOWN") /\ b.action \in Actions
  BY DEF ClaimCooling, StoreInv, StoreTypeOK, Binding
<1>. QED  BY <1>1, <1>2, AddLog_Inv DEF ClaimCooling

\* The stamp of the binding is at least as late as every grant it has made, so
\* a claim that is not cooling down is a full cooldown after each of them.
LEMMA ClaimGranted_Inv ==
  ASSUME StoreInv, NEW e \in Events, NEW now \in Stamps, NEW b \in bindings,
         ClaimGranted(e, now, b)
  PROVE  StoreInv'
<1>. DEFINE new == [binding |-> b.id, event |-> e, at |-> now]
<1>1. b.id \in BindingIds /\ now \in Nat /\ Cooldown \in Nat
  BY StoreConstants DEF StoreInv, StoreTypeOK, Binding
<1>2. StoreTypeOK'
  BY <1>1 DEF StoreInv, StoreTypeOK, ClaimGranted, MarkProcessed, Grant
<1>3. OneBindingPerMotion' /\ OneBindingPerId' /\ BindingsResolve'
  BY DEF StoreInv, OneBindingPerMotion, OneBindingPerId, BindingsResolve,
         ClaimGranted
<1>4. StampsHaveBinding'
  BY <1>1 DEF StoreInv, StoreTypeOK, StampsHaveBinding, BindingUsed, ClaimGranted
<1>5. \A g \in grants :
        /\ g.at \in Nat
        /\ g.binding = b.id => g.at + Cooldown <= now
  <2>. SUFFICES ASSUME NEW g \in grants
                PROVE  g.at \in Nat /\ (g.binding = b.id => g.at + Cooldown <= now)
    OBVIOUS
  <2>1. g.at \in Nat
    BY DEF StoreInv, StoreTypeOK, Grant
  <2>2. ASSUME g.binding = b.id  PROVE g.at + Cooldown <= now
    <3>1. lastExecuted[b.id] \in Nat /\ g.at <= lastExecuted[b.id]
      BY <1>1, <2>2 DEF StoreInv, StoreTypeOK, StampIsLatest
    <3>2. now >= lastExecuted[b.id] + Cooldown
      BY <1>1, <3>1 DEF ClaimGranted, CoolingDown
    <3>. QED  BY <1>1, <2>1, <3>1, <3>2
  <2>. QED  BY <2>1, <2>2
<1>6. /\ new.binding = b.id /\ new.event = e /\ new.at = now
      /\ grants' = grants \cup {new}
      /\ lastExecuted' = [lastExecuted EXCEPT ![b.id] = now]
      /\ processed' = processed \cup {e}
  BY DEF ClaimGranted, MarkProcessed
<1>. HIDE DEF new
<1>7. CooldownSpacing'
  BY <1>5, <1>6 DEF StoreInv, CooldownSpacing
<1>8. StampIsLatest'
  <2>. SUFFICES ASSUME NEW g \in grants'
                PROVE  /\ lastExecuted'[g.binding] # Never
                       /\ g.at <= lastExecuted'[g.binding]
    BY DEF StampIsLatest
  <2>1. CASE g.binding = b.id
    <3>1. lastExecuted'[b.id] = now
      BY <1>1, <1>6 DEF StoreInv, StoreTypeOK
    <3>. QED  BY <1>1, <1>5, <1>6, <2>1, <3>1
  <2>2. CASE g.binding # b.id
    <3>1. g \in grants /\ g.binding \in BindingIds
      BY <1>6, <2>2 DEF StoreInv, StoreTypeOK, Grant
    <3>. QED  BY <1>6, <2>2, <3>1 DEF StoreInv, StoreTypeOK, StampIsLatest
  <2>. QED  BY <2>1, <2>2
<1>9. GrantsAreProcessed'
  BY <1>6 DEF StoreInv, GrantsAreProcessed
<1>. QED  BY <1>2, <1>3, <1>4, <1>7, <1>8, <1>9 DEF StoreInv

LEMMA Reopen_Inv == ASSUME StoreInv, Reopen PROVE StoreInv'
<1>1. CASE Durable
  BY <1>1 DEF Reopen, storeVars, StoreInv, StoreTypeOK, OneBindingPerMotion,
          BindingsResolve, StampsHaveBinding, BindingUsed, CooldownSpacing,
          OneBindingPerId, StampIsLatest, GrantsAreProcessed
<1>2. CASE ~Durable
  BY <1>2, StoreConstants
     DEF Reopen, StoreInv, StoreTypeOK, OneBindingPerMotion, BindingsResolve,
         StampsHaveBinding, BindingUsed, CooldownSpacing, OneBindingPerId,
         StampIsLatest, GrantsAreProcessed, Binding, Log, Grant
<1>. QED  BY <1>1, <1>2

LEMMA Stutter_Inv == ASSUME StoreInv, UNCHANGED storeVars PROVE StoreInv'
BY DEF storeVars, StoreInv, StoreTypeOK, OneBindingPerMotion, BindingsResolve,
       StampsHaveBinding, BindingUsed, CooldownSpacing, OneBindingPerId,
       StampIsLatest, GrantsAreProcessed

LEMMA StoreStep_Inv ==
  ASSUME StoreInv, [StoreNext]_storeVars
  PROVE  StoreInv'
<1>1. ASSUME Configure  PROVE StoreInv'
  BY <1>1, Configure_Inv
<1>2. ASSUME NEW e \in Events, ClaimDuplicate(e)  PROVE StoreInv'
  BY <1>2, Stutter_Inv DEF ClaimDuplicate
<1>3. ASSUME NEW e \in Events, ClaimRejected(e)  PROVE StoreInv'
  BY <1>3, ClaimRejected_Inv
<1>4. ASSUME NEW e \in Events, NEW b \in bindings, NEW now \in Stamps,
             ClaimCooling(e, now, b)
      PROVE  StoreInv'
  BY <1>4, ClaimCooling_Inv
<1>5. ASSUME NEW e \in Events, NEW b \in bindings, NEW now \in Stamps,
             ClaimGranted(e, now, b)
      PROVE  StoreInv'
  BY <1>5, ClaimGranted_Inv
<1>6. ASSUME NEW e \in Events \cup {Manual}, NEW a \in Actions,
             NEW s \in {"SUCCESS", "FAILED"}, AppendLog(e, a, s)
      PROVE  StoreInv'
  BY <1>6, AppendLog_Inv
<1>7. ASSUME Reopen  PROVE StoreInv'
  BY <1>7, Reopen_Inv
<1>. QED  BY <1>1, <1>2, <1>3, <1>4, <1>5, <1>6, <1>7, Stutter_Inv DEF StoreNext

\* The inductive invariant holds whatever its callers ask of the store, for
\* any number of actions, motions, bindings and events, any cooldown, and for
\* either store.
THEOREM StoreInvariant == StoreSpec => []StoreInv
<1>1. StoreInv /\ [StoreNext]_storeVars => StoreInv'
  BY StoreStep_Inv
<1>. QED  BY <1>1, StoreInit_Inv, PTL DEF StoreSpec

\* Every variable of the store keeps its type.
THEOREM StoreTyping == StoreSpec => []StoreTypeOK
<1>1. StoreInv => StoreTypeOK
  BY DEF StoreInv
<1>. QED  BY <1>1, StoreInvariant, PTL

\* No order of bind, rebind, delete and cascade gives a motion two bindings or
\* leaves a binding without its action.
THEOREM StoreConfiguration == StoreSpec => [](OneBindingPerMotion /\ BindingsResolve)
<1>1. StoreInv => OneBindingPerMotion /\ BindingsResolve
  BY DEF StoreInv
<1>. QED  BY <1>1, StoreInvariant, PTL

\* Grants of one setting of a binding are a cooldown apart, although claims
\* reach the store with stamps read before its lock was taken.
THEOREM StoreCooldown == StoreSpec => []CooldownSpacing
<1>1. StoreInv => CooldownSpacing
  BY DEF StoreInv
<1>. QED  BY <1>1, StoreInvariant, PTL

\* A step keeps the stored logs when the store is durable.
LEMMA StoreStep_KeepsLogs ==
  [StoreNext]_storeVars => [Durable => logs \subseteq logs']_storeVars
BY DEF StoreNext, Configure, CreateAction, DeleteAction, RebindMotion, BindMotion,
       DeleteBinding, ClaimDuplicate, ClaimRejected, ClaimCooling, ClaimGranted,
       AppendLog, AddLog, Reopen, storeVars

\* No operation of a durable store changes or removes a log.
THEOREM StoreKeepsLogs == StoreSpec => LogsAreKept
BY StoreStep_KeepsLogs, PTL DEF StoreSpec, LogsAreKept

-----------------------------------------------------------------------------
(* Cooldowns are earned *)

\* A stamp is that of a claim granted since its binding was last set.
StampHasGrant ==
    \A id \in BindingIds : lastExecuted[id] # Never => \E g \in grants : g.binding = id

LEMMA StampHasGrant_Step ==
  ASSUME StoreInv, StampHasGrant, [StoreNext]_storeVars
  PROVE  StampHasGrant'
<1>1. lastExecuted \in [BindingIds -> Nat \cup {Never}]
  BY DEF StoreInv, StoreTypeOK
<1>2. ASSUME UNCHANGED <<lastExecuted, grants>> PROVE StampHasGrant'
  BY <1>2 DEF StampHasGrant
<1>3. ASSUME NEW a \in Actions, DeleteAction(a) PROVE StampHasGrant'
  <2>. DEFINE gone == {b.id : b \in {c \in bindings : c.action = a}}
  <2>1. /\ lastExecuted' = [id \in BindingIds |->
                              IF id \in gone THEN Never ELSE lastExecuted[id]]
        /\ grants' = {g \in grants : g.binding \notin gone}
    BY <1>3 DEF DeleteAction
  <2>. HIDE DEF gone
  <2>2. ASSUME NEW id \in BindingIds, lastExecuted'[id] # Never
        PROVE  \E g \in grants' : g.binding = id
    <3>1. id \notin gone /\ lastExecuted[id] # Never
      BY <2>1, <2>2
    <3>. QED  BY <2>1, <3>1 DEF StampHasGrant
  <2>. QED  BY <2>2 DEF StampHasGrant
<1>4. ASSUME NEW i, lastExecuted' = [lastExecuted EXCEPT ![i] = Never],
             grants' = {g \in grants : g.binding # i}
      PROVE  StampHasGrant'
  BY <1>1, <1>4 DEF StampHasGrant
<1>5. ASSUME NEW e \in Events, NEW b \in bindings, NEW now \in Stamps,
             ClaimGranted(e, now, b)
      PROVE  StampHasGrant'
  <2>1. PICK g : g.binding = b.id /\ grants' = grants \cup {g}
    BY <1>5 DEF ClaimGranted
  <2>2. lastExecuted' = [lastExecuted EXCEPT ![b.id] = now]
    BY <1>5 DEF ClaimGranted
  <2>. QED  BY <1>1, <2>1, <2>2 DEF StampHasGrant
<1>6. ASSUME Reopen PROVE StampHasGrant'
  BY <1>2, <1>6 DEF Reopen, storeVars, StampHasGrant
<1>. QED
  BY <1>2, <1>3, <1>4, <1>5, <1>6
     DEF StoreNext, Configure, CreateAction, RebindMotion, BindMotion, DeleteBinding,
         ClaimDuplicate, ClaimRejected, ClaimCooling, AppendLog, storeVars

LEMMA CoolingStep ==
  ASSUME StoreInv, StampHasGrant, [StoreNext]_storeVars,
         NEW l \in logs' \ logs, l.status = "COOLING_DOWN"
  PROVE  \E b \in bindings, g \in grants :
            b.motion = MotionOf[l.event] /\ g.binding = b.id
<1>1. ASSUME NEW e \in Events, NEW b \in bindings, NEW now \in Stamps,
             ClaimCooling(e, now, b)
      PROVE  \E g \in grants : b.motion = MotionOf[l.event] /\ g.binding = b.id
  <2>1. l.event = e
    BY <1>1 DEF ClaimCooling, AddLog
  <2>2. b.id \in BindingIds /\ lastExecuted[b.id] # Never
    BY <1>1 DEF ClaimCooling, CoolingDown, StoreInv, StoreTypeOK, Binding
  <2>. QED  BY <1>1, <2>1, <2>2 DEF ClaimCooling, StampHasGrant
<1>2. ASSUME NEW e, NEW a, NEW s \in {"SUCCESS", "FAILED"}, AddLog(e, a, s)  PROVE FALSE
  BY <1>2 DEF AddLog
<1>. QED
  BY <1>1, <1>2
     DEF StoreNext, Configure, CreateAction, DeleteAction, RebindMotion, BindMotion,
         DeleteBinding, ClaimDuplicate, ClaimRejected, ClaimGranted, AppendLog, Reopen,
         storeVars

\* An event is held off only for a claim its binding granted since it was last
\* set: no stamp of an old setting or of an old binding cools a new one down.
THEOREM StoreCooling == StoreSpec => CoolingNeedsGrant
<1>1. StoreInit => StampHasGrant
  BY DEF StoreInit, StampHasGrant
<1>2. StoreInv /\ StampHasGrant /\ [StoreNext]_storeVars => StampHasGrant'
  BY StampHasGrant_Step
<1>. DEFINE Earned == \A l \in logs' \ logs : l.status = "COOLING_DOWN" =>
                        \E b \in bindings, g \in grants :
                            b.motion = MotionOf[l.event] /\ g.binding = b.id
<1>3. StoreInv /\ StampHasGrant /\ [StoreNext]_storeVars => Earned
  BY CoolingStep
<1>4. CoolingNeedsGrant <=> [][Earned]_storeVars
  BY DEF CoolingNeedsGrant
<1>. HIDE DEF Earned
<1>. QED  BY <1>1, <1>2, <1>3, <1>4, StoreInvariant, PTL DEF StoreSpec

-----------------------------------------------------------------------------
(* The invariant of the service *)

LEMMA ServiceInit_Inv == Init => ServiceInv
<1>. SUFFICES ASSUME Init  PROVE ServiceInv
  OBVIOUS
<1>1. StoreInv
  BY StoreInit_Inv DEF Init
<1>2. ServiceTypeOK
  BY StoreConstants, ServiceConstants
     DEF Init, ServiceInit, ServiceTypeOK, Handler, Idle, Phases, Results, Stamps
<1>3. HandlersHold /\ HoldersAreExclusive
  BY DEF Init, ServiceInit, HandlersHold, HoldersAreExclusive, At, Idle, Working
<1>4. UnclaimedIsUntouched /\ ExecutedAtMostOnce
  BY DEF Init, StoreInit, ServiceInit, UnclaimedIsUntouched, ExecutedAtMostOnce, Logged
<1>5. OneLogPerEvent /\ LogsTellTheTruth /\ PublishedIsStored
  BY DEF Init, StoreInit, ServiceInit, OneLogPerEvent, LogsTellTheTruth, PublishedIsStored
<1>6. OutcomeRecorded /\ StoredIsPublished
  BY DEF Init, StoreInit, OutcomeRecorded, StoredIsPublished
<1>. QED  BY <1>1, <1>2, <1>3, <1>4, <1>5, <1>6 DEF ServiceInv


-----------------------------------------------------------------------------
(* What a step does to the handler that takes it.  Only h moves; p is the  *)
(* phase it moves to.                                                      *)

Moves(h, p) ==
    /\ hs' \in [Handlers -> Handler]
    /\ hs'[h].phase = p
    /\ \A g \in Handlers \ {h} : hs'[g] = hs[g]

LEMMA Types ==
  ASSUME ServiceInv, NEW h \in Handlers
  PROVE  /\ hs \in [Handlers -> Handler] /\ hs[h] \in Handler
         /\ nextLog \in Nat \ {0}
         /\ Idle \in Handler /\ Idle.phase = "idle" /\ Idle.event = Manual
         /\ 0 \in Stamps /\ clock \in Stamps
BY StoreConstants
   DEF ServiceInv, ServiceTypeOK, StoreInv, StoreTypeOK, Idle, Handler, Phases,
       Results, Stamps

LEMMA ReceiveDetection_Moves ==
  ASSUME ServiceInv, NEW h \in Handlers, NEW e \in Events, ReceiveDetection(h, e)
  PROVE  Moves(h, "claim") /\ hs'[h].event = e
<1>. DEFINE new == [Idle EXCEPT !.phase = "claim", !.event = e, !.now = clock]
<1>1. new \in Handler /\ new.phase = "claim" /\ new.event = e
  BY Types DEF Idle, Handler, Phases, Results
<1>2. hs' = [hs EXCEPT ![h] = new]
  BY DEF ReceiveDetection
<1>. HIDE DEF new
<1>. QED  BY <1>1, <1>2, Types DEF Moves

LEMMA ReceiveExecute_Moves ==
  ASSUME ServiceInv, NEW h \in Handlers, NEW a \in Actions, ReceiveExecute(h, a)
  PROVE  Moves(h, "lookup") /\ hs'[h].action = a /\ hs'[h].event = Manual
<1>. DEFINE new == [Idle EXCEPT !.phase = "lookup", !.action = a]
<1>1. new \in Handler /\ new.phase = "lookup" /\ new.action = a /\ new.event = Manual
  BY Types DEF Idle, Handler, Phases, Results
<1>2. hs' = [hs EXCEPT ![h] = new]
  BY DEF ReceiveExecute
<1>. HIDE DEF new
<1>. QED  BY <1>1, <1>2, Types DEF Moves

LEMMA ContextEnds_Moves ==
  ASSUME ServiceInv, NEW h \in Handlers, ContextEnds(h)
  PROVE  /\ Moves(h, hs[h].phase)
         /\ hs'[h].event = hs[h].event /\ hs'[h].action = hs[h].action
         /\ hs'[h].log = hs[h].log
BY Types DEF ContextEnds, Moves, Handler

LEMMA Answer_Moves ==
  ASSUME ServiceInv, NEW h \in Handlers, NEW r \in Results, Answer(h, r)
  PROVE  Moves(h, "reply")
<1>. DEFINE old == hs[h]
            new == [old EXCEPT !.phase = "reply", !.result = r,
                               !.action = NoAction, !.log = 0]
<1>1. new \in Handler /\ new.phase = "reply"
  BY Types DEF Handler, Phases
<1>2. hs' = [hs EXCEPT ![h] = new]
  BY DEF Answer
<1>. HIDE DEF new
<1>. QED  BY <1>1, <1>2, Types DEF Moves

LEMMA Publishing_Moves ==
  ASSUME ServiceInv, NEW h \in Handlers, NEW r \in Results,
         hs' = [hs EXCEPT ![h].phase = "publish", ![h].log = nextLog, ![h].result = r]
  PROVE  Moves(h, "publish") /\ hs'[h].log = nextLog
<1>1. hs' \in [Handlers -> Handler]
  BY Types DEF Handler, Phases
<1>2. hs'[h].phase = "publish" /\ hs'[h].log = nextLog
  BY Types DEF Handler
<1>. QED  BY <1>1, <1>2, Types DEF Moves

\* The result is stored, and the handler is told so or not.
Records(h) == RecordResult(h) \/ RecordCommitUnknown(h)

LEMMA RecordResult_Moves ==
  ASSUME ServiceInv, NEW h \in Handlers, RecordResult(h)
  PROVE  Moves(h, "publish") /\ hs'[h].log = nextLog
BY Types DEF RecordResult, Moves, Handler, Phases

LEMMA Records_Moves ==
  ASSUME ServiceInv, NEW h \in Handlers, Records(h)
  PROVE  /\ (Moves(h, "publish") /\ hs'[h].log = nextLog) \/ Moves(h, "reply")
         /\ ~Durable => Moves(h, "publish") /\ hs'[h].log = nextLog
BY RecordResult_Moves, Answer_Moves
   DEF Records, RecordCommitUnknown, StoreFails, Results

LEMMA Granted_Moves ==
  ASSUME ServiceInv, NEW h \in Handlers, NEW b \in bindings, ClaimAnswersGranted(h, b)
  PROVE  /\ Moves(h, "execute") /\ hs'[h].event = hs[h].event
         /\ hs'[h].action = b.action /\ b.action \in Actions
<1>1. b.action \in Actions
  BY DEF ServiceInv, StoreInv, StoreTypeOK, Binding
<1>. QED  BY <1>1, Types DEF ClaimAnswersGranted, Moves, Handler, Phases

LEMMA LookupFinds_Moves ==
  ASSUME ServiceInv, NEW h \in Handlers, LookupFinds(h)
  PROVE  /\ Moves(h, "execute") /\ hs'[h].event = hs[h].event
         /\ hs'[h].action = hs[h].action
BY Types DEF LookupFinds, Moves, Handler, Phases

LEMMA Execute_Moves ==
  ASSUME ServiceInv, NEW h \in Handlers, Execute(h)
  PROVE  /\ Moves(h, "append") /\ hs'[h].event = hs[h].event
         /\ hs'[h].action = hs[h].action
BY Types DEF Execute, Moves, Handler, Phases, Results

LEMMA Reply_Moves ==
  ASSUME ServiceInv, NEW h \in Handlers, Reply(h)
  PROVE  Moves(h, "idle")
BY Types DEF Reply, Moves

-----------------------------------------------------------------------------
(* Steps that leave the store and the history of runs alone *)

\* What h may do in such a step: take up only what its request gave it, keep
\* the event it works on unless the store is durable, and give up a log only
\* after announcing it.
Harmless(h) ==
    /\ At(h, "claim")' => hs'[h].event \in Events
    /\ At(h, "lookup")' => hs'[h].event = Manual
    /\ hs'[h].phase \in Working \cup {"lookup"} => hs'[h].action \in Actions
    /\ At(h, "publish")' => \E l \in logs : l.id = hs'[h].log
    /\ hs'[h].phase \in Working /\ hs'[h].event # Manual =>
         hs[h].phase = hs'[h].phase /\ hs[h].event = hs'[h].event
    /\ hs[h].phase \in Working /\ hs[h].event # Manual =>
         Durable \/ (hs[h].phase = hs'[h].phase /\ hs[h].event = hs'[h].event)
    /\ At(h, "publish") => \/ At(h, "publish")' /\ hs'[h].log = hs[h].log
                           \/ hs[h].log \in published'

LEMMA Quiet_Inv ==
  ASSUME ServiceInv, NEW h \in Handlers, NEW p, Moves(h, p), Harmless(h),
         UNCHANGED <<storeVars, clock, restarts, runs>>,
         published \subseteq published', published' \subseteq {l.id : l \in logs}
  PROVE  ServiceInv'
<1>1. StoreInv'
  BY Stutter_Inv DEF ServiceInv
<1>2. ServiceTypeOK'
  BY DEF ServiceInv, ServiceTypeOK, Moves, StoreInv, StoreTypeOK, Log
<1>3. HandlersHold'
  BY DEF ServiceInv, HandlersHold, Harmless, Moves, At, storeVars
<1>4. HoldersAreExclusive'
  BY DEF ServiceInv, HoldersAreExclusive, Harmless, Moves, At, Logged, storeVars
<1>5. UnclaimedIsUntouched' /\ ExecutedAtMostOnce' /\ OneLogPerEvent' /\ LogsTellTheTruth'
  BY DEF ServiceInv, UnclaimedIsUntouched, ExecutedAtMostOnce, OneLogPerEvent,
         LogsTellTheTruth, Logged, storeVars
<1>6. PublishedIsStored'
  BY DEF PublishedIsStored, storeVars
<1>7. ASSUME ~Durable  PROVE OutcomeRecorded'
  <2>. SUFFICES ASSUME NEW e \in processed, ~Logged(e)
                PROVE  InFlight(e)'
    BY DEF OutcomeRecorded, Logged, storeVars
  <2>1. PICK g \in Handlers : hs[g].phase \in Working /\ hs[g].event = e
    BY <1>7 DEF ServiceInv, OutcomeRecorded, InFlight
  <2>2. e \in Events /\ e # Manual
    BY StoreConstants DEF ServiceInv, StoreInv, StoreTypeOK
  <2>3. hs'[g].phase \in Working /\ hs'[g].event = e
    BY <1>7, <2>1, <2>2 DEF Harmless, Moves
  <2>. QED  BY <2>3 DEF InFlight
<1>8. ASSUME ~Durable  PROVE StoredIsPublished'
  <2>. SUFFICES ASSUME NEW l \in logs, l.id \notin published'
                PROVE  \E g \in Handlers : At(g, "publish")' /\ hs'[g].log = l.id
    BY DEF StoredIsPublished, storeVars
  <2>1. PICK g \in Handlers : At(g, "publish") /\ hs[g].log = l.id
    BY <1>8 DEF ServiceInv, StoredIsPublished
  <2>. QED  BY <2>1 DEF Harmless, Moves, At
<1>. QED  BY <1>1, <1>2, <1>3, <1>4, <1>5, <1>6, <1>7, <1>8 DEF ServiceInv

LEMMA Arrival_Inv ==
  ASSUME ServiceInv, NEW h \in Handlers,
         \/ \E e \in Events : ReceiveDetection(h, e)
         \/ \E a \in Actions : ReceiveExecute(h, a)
  PROVE  ServiceInv'
<1>1. At(h, "idle") /\ UNCHANGED <<storeVars, clock, published, restarts, runs>>
  BY DEF ReceiveDetection, ReceiveExecute
<1>2. ASSUME NEW e \in Events, ReceiveDetection(h, e)  PROVE ServiceInv'
  <2>1. Moves(h, "claim") /\ hs'[h].event = e
    BY <1>2, ReceiveDetection_Moves
  <2>2. Harmless(h)
    BY <1>1, <2>1 DEF Harmless, Moves, At, Working
  <2>. QED  BY <1>1, <2>1, <2>2, Quiet_Inv DEF ServiceInv, PublishedIsStored
<1>3. ASSUME NEW a \in Actions, ReceiveExecute(h, a)  PROVE ServiceInv'
  <2>1. Moves(h, "lookup") /\ hs'[h].action = a /\ hs'[h].event = Manual
    BY <1>3, ReceiveExecute_Moves
  <2>2. Harmless(h)
    BY <1>1, <2>1 DEF Harmless, Moves, At, Working
  <2>. QED  BY <1>1, <2>1, <2>2, Quiet_Inv DEF ServiceInv, PublishedIsStored
<1>. QED  BY <1>2, <1>3

LEMMA ContextEnds_Inv ==
  ASSUME ServiceInv, NEW h \in Handlers, ContextEnds(h)  PROVE ServiceInv'
<1>1. Harmless(h)
  BY ContextEnds_Moves DEF Harmless, Moves, At, ServiceInv, HandlersHold, Working
<1>. QED  BY <1>1, ContextEnds_Moves, Quiet_Inv
          DEF ContextEnds, ServiceInv, PublishedIsStored

LEMMA LookupFinds_Inv ==
  ASSUME ServiceInv, NEW h \in Handlers, LookupFinds(h)  PROVE ServiceInv'
<1>1. At(h, "lookup") /\ hs[h].event = Manual /\ hs[h].action \in Actions
  BY DEF LookupFinds, ServiceInv, HandlersHold, At
<1>2. Harmless(h)
  BY <1>1, LookupFinds_Moves DEF Harmless, Moves, At, Working
<1>. QED  BY <1>2, LookupFinds_Moves, Quiet_Inv
          DEF LookupFinds, ServiceInv, PublishedIsStored

\* Answering without having worked, or giving up work the store refused.
LEMMA Refusal_Inv ==
  ASSUME ServiceInv, NEW h \in Handlers,
         ClaimAnswersDuplicate(h) \/ ClaimFails(h) \/ LookupFails(h) \/ RecordFails(h)
  PROVE  ServiceInv'
<1>1. UNCHANGED <<storeVars, clock, published, restarts, runs>>
  BY DEF ClaimAnswersDuplicate, ClaimDuplicate, ClaimFails, LookupFails, RecordFails
<1>2. \E r \in Results : Answer(h, r)
  BY DEF ClaimAnswersDuplicate, ClaimFails, LookupFails, RecordFails, Results
<1>3. Moves(h, "reply")
  BY <1>2, Answer_Moves
<1>4. hs[h].phase \in {"claim", "lookup"} \/ (At(h, "append") /\ Durable)
  BY DEF ClaimAnswersDuplicate, ClaimFails, LookupFails, RecordFails, At, StoreFails
<1>5. Harmless(h)
  BY <1>3, <1>4 DEF Harmless, Moves, At, Working
<1>. QED  BY <1>1, <1>3, <1>5, Quiet_Inv DEF ServiceInv, PublishedIsStored

LEMMA PublishLog_Inv ==
  ASSUME ServiceInv, NEW h \in Handlers, PublishLog(h)  PROVE ServiceInv'
<1>1. Moves(h, "reply")
  BY Types, Answer_Moves DEF PublishLog, Handler
<1>2. At(h, "publish") /\ published' = published \cup {hs[h].log}
  BY DEF PublishLog
<1>3. Harmless(h)
  BY <1>1, <1>2 DEF Harmless, Moves, At, Working
<1>4. hs[h].log \in {l.id : l \in logs}
  BY <1>2 DEF ServiceInv, HandlersHold
<1>. QED  BY <1>1, <1>2, <1>3, <1>4, Quiet_Inv
          DEF PublishLog, ServiceInv, PublishedIsStored

LEMMA Reply_Inv ==
  ASSUME ServiceInv, NEW h \in Handlers, Reply(h)  PROVE ServiceInv'
<1>1. At(h, "reply")
  BY DEF Reply
<1>2. Harmless(h)
  BY <1>1, Reply_Moves DEF Harmless, Moves, At, Working
<1>. QED  BY <1>2, Reply_Moves, Quiet_Inv DEF Reply, ServiceInv, PublishedIsStored

-----------------------------------------------------------------------------
(* Steps that change the store *)

LEMMA Step_ServiceType ==
  ASSUME ServiceInv, hs' \in [Handlers -> Handler],
         UNCHANGED <<clock, published, restarts>>,
         runs' \in [Events -> Nat]
  PROVE  ServiceTypeOK'
BY DEF ServiceInv, ServiceTypeOK

\* A claim that decides the event without a command: h goes on to publish the
\* log, or, with a durable store, answers an error.
LEMMA Held_Inv ==
  ASSUME ServiceInv, NEW h \in Handlers, NEW e \in Events, NEW p,
         NEW a \in Actions \cup {NoAction}, NEW s \in {"FAILED", "COOLING_DOWN"},
         At(h, "claim"), Moves(h, p),
         \/ p = "publish" /\ hs'[h].log = nextLog
         \/ p = "reply" /\ Durable,
         StoreInv', MarkProcessed(e), AddLog(e, a, s),
         UNCHANGED <<clock, published, restarts, runs>>
  PROVE  ServiceInv'
<1>1. e \notin processed /\ processed' = processed \cup {e}
  BY DEF MarkProcessed
<1>2. PICK new : /\ new.id = nextLog /\ new.event = e /\ new.action = a
                 /\ new.status = s /\ logs' = logs \cup {new}
  BY DEF AddLog
<1>3. runs[e] = 0 /\ ~Logged(e) /\ e # Manual
  BY <1>1, StoreConstants DEF ServiceInv, UnclaimedIsUntouched
<1>4. ServiceTypeOK'
  BY Step_ServiceType DEF Moves, ServiceInv, ServiceTypeOK
<1>5. HandlersHold'
  BY <1>2 DEF ServiceInv, HandlersHold, Moves, At, Working
<1>6. HoldersAreExclusive'
  BY <1>1, <1>2 DEF ServiceInv, HoldersAreExclusive, Moves, At, Working, Logged
<1>7. UnclaimedIsUntouched' /\ ExecutedAtMostOnce'
  BY <1>1, <1>2 DEF ServiceInv, UnclaimedIsUntouched, ExecutedAtMostOnce, Logged
<1>8. OneLogPerEvent'
  BY <1>2, <1>3 DEF ServiceInv, OneLogPerEvent, Logged
<1>9. LogsTellTheTruth'
  BY <1>2, <1>3 DEF ServiceInv, LogsTellTheTruth
<1>10. PublishedIsStored'
  BY <1>2 DEF ServiceInv, PublishedIsStored
<1>11. ASSUME ~Durable  PROVE OutcomeRecorded'
  <2>. SUFFICES ASSUME NEW f \in processed, f # e, ~Logged(f)
                PROVE  InFlight(f)'
    BY <1>1, <1>2 DEF OutcomeRecorded, Logged
  <2>1. PICK g \in Handlers : hs[g].phase \in Working /\ hs[g].event = f
    BY <1>11 DEF ServiceInv, OutcomeRecorded, InFlight
  <2>2. g # h
    BY <2>1 DEF At, Working
  <2>. QED  BY <2>1, <2>2 DEF InFlight, Moves
<1>12. ASSUME ~Durable  PROVE StoredIsPublished'
  <2>1. At(h, "publish")' /\ hs'[h].log = new.id
    BY <1>2, <1>12 DEF Moves, At
  <2>2. \A g \in Handlers : At(g, "publish") => At(g, "publish")' /\ hs'[g].log = hs[g].log
    BY DEF Moves, At
  <2>. QED  BY <1>2, <1>12, <2>1, <2>2 DEF ServiceInv, StoredIsPublished
<1>. QED  BY <1>4, <1>5, <1>6, <1>7, <1>8, <1>9, <1>10, <1>11, <1>12 DEF ServiceInv

\* A claim that grants the event: h holds it, or nobody does when a durable
\* store committed and reported a failure.
LEMMA Granted_Inv ==
  ASSUME ServiceInv, NEW h \in Handlers, NEW e \in Events, NEW p,
         At(h, "claim"), Moves(h, p),
         \/ p = "execute" /\ hs'[h].event = e /\ hs'[h].action \in Actions
         \/ p = "reply" /\ Durable,
         StoreInv', MarkProcessed(e), logs' = logs,
         UNCHANGED <<clock, published, restarts, runs>>
  PROVE  ServiceInv'
<1>1. e \notin processed /\ processed' = processed \cup {e}
  BY DEF MarkProcessed
<1>2. runs[e] = 0 /\ ~Logged(e) /\ e # Manual
  BY <1>1, StoreConstants DEF ServiceInv, UnclaimedIsUntouched
<1>3. ServiceTypeOK'
  BY Step_ServiceType DEF Moves, ServiceInv, ServiceTypeOK
<1>4. HandlersHold'
  BY DEF ServiceInv, HandlersHold, Moves, At, Working
<1>5. HoldersAreExclusive'
  <2>1. \A g \in Handlers : hs[g].phase \in Working => hs[g].event # e
    BY <1>1, <1>2 DEF ServiceInv, HoldersAreExclusive
  <2>2. ASSUME NEW g \in Handlers, hs'[g].phase \in Working, hs'[g].event # Manual
        PROVE  /\ hs'[g].event \in processed'
               /\ ~Logged(hs[g].event)'
               /\ g = h => hs'[g].event = e /\ At(g, "execute")'
               /\ g # h => hs'[g] = hs[g] /\ hs[g].event # e
    BY <1>1, <1>2, <2>1, <2>2
       DEF ServiceInv, HoldersAreExclusive, Moves, At, Working, Logged
  <2>. QED  BY <1>1, <1>2, <2>2
            DEF ServiceInv, HoldersAreExclusive, Moves, At, Working, Logged
<1>6. UnclaimedIsUntouched' /\ ExecutedAtMostOnce' /\ OneLogPerEvent' /\ LogsTellTheTruth'
  BY <1>1 DEF ServiceInv, UnclaimedIsUntouched, ExecutedAtMostOnce, OneLogPerEvent,
              LogsTellTheTruth, Logged
<1>7. PublishedIsStored'
  BY DEF ServiceInv, PublishedIsStored
<1>8. ASSUME ~Durable  PROVE OutcomeRecorded'
  <2>. SUFFICES ASSUME NEW f \in processed', ~Logged(f)
                PROVE  InFlight(f)'
    BY DEF OutcomeRecorded, Logged
  <2>1. CASE f = e
    BY <1>8, <2>1 DEF InFlight, Moves, Working
  <2>2. CASE f # e
    <3>1. PICK g \in Handlers : hs[g].phase \in Working /\ hs[g].event = f
      BY <1>1, <1>8, <2>2 DEF ServiceInv, OutcomeRecorded, InFlight
    <3>2. g # h
      BY <3>1 DEF At, Working
    <3>. QED  BY <3>1, <3>2 DEF InFlight, Moves
  <2>. QED  BY <2>1, <2>2
<1>9. ASSUME ~Durable  PROVE StoredIsPublished'
  <2>1. \A g \in Handlers : At(g, "publish") => At(g, "publish")' /\ hs'[g].log = hs[g].log
    BY DEF Moves, At
  <2>. QED  BY <1>9, <2>1 DEF ServiceInv, StoredIsPublished
<1>. QED  BY <1>3, <1>4, <1>5, <1>6, <1>7, <1>8, <1>9 DEF ServiceInv

\* The holder of an event is the only one to execute it, once.
LEMMA Execute_Inv ==
  ASSUME ServiceInv, NEW h \in Handlers, Execute(h)
  PROVE  ServiceInv'
<1>1. At(h, "execute") /\ UNCHANGED <<storeVars, clock, published, restarts>>
  BY DEF Execute
<1>2. /\ Moves(h, "append") /\ hs'[h].event = hs[h].event
      /\ hs'[h].action = hs[h].action
  BY Execute_Moves
<1>3. StoreInv'
  BY <1>1, Stutter_Inv DEF ServiceInv
<1>4. UNCHANGED <<processed, logs>>
  BY <1>1 DEF storeVars
<1>5. /\ hs[h].event \in Events \cup {Manual} /\ Manual \notin Events
      /\ runs \in [Events -> Nat] /\ runs' \in [Events -> Nat]
      /\ hs[h].event # Manual =>
           /\ runs[hs[h].event] = 0 /\ runs'[hs[h].event] = 1
           /\ hs[h].event \in processed /\ ~Logged(hs[h].event)
      /\ \A e \in Events \ {hs[h].event} : runs'[e] = runs[e]
  BY <1>1, Types, StoreConstants
     DEF ServiceInv, ServiceTypeOK, HoldersAreExclusive, Execute, At, Working, Handler
<1>6. ServiceTypeOK'
  BY <1>1, <1>2, <1>5, Step_ServiceType DEF Moves
<1>7. HandlersHold'
  BY <1>1, <1>2, <1>4 DEF ServiceInv, HandlersHold, Moves, At, Working
<1>8. HoldersAreExclusive'
  <2>1. ASSUME NEW g \in Handlers
        PROVE  /\ hs'[g].event = hs[g].event
               /\ hs'[g].phase \in Working <=> hs[g].phase \in Working
               /\ g # h => hs'[g] = hs[g]
    BY <1>1, <1>2 DEF Moves, At, Working
  <2>2. ASSUME NEW g \in Handlers, hs[g].phase \in Working, hs[g].event # Manual
        PROVE  runs'[hs[g].event] = IF At(g, "execute")' THEN 0 ELSE 1
    <3>1. CASE g = h
      BY <1>2, <1>5, <2>2, <3>1 DEF At, Moves
    <3>2. CASE g # h
      <4>1. hs[g].event # hs[h].event
        BY <1>1, <2>2, <3>2 DEF ServiceInv, HoldersAreExclusive, At, Working
      <4>2. hs[g].event \in Events
        BY <2>2 DEF ServiceInv, ServiceTypeOK, Handler
      <4>. QED  BY <1>5, <2>1, <2>2, <3>2, <4>1, <4>2
                DEF ServiceInv, HoldersAreExclusive, At
    <3>. QED  BY <3>1, <3>2
  <2>. QED  BY <1>4, <2>1, <2>2 DEF ServiceInv, HoldersAreExclusive, Logged
<1>9. UnclaimedIsUntouched'
  BY <1>4, <1>5 DEF ServiceInv, UnclaimedIsUntouched, Logged
<1>10. ExecutedAtMostOnce'
  BY <1>5 DEF ServiceInv, ExecutedAtMostOnce
<1>11. OneLogPerEvent' /\ PublishedIsStored'
  BY <1>1, <1>4 DEF ServiceInv, OneLogPerEvent, PublishedIsStored
<1>12. LogsTellTheTruth'
  <2>. SUFFICES ASSUME NEW l \in logs, l.event # Manual
                PROVE  runs'[l.event] = runs[l.event]
    BY <1>4 DEF ServiceInv, LogsTellTheTruth
  <2>1. l.event \in Events
    BY DEF ServiceInv, StoreInv, StoreTypeOK, Log
  <2>2. l.event # hs[h].event
    BY <1>5 DEF Logged
  <2>. QED  BY <1>5, <2>1, <2>2
<1>13. ASSUME ~Durable  PROVE OutcomeRecorded'
  BY <1>1, <1>2, <1>4, <1>13
     DEF ServiceInv, OutcomeRecorded, InFlight, Logged, Moves, Working
<1>14. ASSUME ~Durable  PROVE StoredIsPublished'
  <2>1. \A g \in Handlers : At(g, "publish") => hs'[g] = hs[g]
    BY <1>1, <1>2 DEF Moves, At
  <2>. QED  BY <1>1, <1>4, <1>14, <2>1 DEF ServiceInv, StoredIsPublished, At
<1>. QED  BY <1>3, <1>6, <1>7, <1>8, <1>9, <1>10, <1>11, <1>12, <1>13, <1>14
          DEF ServiceInv

\* The log of an executed event is its first, and the run has happened.
LEMMA Records_Inv ==
  ASSUME ServiceInv, NEW h \in Handlers, Records(h), StoreInv'
  PROVE  ServiceInv'
<1>. DEFINE e == hs[h].event
<1>1. At(h, "append") /\ UNCHANGED <<processed, clock, published, restarts, runs>>
  BY DEF Records, RecordResult, RecordCommitUnknown, AppendResult, AppendLog
<1>2. /\ (Moves(h, "publish") /\ hs'[h].log = nextLog) \/ Moves(h, "reply")
      /\ ~Durable => Moves(h, "publish") /\ hs'[h].log = nextLog
  BY Records_Moves
<1>3. PICK new : /\ new.id = nextLog /\ new.event = e /\ new.action = hs[h].action
                 /\ new.status \in {"SUCCESS", "FAILED"} /\ logs' = logs \cup {new}
  <2>. DEFINE s == IF hs[h].result = "executed" THEN "SUCCESS" ELSE "FAILED"
              rec == [id |-> nextLog, event |-> e, action |-> hs[h].action, status |-> s]
  <2>1. logs' = logs \cup {rec} /\ s \in {"SUCCESS", "FAILED"}
    BY DEF Records, RecordResult, RecordCommitUnknown, AppendResult, AppendLog, AddLog
  <2>. HIDE DEF s
  <2>. QED  BY <2>1
<1>4. hs[h].action \in Actions /\ NoAction \notin Actions
  BY <1>1, StoreConstants DEF ServiceInv, HandlersHold, At, Working
<1>5. e # Manual => e \in processed /\ ~Logged(e) /\ runs[e] = 1
  BY <1>1 DEF ServiceInv, HoldersAreExclusive, At, Working
<1>6. \A g \in Handlers : hs[g].phase \in Working /\ hs[g].event = e /\ e # Manual => g = h
  BY <1>1 DEF ServiceInv, HoldersAreExclusive, At, Working
<1>7. Manual \notin Events
  BY StoreConstants
<1>. HIDE DEF e
<1>8. ServiceTypeOK'
  BY <1>1, <1>2, Step_ServiceType DEF Moves, ServiceInv, ServiceTypeOK
<1>9. HandlersHold'
  BY <1>2, <1>3 DEF ServiceInv, HandlersHold, Moves, At, Working
<1>10. HoldersAreExclusive'
  <2>1. ASSUME NEW g \in Handlers, hs'[g].phase \in Working, hs'[g].event # Manual
        PROVE  hs'[g] = hs[g] /\ hs[g].event # e
    BY <1>2, <1>6, <2>1 DEF Moves, Working
  <2>. QED  BY <1>1, <1>3, <2>1 DEF ServiceInv, HoldersAreExclusive, At, Logged
<1>11. UnclaimedIsUntouched'
  BY <1>1, <1>3, <1>5, <1>7 DEF ServiceInv, UnclaimedIsUntouched, Logged
<1>12. ExecutedAtMostOnce' /\ PublishedIsStored'
  BY <1>1, <1>3 DEF ServiceInv, ExecutedAtMostOnce, PublishedIsStored
<1>13. OneLogPerEvent'
  BY <1>3, <1>5 DEF ServiceInv, OneLogPerEvent, Logged
<1>14. LogsTellTheTruth'
  BY <1>1, <1>3, <1>4, <1>5 DEF ServiceInv, LogsTellTheTruth
<1>15. ASSUME ~Durable  PROVE OutcomeRecorded'
  <2>. SUFFICES ASSUME NEW f \in processed, ~Logged(f), f # e
                PROVE  InFlight(f)'
    BY <1>1, <1>3 DEF OutcomeRecorded, Logged
  <2>1. PICK g \in Handlers : hs[g].phase \in Working /\ hs[g].event = f
    BY <1>15 DEF ServiceInv, OutcomeRecorded, InFlight
  <2>2. g # h
    BY <2>1 DEF e
  <2>. QED  BY <1>2, <2>1, <2>2 DEF InFlight, Moves
<1>16. ASSUME ~Durable  PROVE StoredIsPublished'
  <2>1. At(h, "publish")' /\ hs'[h].log = new.id
    BY <1>2, <1>3, <1>16 DEF Moves, At
  <2>2. \A g \in Handlers : At(g, "publish") => At(g, "publish")' /\ hs'[g].log = hs[g].log
    BY <1>1, <1>2 DEF Moves, At
  <2>. QED  BY <1>1, <1>3, <1>16, <2>1, <2>2 DEF ServiceInv, StoredIsPublished
<1>. QED  BY <1>8, <1>9, <1>10, <1>11, <1>12, <1>13, <1>14, <1>15, <1>16 DEF ServiceInv

LEMMA Claim_Inv ==
  ASSUME ServiceInv, NEW h \in Handlers, Claim(h), StoreInv'
  PROVE  ServiceInv'
<1>1. ASSUME ClaimAnswersDuplicate(h) \/ ClaimFails(h)  PROVE ServiceInv'
  BY <1>1, Refusal_Inv
<1>2. ASSUME ClaimAnswersRejected(h)  PROVE ServiceInv'
  <2>1. Moves(h, "publish") /\ hs'[h].log = nextLog
    BY <1>2, Publishing_Moves DEF ClaimAnswersRejected, Results
  <2>2. At(h, "claim") /\ UNCHANGED <<clock, published, restarts, runs>>
    BY <1>2 DEF ClaimAnswersRejected
  <2>3. hs[h].event \in Events
    BY <2>2 DEF ServiceInv, HandlersHold
  <2>4. MarkProcessed(hs[h].event) /\ AddLog(hs[h].event, NoAction, "FAILED")
    BY <1>2 DEF ClaimAnswersRejected, ClaimRejected
  <2>. QED  BY <2>1, <2>2, <2>3, <2>4, Held_Inv
<1>3. ASSUME NEW b \in bindings, ClaimAnswersCooling(h, b)  PROVE ServiceInv'
  <2>1. Moves(h, "publish") /\ hs'[h].log = nextLog
    BY <1>3, Publishing_Moves DEF ClaimAnswersCooling, Results
  <2>2. At(h, "claim") /\ UNCHANGED <<clock, published, restarts, runs>>
    BY <1>3 DEF ClaimAnswersCooling
  <2>3. hs[h].event \in Events /\ b.action \in Actions
    BY <2>2 DEF ServiceInv, HandlersHold, StoreInv, StoreTypeOK, Binding
  <2>4. MarkProcessed(hs[h].event) /\ AddLog(hs[h].event, b.action, "COOLING_DOWN")
    BY <1>3 DEF ClaimAnswersCooling, ClaimCooling
  <2>. QED  BY <2>1, <2>2, <2>3, <2>4, Held_Inv
<1>4. ASSUME NEW b \in bindings, ClaimAnswersGranted(h, b)  PROVE ServiceInv'
  <2>1. /\ At(h, "claim") /\ UNCHANGED <<clock, published, restarts, runs>>
        /\ MarkProcessed(hs[h].event) /\ logs' = logs
    BY <1>4 DEF ClaimAnswersGranted, ClaimGranted
  <2>2. hs[h].event \in Events
    BY <2>1 DEF ServiceInv, HandlersHold
  <2>. QED  BY <1>4, <2>1, <2>2, Granted_Moves, Granted_Inv
<1>5. ASSUME ClaimCommitUnknown(h)  PROVE ServiceInv'
  <2>. DEFINE e == hs[h].event
  <2>1. /\ At(h, "claim") /\ Durable /\ UNCHANGED <<clock, published, restarts, runs>>
        /\ e \in Events
    BY <1>5 DEF ClaimCommitUnknown, StoreFails, ServiceInv, HandlersHold
  <2>2. Moves(h, "reply")
    BY <1>5, Answer_Moves DEF ClaimCommitUnknown, Results
  <2>. HIDE DEF e
  <2>3. ASSUME ClaimRejected(e)  PROVE ServiceInv'
    BY <2>1, <2>2, <2>3, Held_Inv DEF ClaimRejected
  <2>4. ASSUME NEW b \in bindings, ClaimCooling(e, hs[h].now, b)  PROVE ServiceInv'
    <3>1. b.action \in Actions
      BY DEF ServiceInv, StoreInv, StoreTypeOK, Binding
    <3>. QED  BY <2>1, <2>2, <2>4, <3>1, Held_Inv DEF ClaimCooling
  <2>5. ASSUME NEW b \in bindings, ClaimGranted(e, hs[h].now, b)  PROVE ServiceInv'
    BY <2>1, <2>2, <2>5, Granted_Inv DEF ClaimGranted
  <2>. QED  BY <1>5, <2>3, <2>4, <2>5 DEF ClaimCommitUnknown, e
<1>. QED  BY <1>1, <1>2, <1>3, <1>4, <1>5 DEF Claim

\* The UI changes the configuration; no event, log or handler is touched.
LEMMA ConfigureStore_Inv ==
  ASSUME ServiceInv, ConfigureStore
  PROVE  ServiceInv'
<1>1. UNCHANGED <<processed, logs, hs, clock, published, restarts, runs>>
  BY DEF ConfigureStore, serviceVars, Configure, CreateAction, DeleteAction,
         RebindMotion, BindMotion, DeleteBinding
<1>2. StoreInv'
  BY Configure_Inv DEF ConfigureStore, ServiceInv
<1>. QED  BY <1>1, <1>2
          DEF ServiceInv, ServiceTypeOK, HandlersHold, HoldersAreExclusive,
              UnclaimedIsUntouched, ExecutedAtMostOnce, OneLogPerEvent,
              LogsTellTheTruth, PublishedIsStored, OutcomeRecorded,
              StoredIsPublished, Logged, InFlight, At

LEMMA Tick_Inv == ASSUME ServiceInv, Tick PROVE ServiceInv'
<1>1. UNCHANGED <<storeVars, hs, published, restarts, runs>> /\ clock' \in Stamps
  BY StoreConstants DEF Tick, ServiceInv, ServiceTypeOK, Stamps
<1>2. StoreInv'
  BY <1>1, Stutter_Inv DEF ServiceInv
<1>. QED  BY <1>1, <1>2
          DEF ServiceInv, ServiceTypeOK, HandlersHold, HoldersAreExclusive,
              UnclaimedIsUntouched, ExecutedAtMostOnce, OneLogPerEvent,
              LogsTellTheTruth, PublishedIsStored, OutcomeRecorded,
              StoredIsPublished, Logged, InFlight, At, storeVars

LEMMA StutterAll_Inv == ASSUME ServiceInv, UNCHANGED vars PROVE ServiceInv'
<1>1. UNCHANGED <<storeVars, hs, published, restarts, runs, clock>>
  BY DEF vars, serviceVars
<1>2. StoreInv'
  BY <1>1, Stutter_Inv DEF ServiceInv
<1>. QED  BY <1>1, <1>2
          DEF ServiceInv, ServiceTypeOK, HandlersHold, HoldersAreExclusive,
              UnclaimedIsUntouched, ExecutedAtMostOnce, OneLogPerEvent,
              LogsTellTheTruth, PublishedIsStored, OutcomeRecorded,
              StoredIsPublished, Logged, InFlight, At, storeVars

LEMMA Restart_Inv == ASSUME ServiceInv, Restart PROVE ServiceInv'
<1>1. StoreInv'
  BY Reopen_Inv DEF Restart, ServiceInv
<1>2. ServiceTypeOK'
  <2>1. hs' \in [Handlers -> Handler]
    <3>1. Idle \in Handler
      BY StoreConstants DEF Idle, Handler, Phases, Results, Stamps
    <3>. QED  BY <3>1 DEF Restart
  <2>2. /\ UNCHANGED clock /\ published' = {} /\ restarts' = restarts + 1
        /\ runs' \in [Events -> Nat]
    BY DEF Restart, ServiceInv, ServiceTypeOK
  <2>. QED  BY <2>1, <2>2 DEF ServiceInv, ServiceTypeOK
<1>3. \A h \in Handlers : hs'[h].phase = "idle"
  BY DEF Restart, Idle
<1>4. HandlersHold' /\ HoldersAreExclusive'
  BY <1>3 DEF HandlersHold, HoldersAreExclusive, At, Working
<1>5. CASE Durable
  BY <1>1, <1>2, <1>4, <1>5
     DEF Restart, Reopen, storeVars, ServiceInv, UnclaimedIsUntouched,
         ExecutedAtMostOnce, OneLogPerEvent, LogsTellTheTruth, PublishedIsStored, Logged
<1>6. CASE ~Durable
  BY <1>1, <1>2, <1>4, <1>6
     DEF Restart, Reopen, ServiceInv, UnclaimedIsUntouched, ExecutedAtMostOnce,
         OneLogPerEvent, LogsTellTheTruth, PublishedIsStored, Logged,
         OutcomeRecorded, StoredIsPublished
<1>. QED  BY <1>5, <1>6

-----------------------------------------------------------------------------
(* Every step of the pipeline is a step the store allows *)

LEMMA Step_Store ==
  ASSUME ServiceInv, [Next]_vars
  PROVE  [StoreNext]_storeVars
<1>1. ASSUME NEW h \in Handlers, NEW e \in Events, ReceiveDetection(h, e)
      PROVE  UNCHANGED storeVars
  BY <1>1 DEF ReceiveDetection
<1>2. ASSUME NEW h \in Handlers, NEW a \in Actions, ReceiveExecute(h, a)
      PROVE  UNCHANGED storeVars
  BY <1>2 DEF ReceiveExecute
<1>3. ASSUME NEW h \in Handlers, Reply(h)  PROVE UNCHANGED storeVars
  BY <1>3 DEF Reply
<1>4. ASSUME NEW h \in Handlers, Claim(h)  PROVE [StoreNext]_storeVars
  <2>1. hs[h].now \in Stamps
    BY Types DEF Handler
  <2>2. At(h, "claim") => hs[h].event \in Events
    BY DEF ServiceInv, HandlersHold
  <2>. QED  BY <1>4, <2>1, <2>2
            DEF Claim, ClaimAnswersDuplicate, ClaimAnswersRejected, ClaimAnswersCooling,
                ClaimAnswersGranted, ClaimFails, ClaimCommitUnknown, StoreNext
<1>5. ASSUME NEW h \in Handlers, AppendResult(h)  PROVE StoreNext
  <2>1. hs[h].event \in Events \cup {Manual} /\ hs[h].action \in Actions
    BY <1>5, Types DEF Handler, AppendResult, ServiceInv, HandlersHold, At, Working
  <2>. DEFINE s == IF hs[h].result = "executed" THEN "SUCCESS" ELSE "FAILED"
  <2>2. AppendLog(hs[h].event, hs[h].action, s) /\ s \in {"SUCCESS", "FAILED"}
    BY <1>5 DEF AppendResult
  <2>. HIDE DEF s
  <2>. QED  BY <2>1, <2>2 DEF StoreNext
<1>6. ASSUME NEW h \in Handlers,
             LookupFinds(h) \/ LookupFails(h) \/ Execute(h) \/ RecordFails(h)
             \/ PublishLog(h) \/ ContextEnds(h)
      PROVE  UNCHANGED storeVars
  BY <1>6 DEF LookupFinds, LookupFails, Execute, RecordFails, PublishLog, ContextEnds
<1>7. ASSUME ConfigureStore \/ Tick \/ Restart  PROVE [StoreNext]_storeVars
  BY <1>7 DEF ConfigureStore, Tick, Restart, StoreNext
<1>8. ASSUME UNCHANGED vars  PROVE UNCHANGED storeVars
  BY <1>8 DEF vars
<1>. QED  BY <1>1, <1>2, <1>3, <1>4, <1>5, <1>6, <1>7, <1>8
          DEF Next, Backend, Serve, RecordResult, RecordCommitUnknown

LEMMA Step_Inv ==
  ASSUME ServiceInv, [Next]_vars
  PROVE  ServiceInv'
<1>1. StoreInv'
  BY Step_Store, StoreStep_Inv DEF ServiceInv
<1>2. ASSUME NEW h \in Handlers,
             \/ \E e \in Events : ReceiveDetection(h, e)
             \/ \E a \in Actions : ReceiveExecute(h, a)
      PROVE  ServiceInv'
  BY <1>2, Arrival_Inv
<1>3. ASSUME NEW h \in Handlers, Serve(h)  PROVE ServiceInv'
  BY <1>1, <1>3, Claim_Inv, LookupFinds_Inv, Refusal_Inv, Execute_Inv,
     Records_Inv, PublishLog_Inv DEF Serve, Records
<1>4. ASSUME NEW h \in Handlers, ContextEnds(h) \/ Reply(h)  PROVE ServiceInv'
  BY <1>4, ContextEnds_Inv, Reply_Inv
<1>5. ASSUME ConfigureStore \/ Tick \/ Restart  PROVE ServiceInv'
  BY <1>5, ConfigureStore_Inv, Tick_Inv, Restart_Inv
<1>. QED  BY <1>2, <1>3, <1>4, <1>5, StutterAll_Inv DEF Next, Backend

-----------------------------------------------------------------------------
(* Theorems *)

\* The inductive invariant holds for any number of concurrent requests, events,
\* actions and bindings, with either store, and through restarts.
THEOREM ServiceInvariant == Spec => []ServiceInv
<1>1. ServiceInv /\ [Next]_vars => ServiceInv'
  BY Step_Inv
<1>. QED  BY <1>1, ServiceInit_Inv, PTL DEF Spec

\* Every variable of the pipeline keeps its type.
THEOREM ServiceTyping == Spec => []TypeOK
<1>1. ServiceInv => TypeOK
  BY DEF ServiceInv, StoreInv, TypeOK
<1>. QED  BY <1>1, ServiceInvariant, PTL

\* The handlers use the store as its specification allows, so what is proved
\* of the store holds in the pipeline.
THEOREM ServiceUsesStore == Spec => StoreSpec
<1>1. Init => StoreInit
  BY DEF Init
<1>2. ServiceInv /\ [Next]_vars => [StoreNext]_storeVars
  BY Step_Store
<1>. QED  BY <1>1, <1>2, ServiceInvariant, PTL DEF Spec, StoreSpec

\* No event is executed twice, however often and concurrently it is sent.
THEOREM AtMostOnce == Spec => []ExecutedAtMostOnce
<1>1. ServiceInv => ExecutedAtMostOnce
  BY DEF ServiceInv
<1>. QED  BY <1>1, ServiceInvariant, PTL

\* Every event has at most one log, and the log says what was done.
THEOREM LogsAreSound == Spec => [](OneLogPerEvent /\ LogsTellTheTruth)
<1>1. ServiceInv => OneLogPerEvent /\ LogsTellTheTruth
  BY DEF ServiceInv
<1>. QED  BY <1>1, ServiceInvariant, PTL

\* What the hub announces is in the store.
THEOREM AnnouncedIsStored == Spec => []PublishedIsStored
<1>1. ServiceInv => PublishedIsStored
  BY DEF ServiceInv
<1>. QED  BY <1>1, ServiceInvariant, PTL

\* With the in-memory store, which never refuses a call, no outcome is lost.
THEOREM MemoryLosesNothing ==
  ~Durable => (Spec => [](OutcomeRecorded /\ StoredIsPublished))
<1>. SUFFICES ASSUME ~Durable
              PROVE  Spec => [](OutcomeRecorded /\ StoredIsPublished)
  OBVIOUS
<1>1. ServiceInv => OutcomeRecorded /\ StoredIsPublished
  BY DEF ServiceInv
<1>. QED  BY <1>1, ServiceInvariant, PTL

-----------------------------------------------------------------------------
(* The contract: every step of the pipeline is a step of the life            *)
(* DetectionContract gives an event, or leaves every event where it is.      *)

lives == [e \in Events |-> LifeOf(e)]

Doing(h, p, e) == hs[h].phase = p /\ hs[h].event = e

-----------------------------------------------------------------------------
(* Where an event is *)

LEMMA LifeUnseen ==
    ASSUME ServiceInv, NEW e \in Events, e \notin processed
    PROVE  LifeOf(e) = "unseen" /\ ~Logged(e)
<1>1. ~Logged(e)
  BY DEF ServiceInv, UnclaimedIsUntouched
<1>. QED  BY <1>1 DEF LifeOf, Logged

LEMMA LifeAtWork ==
    ASSUME ServiceInv, NEW e \in Events, NEW h \in Handlers
    PROVE  /\ Doing(h, "execute", e) => LifeOf(e) = "granted"
           /\ Doing(h, "append", e) => LifeOf(e) = "issued"
<1>1. e # Manual
  BY StoreConstants
<1>2. ASSUME Doing(h, "execute", e) \/ Doing(h, "append", e)
      PROVE  /\ e \in processed /\ ~Logged(e)
             /\ \A g \in Handlers : hs[g].phase \in Working /\ hs[g].event = e => g = h
  BY <1>1, <1>2 DEF ServiceInv, HoldersAreExclusive, Doing, Working
<1>3. ASSUME Doing(h, "execute", e) PROVE LifeOf(e) = "granted"
  BY <1>2, <1>3 DEF LifeOf, Logged, Doing, At
<1>4. ASSUME Doing(h, "append", e) PROVE LifeOf(e) = "issued"
  <2>1. ~\E g \in Handlers : At(g, "execute") /\ hs[g].event = e
    BY <1>2, <1>4 DEF At, Working, Doing
  <2>. QED  BY <1>2, <1>4, <2>1 DEF LifeOf, Logged, Doing, At
<1>. QED  BY <1>3, <1>4

\* The life of an event hangs on its claim, its logs and the handlers at work on it.
LEMMA SameLife ==
    ASSUME NEW e,
           e \in processed' <=> e \in processed,
           {l \in logs' : l.event = e} = {l \in logs : l.event = e},
           \A h \in Handlers, p \in Working : Doing(h, p, e)' <=> Doing(h, p, e)
    PROVE  LifeOf(e)' = LifeOf(e)
<1>1. /\ (\E l \in logs' : l.event = e /\ (l.status = "COOLING_DOWN" \/ l.action = NoAction))
           <=> (\E l \in logs : l.event = e /\ (l.status = "COOLING_DOWN" \/ l.action = NoAction))
      /\ (\E l \in logs' : l.event = e /\ l.status # "COOLING_DOWN" /\ l.action # NoAction)
           <=> (\E l \in logs : l.event = e /\ l.status # "COOLING_DOWN" /\ l.action # NoAction)
  OBVIOUS
<1>2. /\ (\E h \in Handlers : At(h, "execute")' /\ hs'[h].event = e)
           <=> (\E h \in Handlers : At(h, "execute") /\ hs[h].event = e)
      /\ (\E h \in Handlers : At(h, "append")' /\ hs'[h].event = e)
           <=> (\E h \in Handlers : At(h, "append") /\ hs[h].event = e)
  BY DEF Doing, At, Working
<1>. QED  BY <1>1, <1>2 DEF LifeOf

LEMMA SameLives ==
    ASSUME \A e \in Events : LifeOf(e)' = LifeOf(e)
    PROVE  lives' = lives
BY DEF lives

LEMMA OneMoves ==
    ASSUME NEW e \in Events, NEW from, NEW to,
           LifeOf(e) = from, LifeOf(e)' = to,
           \A f \in Events \ {e} : LifeOf(f)' = LifeOf(f)
    PROVE  Contract!Move(e, from, to)
<1>1. lives[e] = from
  BY DEF lives
<1>2. lives' = [lives EXCEPT ![e] = to]
  BY DEF lives
<1>. QED  BY <1>1, <1>2 DEF Contract!Move, lives

\* A handler that moves leaves alone every event it does not work on.
LEMMA OtherLives ==
    ASSUME ServiceInv, NEW h \in Handlers, NEW p, Moves(h, p),
           NEW f \in Events,
           f \in processed' <=> f \in processed,
           {l \in logs' : l.event = f} = {l \in logs : l.event = f},
           \A q \in Working : Doing(h, q, f)' <=> Doing(h, q, f)
    PROVE  LifeOf(f)' = LifeOf(f)
<1>1. \A g \in Handlers, q \in Working : Doing(g, q, f)' <=> Doing(g, q, f)
  BY DEF Moves, Doing
<1>. QED  BY <1>1, SameLife

-----------------------------------------------------------------------------
(* The steps *)

LEMMA QuietLife ==
    ASSUME ServiceInv, NEW h \in Handlers, NEW p, Moves(h, p),
           UNCHANGED <<processed, logs, runs>>,
           \A q \in Working, f \in Events : Doing(h, q, f)' <=> Doing(h, q, f)
    PROVE  UNCHANGED <<lives, runs>>
<1>1. \A f \in Events : LifeOf(f)' = LifeOf(f)
  BY OtherLives
<1>. QED  BY <1>1, SameLives

\* No handler in sight of the events: arrivals, lookups, refusals, announcements
\* and answers.
LEMMA AsideLife ==
    ASSUME ServiceInv, NEW h \in Handlers,
           \/ \E e \in Events : ReceiveDetection(h, e)
           \/ \E a \in Actions : ReceiveExecute(h, a)
           \/ Reply(h) \/ ContextEnds(h)
           \/ ClaimAnswersDuplicate(h) \/ ClaimFails(h)
           \/ LookupFinds(h) \/ LookupFails(h) \/ PublishLog(h)
    PROVE  UNCHANGED <<lives, runs>>
<1>1. UNCHANGED <<processed, logs, runs>>
  BY DEF ReceiveDetection, ReceiveExecute, Reply, ContextEnds, ClaimAnswersDuplicate,
         ClaimDuplicate, ClaimFails, LookupFinds, LookupFails, PublishLog, storeVars
<1>2. Manual \notin Events
  BY StoreConstants
<1>3. ASSUME ContextEnds(h) PROVE UNCHANGED <<lives, runs>>
  <2>1. Moves(h, hs[h].phase) /\ hs'[h].event = hs[h].event
    BY <1>3, ContextEnds_Moves
  <2>2. \A q \in Working, f \in Events : Doing(h, q, f)' <=> Doing(h, q, f)
    BY <2>1 DEF Doing, Moves
  <2>. QED  BY <1>1, <2>1, <2>2, QuietLife
<1>4. ASSUME LookupFinds(h) PROVE UNCHANGED <<lives, runs>>
  <2>1. Moves(h, "execute") /\ hs'[h].event = Manual /\ hs[h].phase = "lookup"
    BY <1>4, LookupFinds_Moves DEF LookupFinds, At, ServiceInv, HandlersHold
  <2>2. \A q \in Working, f \in Events : Doing(h, q, f)' <=> Doing(h, q, f)
    BY <1>2, <2>1 DEF Doing, Working
  <2>. QED  BY <1>1, <2>1, <2>2, QuietLife
<1>5. ASSUME ~ContextEnds(h), ~LookupFinds(h) PROVE UNCHANGED <<lives, runs>>
  <2>1. hs[h].phase \notin Working
    BY <1>5 DEF ReceiveDetection, ReceiveExecute, Reply, ClaimAnswersDuplicate,
                ClaimFails, LookupFails, PublishLog, At, Working
  <2>2. \E p \in Phases \ Working : Moves(h, p)
    <3>1. ASSUME NEW r \in Results, Answer(h, r) PROVE Moves(h, "reply")
      BY <3>1, Answer_Moves
    <3>2. hs[h].result \in Results
      BY Types DEF Handler
    <3>. QED
      BY <1>5, <3>1, <3>2, ReceiveDetection_Moves, ReceiveExecute_Moves, Reply_Moves
         DEF ClaimAnswersDuplicate, ClaimFails, LookupFails, PublishLog, Phases, Working,
             Results
  <2>3. PICK p \in Phases \ Working : Moves(h, p)
    BY <2>2
  <2>4. \A q \in Working, f \in Events : Doing(h, q, f)' <=> Doing(h, q, f)
    BY <2>1, <2>3 DEF Doing, Moves
  <2>. QED  BY <1>1, <2>3, <2>4, QuietLife
<1>. QED  BY <1>3, <1>4, <1>5

\* A claim that is decided against the command: the log is there at once.
LEMMA HoldLife ==
    ASSUME ServiceInv, NEW h \in Handlers, NEW p \in Phases \ Working, Moves(h, p),
           At(h, "claim"), NEW e \in Events, MarkProcessed(e), UNCHANGED runs,
           NEW a, NEW s, AddLog(e, a, s), a = NoAction \/ s = "COOLING_DOWN"
    PROVE  Contract!Hold(e)
<1>. DEFINE new == [id |-> nextLog, event |-> e, action |-> a, status |-> s]
<1>1. LifeOf(e) = "unseen" /\ ~Logged(e)
  BY LifeUnseen DEF MarkProcessed
<1>2. /\ logs' = logs \cup {new} /\ new.event = e /\ new.action = a /\ new.status = s
      /\ processed' = processed \cup {e}
  BY DEF AddLog, MarkProcessed
<1>. HIDE DEF new
<1>3. LifeOf(e)' = "held"
  <2>1. \A l \in logs' : l.event = e => l = new
    BY <1>1, <1>2 DEF Logged
  <2>. QED  BY <1>2, <2>1 DEF LifeOf
<1>4. ASSUME NEW f \in Events \ {e} PROVE LifeOf(f)' = LifeOf(f)
  <2>1. {l \in logs' : l.event = f} = {l \in logs : l.event = f}
    BY <1>2
  <2>2. \A q \in Working : Doing(h, q, f)' <=> Doing(h, q, f)
    BY DEF Doing, Moves, At, Working
  <2>. QED  BY <1>2, <2>1, <2>2, OtherLives
<1>. QED  BY <1>1, <1>3, <1>4, OneMoves DEF Contract!Hold

\* A granted claim, for a handler that hears of it or for nobody.
LEMMA GrantLife ==
    ASSUME ServiceInv, NEW h \in Handlers, NEW p \in {"execute", "reply"}, Moves(h, p),
           At(h, "claim"), NEW e \in Events, hs[h].event = e,
           p = "execute" => hs'[h].event = e,
           MarkProcessed(e), UNCHANGED <<logs, runs>>
    PROVE  /\ p = "execute" => Contract!Grant(e)
           /\ p = "reply" => Contract!GrantToNobody(e)
<1>1. LifeOf(e) = "unseen" /\ e \notin processed /\ processed' = processed \cup {e}
  BY LifeUnseen DEF MarkProcessed
<1>2. ~Logged(e) /\ e # Manual
  BY <1>1, StoreConstants DEF ServiceInv, UnclaimedIsUntouched
<1>3. \A g \in Handlers, q \in Working : ~Doing(g, q, e)
  BY <1>1, <1>2 DEF ServiceInv, HoldersAreExclusive, Doing
<1>4. LifeOf(e)' = IF p = "execute" THEN "granted" ELSE "lost"
  <2>1. CASE p = "execute"
    <3>1. At(h, "execute")' /\ hs'[h].event = e
      BY <2>1 DEF Moves, At
    <3>. QED  BY <2>1, <3>1, <1>1, <1>2 DEF LifeOf, Logged
  <2>2. CASE p = "reply"
    <3>1. ASSUME NEW g \in Handlers, NEW q \in Working PROVE ~Doing(g, q, e)'
      <4>1. CASE g = h
        BY <2>2, <4>1 DEF Moves, Doing, Working
      <4>2. CASE g # h
        BY <1>3, <4>2 DEF Moves, Doing
      <4>. QED  BY <4>1, <4>2
    <3>2. /\ ~\E g \in Handlers : At(g, "execute")' /\ hs'[g].event = e
          /\ ~\E g \in Handlers : At(g, "append")' /\ hs'[g].event = e
      BY <3>1 DEF Doing, At, Working
    <3>. QED  BY <2>2, <3>2, <1>1, <1>2 DEF LifeOf, Logged
  <2>. QED  BY <2>1, <2>2
<1>5. ASSUME NEW f \in Events \ {e} PROVE LifeOf(f)' = LifeOf(f)
  <2>1. \A q \in Working : Doing(h, q, f)' <=> Doing(h, q, f)
    BY DEF Doing, Moves, At, Working
  <2>. QED  BY <1>1, <2>1, OtherLives
<1>6. CASE p = "execute"
  <2>1. Contract!Move(e, "unseen", "granted")
    BY <1>1, <1>4, <1>5, <1>6, OneMoves
  <2>. QED  BY <1>6, <2>1 DEF Contract!Grant
<1>7. CASE p = "reply"
  <2>1. Contract!Move(e, "unseen", "lost")
    BY <1>1, <1>4, <1>5, <1>7, OneMoves
  <2>. QED  BY <1>7, <2>1 DEF Contract!GrantToNobody
<1>. QED  BY <1>6, <1>7

LEMMA ClaimLife ==
    ASSUME ServiceInv, NEW h \in Handlers, Claim(h)
    PROVE  Contract!ContractNext \/ UNCHANGED <<lives, runs>>
<1>a. PICK e : e = hs[h].event
  OBVIOUS
<1>0. At(h, "claim") /\ UNCHANGED runs /\ e \in Events
  BY <1>a DEF Claim, ClaimAnswersDuplicate, ClaimAnswersRejected, ClaimAnswersCooling,
         ClaimAnswersGranted, ClaimFails, ClaimCommitUnknown, ServiceInv, HandlersHold
<1>1. ASSUME ClaimAnswersDuplicate(h) \/ ClaimFails(h)
      PROVE  UNCHANGED <<lives, runs>>
  BY <1>1, AsideLife
<1>2. ASSUME ClaimAnswersRejected(h) PROVE Contract!Hold(e)
  <2>1. Moves(h, "publish")
    BY <1>2, Publishing_Moves DEF ClaimAnswersRejected, Results
  <2>2. MarkProcessed(e) /\ AddLog(e, NoAction, "FAILED")
    BY <1>a, <1>2 DEF ClaimAnswersRejected, ClaimRejected
  <2>3. "publish" \in Phases \ Working
    BY DEF Phases, Working
  <2>. QED  BY <1>0, <2>1, <2>2, <2>3, HoldLife
<1>3. ASSUME NEW b \in bindings, ClaimAnswersCooling(h, b) PROVE Contract!Hold(e)
  <2>1. Moves(h, "publish")
    BY <1>3, Publishing_Moves DEF ClaimAnswersCooling, Results
  <2>2. MarkProcessed(e) /\ AddLog(e, b.action, "COOLING_DOWN")
    BY <1>a, <1>3 DEF ClaimAnswersCooling, ClaimCooling
  <2>3. "publish" \in Phases \ Working
    BY DEF Phases, Working
  <2>. QED  BY <1>0, <2>1, <2>2, <2>3, HoldLife
<1>4. ASSUME NEW b \in bindings, ClaimAnswersGranted(h, b) PROVE Contract!Grant(e)
  <2>1. Moves(h, "execute") /\ hs'[h].event = e
    BY <1>a, <1>4, Granted_Moves
  <2>2. MarkProcessed(e) /\ UNCHANGED logs
    BY <1>a, <1>4 DEF ClaimAnswersGranted, ClaimGranted
  <2>. QED  BY <1>a, <1>0, <2>1, <2>2, GrantLife
<1>5. ASSUME ClaimCommitUnknown(h) PROVE Contract!Hold(e) \/ Contract!GrantToNobody(e)
  <2>1. Moves(h, "reply") /\ "reply" \in Phases \ Working
    BY <1>5, Answer_Moves DEF ClaimCommitUnknown, Results, Phases, Working
  <2>2. ASSUME ClaimRejected(e) PROVE Contract!Hold(e)
    BY <1>0, <2>1, <2>2, HoldLife DEF ClaimRejected
  <2>3. ASSUME NEW b \in bindings, ClaimCooling(e, hs[h].now, b) PROVE Contract!Hold(e)
    BY <1>0, <2>1, <2>3, HoldLife DEF ClaimCooling
  <2>4. ASSUME NEW b \in bindings, ClaimGranted(e, hs[h].now, b)
        PROVE  Contract!GrantToNobody(e)
    BY <1>a, <1>0, <2>1, <2>4, GrantLife DEF ClaimGranted
  <2>. QED  BY <1>a, <1>5, <2>2, <2>3, <2>4 DEF ClaimCommitUnknown
<1>. QED  BY <1>0, <1>1, <1>2, <1>3, <1>4, <1>5 DEF Claim, Contract!ContractNext

\* The command of an event is issued by the handler that was granted it.
LEMMA ExecuteLife ==
    ASSUME ServiceInv, NEW h \in Handlers, Execute(h)
    PROVE  Contract!ContractNext \/ UNCHANGED <<lives, runs>>
<1>a. PICK e : e = hs[h].event
  OBVIOUS
<1>1. /\ Moves(h, "append") /\ hs'[h].event = e /\ hs[h].phase = "execute"
      /\ UNCHANGED <<processed, logs>>
  BY <1>a, Execute_Moves DEF Execute, At, storeVars
<1>2. CASE e = Manual
  <2>1. UNCHANGED runs /\ Manual \notin Events
    BY <1>a, <1>2, StoreConstants DEF Execute
  <2>2. \A q \in Working, f \in Events : Doing(h, q, f)' <=> Doing(h, q, f)
    BY <1>a, <1>1, <1>2, <2>1 DEF Doing
  <2>. QED  BY <1>1, <2>1, <2>2, QuietLife
<1>3. CASE e # Manual
  <2>1. e \in Events /\ Doing(h, "execute", e)
    BY <1>a, <1>1, <1>3, Types DEF Handler, Doing
  <2>2. LifeOf(e) = "granted"
    BY <2>1, LifeAtWork
  <2>3. /\ e \in processed /\ ~Logged(e)
        /\ \A g \in Handlers : hs[g].phase \in Working /\ hs[g].event = e => g = h
    BY <1>a, <1>1, <1>3 DEF ServiceInv, HoldersAreExclusive, Working
  <2>4. LifeOf(e)' = "issued"
    <3>1. At(h, "append")' /\ hs'[h].event = e
      BY <1>1 DEF At, Moves
    <3>2. ~\E g \in Handlers : At(g, "execute")' /\ hs'[g].event = e
      BY <1>1, <2>3 DEF At, Moves, Working
    <3>. QED  BY <1>1, <2>3, <3>1, <3>2 DEF LifeOf, Logged
  <2>5. ASSUME NEW f \in Events \ {e} PROVE LifeOf(f)' = LifeOf(f)
    <3>1. \A q \in Working : Doing(h, q, f)' <=> Doing(h, q, f)
      BY <1>a, <1>1 DEF Doing
    <3>. QED  BY <1>1, <3>1, OtherLives
  <2>6. runs' = [runs EXCEPT ![e] = @ + 1]
    BY <1>a, <1>3 DEF Execute
  <2>7. Contract!Issue(e)
    BY <2>1, <2>2, <2>4, <2>5, <2>6, OneMoves DEF Contract!Issue
  <2>. QED  BY <2>1, <2>7 DEF Contract!ContractNext
<1>. QED  BY <1>2, <1>3

LEMMA RecordLife ==
    ASSUME ServiceInv, NEW h \in Handlers, Records(h)
    PROVE  Contract!ContractNext \/ UNCHANGED <<lives, runs>>
<1>a. PICK e : e = hs[h].event
  OBVIOUS
<1>. DEFINE s == IF hs[h].result = "executed" THEN "SUCCESS" ELSE "FAILED"
            new == [id |-> nextLog, event |-> e, action |-> hs[h].action, status |-> s]
<1>1. /\ Moves(h, "publish") \/ Moves(h, "reply")
      /\ hs[h].phase = "append"
      /\ UNCHANGED <<processed, runs>> /\ logs' = logs \cup {new}
  BY <1>a, Records_Moves
     DEF Records, RecordResult, RecordCommitUnknown, AppendResult, At, AppendLog, AddLog
<1>2. /\ hs[h].action \in Actions /\ hs[h].action # NoAction
      /\ s # "COOLING_DOWN"
  BY <1>1, StoreConstants DEF ServiceInv, HandlersHold, Working
<1>3. new.event = e /\ new.action # NoAction /\ new.status # "COOLING_DOWN"
  BY <1>2
<1>. HIDE DEF s, new
<1>4. ASSUME NEW f \in Events, f # e PROVE LifeOf(f)' = LifeOf(f)
  <2>1. {l \in logs' : l.event = f} = {l \in logs : l.event = f}
    BY <1>1, <1>3, <1>4
  <2>2. \A q \in Working : Doing(h, q, f)' <=> Doing(h, q, f)
    BY <1>a, <1>1, <1>4 DEF Doing, Moves, Working
  <2>. QED  BY <1>1, <2>1, <2>2, OtherLives
<1>5. CASE e = Manual
  <2>1. \A f \in Events : LifeOf(f)' = LifeOf(f)
    BY <1>4, <1>5, StoreConstants
  <2>. QED  BY <1>1, <2>1, SameLives
<1>6. CASE e # Manual
  <2>1. e \in Events /\ Doing(h, "append", e)
    BY <1>a, <1>1, <1>6, Types DEF Handler, Doing
  <2>2. LifeOf(e) = "issued"
    BY <2>1, LifeAtWork
  <2>3. e \in processed /\ ~Logged(e)
    BY <1>a, <1>1, <1>6 DEF ServiceInv, HoldersAreExclusive, Working
  <2>4. LifeOf(e)' = "recorded"
    <3>1. \A l \in logs' : l.event = e => l = new
      BY <1>1, <2>3 DEF Logged
    <3>2. \E l \in logs' : l.event = e /\ l.status # "COOLING_DOWN" /\ l.action # NoAction
      BY <1>1, <1>3
    <3>3. ~\E l \in logs' : l.event = e /\ (l.status = "COOLING_DOWN" \/ l.action = NoAction)
      BY <3>1, <1>3
    <3>. QED  BY <1>1, <2>3, <3>2, <3>3 DEF LifeOf
  <2>5. Contract!Record(e)
    BY <1>1, <1>4, <2>1, <2>2, <2>4, OneMoves DEF Contract!Record
  <2>. QED  BY <2>1, <2>5 DEF Contract!ContractNext
<1>. QED  BY <1>5, <1>6

LEMMA LoseLife ==
    ASSUME ServiceInv, NEW h \in Handlers, RecordFails(h)
    PROVE  Contract!ContractNext \/ UNCHANGED <<lives, runs>>
<1>a. PICK e : e = hs[h].event
  OBVIOUS
<1>1. /\ Moves(h, "reply") /\ hs[h].phase = "append"
      /\ UNCHANGED <<processed, logs, runs>>
  BY Answer_Moves DEF RecordFails, At, storeVars, Results
<1>2. ASSUME NEW f \in Events, f # e PROVE LifeOf(f)' = LifeOf(f)
  <2>1. \A q \in Working : Doing(h, q, f)' <=> Doing(h, q, f)
    BY <1>a, <1>1, <1>2 DEF Doing, Moves, Working
  <2>. QED  BY <1>1, <2>1, OtherLives
<1>3. CASE e = Manual
  <2>1. \A f \in Events : LifeOf(f)' = LifeOf(f)
    BY <1>2, <1>3, StoreConstants
  <2>. QED  BY <1>1, <2>1, SameLives
<1>4. CASE e # Manual
  <2>1. e \in Events /\ Doing(h, "append", e)
    BY <1>a, <1>1, <1>4, Types DEF Handler, Doing
  <2>2. LifeOf(e) = "issued"
    BY <2>1, LifeAtWork
  <2>3. /\ e \in processed /\ ~Logged(e)
        /\ \A g \in Handlers : hs[g].phase \in Working /\ hs[g].event = e => g = h
    BY <1>a, <1>1, <1>4 DEF ServiceInv, HoldersAreExclusive, Working
  <2>4. LifeOf(e)' = "lost"
    <3>1. /\ ~\E g \in Handlers : At(g, "execute")' /\ hs'[g].event = e
          /\ ~\E g \in Handlers : At(g, "append")' /\ hs'[g].event = e
      BY <1>1, <2>3 DEF At, Moves, Working
    <3>. QED  BY <1>1, <2>3, <3>1 DEF LifeOf, Logged
  <2>5. lives' = [f \in Events |-> IF f \in {e} THEN "lost" ELSE lives[f]]
    BY <1>2, <2>4 DEF lives
  <2>6. \A f \in {e} : lives[f] \in {"granted", "issued"}
    BY <2>1, <2>2 DEF lives
  <2>7. Contract!Lose({e})
    BY <1>1, <2>5, <2>6 DEF Contract!Lose, lives
  <2>. QED  BY <2>1, <2>7 DEF Contract!ContractNext
<1>. QED  BY <1>3, <1>4

LEMMA RestartLife ==
    ASSUME ServiceInv, Restart
    PROVE  Contract!ContractNext \/ UNCHANGED <<lives, runs>>
<1>1. \A h \in Handlers : hs'[h].phase = "idle"
  BY DEF Restart, Idle
<1>2. /\ ~\E g \in Handlers : At(g, "execute")' \/ At(g, "append")'
  BY <1>1 DEF At
<1>3. CASE Durable
  <2>1. UNCHANGED <<processed, logs, runs>>
    BY <1>3 DEF Restart, Reopen, storeVars
  <2>. DEFINE S == {e \in Events : LifeOf(e) \in {"granted", "issued"}}
  <2>2. ASSUME NEW e \in Events
        PROVE  LifeOf(e)' = IF e \in S THEN "lost" ELSE LifeOf(e)
    <3>1. CASE e \notin processed
      BY <2>1, <3>1 DEF LifeOf
    <3>2. CASE e \in processed /\ Logged(e)
      <4>1. LifeOf(e) \in {"held", "recorded"} /\ LifeOf(e)' = LifeOf(e)
        BY <2>1, <3>2 DEF LifeOf, Logged
      <4>. QED  BY <4>1
    <3>3. CASE e \in processed /\ ~Logged(e)
      <4>1. LifeOf(e)' = "lost"
        BY <1>2, <2>1, <3>3 DEF LifeOf, Logged
      <4>2. LifeOf(e) \in {"granted", "issued", "lost"}
        BY <3>3 DEF LifeOf, Logged
      <4>. QED  BY <4>1, <4>2
    <3>. QED  BY <3>1, <3>2, <3>3
  <2>3. lives' = [e \in Events |-> IF e \in S THEN "lost" ELSE lives[e]]
    BY <2>2 DEF lives
  <2>4. \A e \in S : lives[e] \in {"granted", "issued"}
    BY DEF lives
  <2>. HIDE DEF S
  <2>5. Contract!Lose(S)
    BY <2>1, <2>3, <2>4 DEF Contract!Lose, lives
  <2>6. S \in SUBSET Events
    BY DEF S
  <2>. QED  BY <2>5, <2>6 DEF Contract!ContractNext
<1>4. CASE ~Durable
  <2>1. processed' = {} /\ logs' = {} /\ runs' = [e \in Events |-> 0]
    BY <1>4 DEF Restart, Reopen
  <2>2. \A e \in Events : LifeOf(e)' = "unseen"
    BY <2>1 DEF LifeOf
  <2>3. lives' = [e \in Events |-> "unseen"]
    BY <2>2 DEF lives
  <2>. QED
    BY <1>4, <2>1, <2>3 DEF Contract!Forget, Contract!ContractNext, lives
<1>. QED  BY <1>3, <1>4, StoreConstants

LEMMA StillLife ==
    ASSUME UNCHANGED <<processed, logs, hs, runs>>
    PROVE  UNCHANGED <<lives, runs>>
<1>1. \A e \in Events : LifeOf(e)' = LifeOf(e)
  BY SameLife DEF Doing
<1>. QED  BY <1>1, SameLives

LEMMA ContractStep ==
    ASSUME ServiceInv, [Next]_vars
    PROVE  Contract!ContractNext \/ UNCHANGED <<lives, runs>>
<1>1. ASSUME NEW h \in Handlers, Serve(h)
      PROVE  Contract!ContractNext \/ UNCHANGED <<lives, runs>>
  BY <1>1, ClaimLife, AsideLife, ExecuteLife, RecordLife, LoseLife DEF Serve, Records
<1>2. ASSUME ConfigureStore \/ Tick \/ UNCHANGED vars
      PROVE  UNCHANGED <<lives, runs>>
  <2>1. UNCHANGED <<processed, logs, hs, runs>>
    BY <1>2 DEF ConfigureStore, serviceVars, Configure, CreateAction, DeleteAction,
                RebindMotion, BindMotion, DeleteBinding, Tick, vars, storeVars
  <2>. QED  BY <2>1, StillLife
<1>. QED  BY <1>1, <1>2, AsideLife, RestartLife DEF Next, Backend

-----------------------------------------------------------------------------
(* Results *)

\* With either store, through failures, ended contexts, unknown commits and
\* restarts, every event lives the life of DetectionContract: it is decided once,
\* its command is issued once, and it is lost only by a failure of the database
\* or the process (backend/README.md:17).
THEOREM PipelineKeepsContract == Spec => Contract!ContractSpec
<1>1. Init => Contract!ContractInit
  <2>. SUFFICES ASSUME Init PROVE Contract!ContractInit
    OBVIOUS
  <2>1. \A e \in Events : LifeOf(e) = "unseen"
    BY ServiceInit_Inv, LifeUnseen DEF Init, StoreInit
  <2>. QED  BY <2>1 DEF Init, ServiceInit, Contract!ContractInit
<1>2. ServiceInv /\ [Next]_vars => [Contract!ContractNext]_<<lives, runs>>
  BY ContractStep
<1>3. [Contract!ContractNext]_<<lives, runs>>
        => [Contract!ContractNext]_<<[e \in Events |-> LifeOf(e)], runs>>
  BY DEF lives
<1>. QED
  BY <1>1, <1>2, <1>3, ServiceInvariant, PTL DEF Spec, Contract!ContractSpec
=============================================================================
