--------------------------- MODULE DetectionStore ---------------------------
(***************************************************************************)
(* The repository of the Go backend as its callers see it: actions,        *)
(* motion bindings with their cooldown stamps, the processed event ids     *)
(* and the action logs.  Every operation is one atomic step, as it is in   *)
(* the in-memory store, where a mutex is held from the first line of an    *)
(* operation to the last (backend/internal/store/memory.go).               *)
(*                                                                         *)
(* Abstractions.  A camera and a motion code are folded into MotionOf: the *)
(* motion an event selects when its camera is registered and enabled and   *)
(* its motion code is registered, Unresolved otherwise.  A log keeps the   *)
(* fields the properties compare.  The flag is_enabled of a binding is     *)
(* left out: both stores only ever write TRUE to it.  Times are whole      *)
(* numbers of an arbitrary unit.                                           *)
(***************************************************************************)
EXTENDS Integers, FiniteSets

CONSTANTS
    Events,       \* event ids the recognition workers can send
    Motions,      \* registered motions
    Actions,      \* action ids that can come to exist
    BindingIds,   \* binding ids that can come to exist
    SeedActions,  \* actions present in a new store
    MotionOf,     \* [Events -> Motions \cup {Unresolved}]
    Unresolved,   \* camera or motion unknown, or camera disabled
    NoAction,     \* empty action id of a log
    Manual,       \* event id of an execution a user asked for
    Cooldown,     \* ACTION_COOLDOWN_SECONDS
    Durable,      \* TRUE: PostgreSQL, FALSE: in-memory store
    MaxStamp      \* bound: latest time stamp a request can carry

ASSUME StoreConstants ==
    /\ SeedActions \subseteq Actions
    /\ Unresolved \notin Motions
    /\ MotionOf \in [Events -> Motions \cup {Unresolved}]
    /\ NoAction \notin Actions
    /\ Manual \notin Events
    /\ Cooldown \in Nat
    /\ Durable \in BOOLEAN
    /\ MaxStamp \in Nat

VARIABLES
    actions,       \* ids of the existing actions
    bindings,      \* existing bindings
    lastExecuted,  \* cooldown stamp of a binding id, Never when it has none
    processed,     \* event ids already claimed
    logs,          \* stored action logs
    nextLog,       \* id of the next log: ids are fresh, and grow with age
    grants         \* history: claims granted since the binding was last set

storeVars ==
    <<actions, bindings, lastExecuted, processed, logs, nextLog, grants>>

Never == -1
Stamps == 0 .. MaxStamp

Binding == [id : BindingIds, motion : Motions, action : Actions]
LogStatus == {"SUCCESS", "FAILED", "COOLING_DOWN"}
Log == [id : Nat \ {0}, event : Events \cup {Manual},
        action : Actions \cup {NoAction}, status : LogStatus]
Grant == [binding : BindingIds, event : Events, at : Nat]

StoreTypeOK ==
    /\ actions \in SUBSET Actions
    /\ bindings \in SUBSET Binding
    /\ lastExecuted \in [BindingIds -> Nat \cup {Never}]
    /\ processed \in SUBSET Events
    /\ logs \in SUBSET Log
    /\ nextLog \in Nat \ {0}
    /\ grants \in SUBSET Grant

StoreInit ==
    /\ actions = SeedActions
    /\ bindings = {}
    /\ lastExecuted = [b \in BindingIds |-> Never]
    /\ processed = {}
    /\ logs = {}
    /\ nextLog = 1
    /\ grants = {}

-----------------------------------------------------------------------------
(* Configuration: actions and bindings *)

BindingUsed(id) == \E b \in bindings : b.id = id

\* Identifiers are random and never repeat; an id that no stored record uses
\* stands for a fresh one.
CreateAction(a) ==
    /\ a \notin actions
    /\ actions' = actions \cup {a}
    /\ UNCHANGED <<bindings, lastExecuted, processed, logs, nextLog, grants>>

\* The bindings that use the action go with it, and so do their stamps.
DeleteAction(a) ==
    LET cascade == {b \in bindings : b.action = a}
        gone == {b.id : b \in cascade}
    IN  /\ a \in actions
        /\ actions' = actions \ {a}
        /\ bindings' = bindings \ cascade
        /\ lastExecuted' = [id \in BindingIds |->
                              IF id \in gone THEN Never ELSE lastExecuted[id]]
        /\ grants' = {g \in grants : g.binding \notin gone}
        /\ UNCHANGED <<processed, logs, nextLog>>

\* Mutant of RebindMotion: the cooldown of the old action is not reset.
RebindMotion_KeepsStamp(b, a) ==
    /\ a \in actions
    /\ bindings' = (bindings \ {b})
                    \cup {[id |-> b.id, motion |-> b.motion, action |-> a]}
    /\ grants' = {g \in grants : g.binding # b.id}
    /\ UNCHANGED <<actions, lastExecuted, processed, logs, nextLog>>

\* A motion that has a binding keeps it: the action changes, the stamp goes.
RebindMotion(b, a) ==
    /\ a \in actions
    /\ bindings' = (bindings \ {b})
                    \cup {[id |-> b.id, motion |-> b.motion, action |-> a]}
    /\ lastExecuted' = [lastExecuted EXCEPT ![b.id] = Never]
    /\ grants' = {g \in grants : g.binding # b.id}
    /\ UNCHANGED <<actions, processed, logs, nextLog>>

BindMotion(id, m, a) ==
    /\ a \in actions
    /\ \A b \in bindings : b.motion # m
    /\ ~BindingUsed(id)
    /\ bindings' = bindings \cup {[id |-> id, motion |-> m, action |-> a]}
    /\ UNCHANGED <<actions, lastExecuted, processed, logs, nextLog, grants>>

DeleteBinding(b) ==
    /\ bindings' = bindings \ {b}
    /\ lastExecuted' = [lastExecuted EXCEPT ![b.id] = Never]
    /\ grants' = {g \in grants : g.binding # b.id}
    /\ UNCHANGED <<actions, processed, logs, nextLog>>

Configure ==
    \/ \E a \in Actions : CreateAction(a) \/ DeleteAction(a)
    \/ \E b \in bindings, a \in Actions : RebindMotion(b, a)
    \/ \E id \in BindingIds, m \in Motions, a \in Actions : BindMotion(id, m, a)
    \/ \E b \in bindings : DeleteBinding(b)

-----------------------------------------------------------------------------
(* Claiming a detection event, and recording logs *)

AddLog(e, a, s) ==
    /\ logs' = logs \cup {[id |-> nextLog, event |-> e, action |-> a, status |-> s]}
    /\ nextLog' = nextLog + 1

AppendLog(e, a, s) ==
    /\ AddLog(e, a, s)
    /\ UNCHANGED <<actions, bindings, lastExecuted, processed, grants>>

ClaimDuplicate(e) ==
    /\ e \in processed
    /\ UNCHANGED storeVars

MarkProcessed(e) ==
    /\ e \notin processed
    /\ processed' = processed \cup {e}

ClaimRejected(e) ==
    /\ MarkProcessed(e)
    /\ \A b \in bindings : b.motion # MotionOf[e]
    /\ AddLog(e, NoAction, "FAILED")
    /\ UNCHANGED <<actions, bindings, lastExecuted, grants>>

\* Mutant of CoolingDown: the cooldown ends one unit early.
CoolingDown_TooShort(b, now) ==
    /\ lastExecuted[b.id] # Never
    /\ now + 1 < lastExecuted[b.id] + Cooldown

CoolingDown(b, now) ==
    /\ lastExecuted[b.id] # Never
    /\ now < lastExecuted[b.id] + Cooldown

ClaimCooling(e, now, b) ==
    /\ MarkProcessed(e)
    /\ b.motion = MotionOf[e]
    /\ CoolingDown(b, now)
    /\ AddLog(e, b.action, "COOLING_DOWN")
    /\ UNCHANGED <<actions, bindings, lastExecuted, grants>>

\* Mutants of ClaimGranted: only the first grant sets the stamp; only events
\* that were held off are marked as processed.
ClaimGranted_StampsOnce(e, now, b) ==
    /\ MarkProcessed(e)
    /\ b.motion = MotionOf[e]
    /\ ~CoolingDown(b, now)
    /\ lastExecuted' = [lastExecuted EXCEPT ![b.id] = IF @ = Never THEN now ELSE @]
    /\ grants' = grants \cup {[binding |-> b.id, event |-> e, at |-> now]}
    /\ UNCHANGED <<actions, bindings, logs, nextLog>>

ClaimGranted_Unmarked(e, now, b) ==
    /\ e \notin processed
    /\ b.motion = MotionOf[e]
    /\ ~CoolingDown(b, now)
    /\ lastExecuted' = [lastExecuted EXCEPT ![b.id] = now]
    /\ grants' = grants \cup {[binding |-> b.id, event |-> e, at |-> now]}
    /\ UNCHANGED <<actions, bindings, processed, logs, nextLog>>

ClaimGranted(e, now, b) ==
    /\ MarkProcessed(e)
    /\ b.motion = MotionOf[e]
    /\ ~CoolingDown(b, now)
    /\ lastExecuted' = [lastExecuted EXCEPT ![b.id] = now]
    /\ grants' = grants \cup {[binding |-> b.id, event |-> e, at |-> now]}
    /\ UNCHANGED <<actions, bindings, logs, nextLog>>

-----------------------------------------------------------------------------
(* A new process: PostgreSQL keeps its tables, the in-memory store starts  *)
(* again from its seed.                                                    *)

\* Mutant of Reopen: the processed event ids are kept in memory only.
Reopen_ForgetsEvents ==
    /\ processed' = {}
    /\ UNCHANGED <<actions, bindings, lastExecuted, logs, nextLog, grants>>

Reopen ==
    IF Durable
    THEN UNCHANGED storeVars
    ELSE /\ actions' = SeedActions
         /\ bindings' = {}
         /\ lastExecuted' = [b \in BindingIds |-> Never]
         /\ processed' = {}
         /\ logs' = {}
         /\ grants' = {}
         /\ UNCHANGED nextLog

\* The callers: any request, with any stamp (a request reads the clock before
\* it takes the lock, so stamps reach the store out of order).
StoreNext ==
    \/ Configure
    \/ \E e \in Events : ClaimDuplicate(e) \/ ClaimRejected(e)
    \/ \E e \in Events, b \in bindings, now \in Stamps :
          ClaimCooling(e, now, b) \/ ClaimGranted(e, now, b)
    \/ \E e \in Events \cup {Manual}, a \in Actions, s \in {"SUCCESS", "FAILED"} :
          AppendLog(e, a, s)
    \/ Reopen

StoreSpec == StoreInit /\ [][StoreNext]_storeVars

-----------------------------------------------------------------------------
(* Properties *)

\* A motion never has two bindings, whatever order of bind, rebind, delete and
\* cascade requests reaches the store.
OneBindingPerMotion ==
    \A b, c \in bindings : b.motion = c.motion => b = c

\* A binding always points to an existing action: deleting the action took its
\* bindings along, so a claim never picks the zero Action of the map lookup.
BindingsResolve == \A b \in bindings : b.action \in actions

\* No cooldown stamp outlives its binding, so a new binding starts free.
StampsHaveBinding ==
    \A id \in BindingIds : lastExecuted[id] # Never => BindingUsed(id)

\* Two claims a binding granted since it was last set are at least the
\* cooldown apart, by the stamps the requests carry, in whatever order the
\* requests took the lock.
CooldownSpacing ==
    \A g, h \in grants :
        g.binding = h.binding /\ g # h =>
            g.at + Cooldown <= h.at \/ h.at + Cooldown <= g.at

\* What makes these inductive: an id names one binding, the stamp of a binding
\* is that of its latest grant, and a grant is for a processed event, so an
\* event is granted once.
OneBindingPerId == \A b, c \in bindings : b.id = c.id => b = c
StampIsLatest ==
    \A g \in grants : /\ lastExecuted[g.binding] # Never
                      /\ g.at <= lastExecuted[g.binding]
GrantsAreProcessed == \A g \in grants : g.event \in processed

\* The inductive invariant of the store.
StoreInv ==
    /\ StoreTypeOK
    /\ OneBindingPerMotion
    /\ BindingsResolve
    /\ StampsHaveBinding
    /\ CooldownSpacing
    /\ OneBindingPerId
    /\ StampIsLatest
    /\ GrantsAreProcessed

\* An event is held off as "cooling down" only when its binding has granted a
\* claim since it was last set: setting a binding resets the cooldown.
CoolingNeedsGrant ==
    [][\A l \in logs' \ logs : l.status = "COOLING_DOWN" =>
          \E b \in bindings, g \in grants :
              b.motion = MotionOf[l.event] /\ g.binding = b.id]_storeVars

\* Logs are history: with PostgreSQL no operation, the deletion of the action
\* they name included, changes or removes a stored log.
LogsAreKept == [][Durable => logs \subseteq logs']_storeVars
=============================================================================
