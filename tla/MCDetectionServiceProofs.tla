---------------------- MODULE MCDetectionServiceProofs ----------------------
(***************************************************************************)
(* What a behaviour of MCDetectionService keeps: one that chose the        *)
(* database, and one that chose the in-memory store, for every choice of   *)
(* the constants.                                                          *)
(*                                                                         *)
(* The proofs of the service hold for both values of Durable.  The         *)
(* in-memory store is the service with Durable FALSE, so that its steps    *)
(* are covered by the same lemmas, instantiated; what is left is that the  *)
(* two instances, the one of the run and the one of the proofs, are the    *)
(* same formulas.                                                          *)
(***************************************************************************)
EXTENDS MCDetectionService, DetectionServiceProofs

Volatile == INSTANCE DetectionServiceProofs WITH Durable <- FALSE, DatabaseFails <- FALSE

\* A step of the in-memory store.
LEMMA SameSteps ==
    /\ Memory!Next <=> Volatile!Next
    /\ Volatile!vars = vars
  BY DEF Memory!storeVars, Volatile!storeVars, Memory!Never, Volatile!Never,
         Memory!AddLog, Volatile!AddLog, Memory!AppendLog,
         Volatile!AppendLog, Memory!ClaimDuplicate, Volatile!ClaimDuplicate,
         Memory!MarkProcessed, Volatile!MarkProcessed, Memory!ClaimRejected,
         Volatile!ClaimRejected, Memory!CoolingDown, Volatile!CoolingDown,
         Memory!ClaimCooling, Volatile!ClaimCooling, Memory!ClaimGranted,
         Volatile!ClaimGranted, Memory!Reopen, Volatile!Reopen,
         Memory!BindingUsed, Volatile!BindingUsed, Memory!CreateAction,
         Volatile!CreateAction, Memory!DeleteAction, Volatile!DeleteAction,
         Memory!RebindMotion, Volatile!RebindMotion, Memory!BindMotion,
         Volatile!BindMotion, Memory!DeleteBinding, Volatile!DeleteBinding,
         Memory!Configure, Volatile!Configure, Memory!serviceVars,
         Volatile!serviceVars, Memory!vars, Volatile!vars, Memory!Idle,
         Volatile!Idle, Memory!At, Volatile!At, Memory!StoreAnswers,
         Volatile!StoreAnswers, Memory!StoreFails, Volatile!StoreFails,
         Memory!Answer, Volatile!Answer, Memory!ReceiveDetection,
         Volatile!ReceiveDetection, Memory!ReceiveExecute,
         Volatile!ReceiveExecute, Memory!ContextEnds, Volatile!ContextEnds,
         Memory!ClaimAnswersDuplicate, Volatile!ClaimAnswersDuplicate,
         Memory!ClaimAnswersRejected, Volatile!ClaimAnswersRejected,
         Memory!ClaimAnswersCooling, Volatile!ClaimAnswersCooling,
         Memory!ClaimAnswersGranted, Volatile!ClaimAnswersGranted,
         Memory!ClaimFails, Volatile!ClaimFails, Memory!ClaimCommitUnknown,
         Volatile!ClaimCommitUnknown, Memory!LookupFinds,
         Volatile!LookupFinds, Memory!LookupFails, Volatile!LookupFails,
         Memory!Execute, Volatile!Execute, Memory!RecordResult,
         Volatile!RecordResult, Memory!AppendResult, Volatile!AppendResult,
         Memory!RecordFails, Volatile!RecordFails,
         Memory!RecordCommitUnknown, Volatile!RecordCommitUnknown,
         Memory!PublishLog, Volatile!PublishLog, Memory!Reply,
         Volatile!Reply, Memory!ConfigureStore, Volatile!ConfigureStore,
         Memory!Tick, Volatile!Tick, Memory!Restart, Volatile!Restart,
         Memory!Claim, Volatile!Claim, Memory!Serve, Volatile!Serve,
         Memory!Backend, Volatile!Backend, Memory!Next, Volatile!Next, vars,
         storeVars, serviceVars

\* The invariant with Durable FALSE says of the outcomes what it says under a
\* condition otherwise; the rest does not depend on the store.
LEMMA SameInvariant ==
    /\ Volatile!ServiceInv <=> ServiceInv /\ OutcomeRecorded /\ StoredIsPublished
    /\ Volatile!ServiceInv' <=> ServiceInv' /\ OutcomeRecorded' /\ StoredIsPublished'
  BY DEF StoreTypeOK, Volatile!StoreTypeOK, OneBindingPerMotion,
         Volatile!OneBindingPerMotion, BindingsResolve,
         Volatile!BindingsResolve, StampsHaveBinding,
         Volatile!StampsHaveBinding, CooldownSpacing,
         Volatile!CooldownSpacing, OneBindingPerId, Volatile!OneBindingPerId,
         StampIsLatest, Volatile!StampIsLatest, GrantsAreProcessed,
         Volatile!GrantsAreProcessed, StoreInv, Volatile!StoreInv,
         ServiceTypeOK, Volatile!ServiceTypeOK, HandlersHold,
         Volatile!HandlersHold, HoldersAreExclusive,
         Volatile!HoldersAreExclusive, UnclaimedIsUntouched,
         Volatile!UnclaimedIsUntouched, ExecutedAtMostOnce,
         Volatile!ExecutedAtMostOnce, OneLogPerEvent,
         Volatile!OneLogPerEvent, LogsTellTheTruth,
         Volatile!LogsTellTheTruth, PublishedIsStored,
         Volatile!PublishedIsStored, OutcomeRecorded,
         Volatile!OutcomeRecorded, StoredIsPublished,
         Volatile!StoredIsPublished, Logged, Volatile!Logged, InFlight,
         Volatile!InFlight, Working, Volatile!Working, At, Volatile!At,
         ServiceInv, Volatile!ServiceInv, Stamps, Volatile!Stamps, Binding,
         Volatile!Binding, LogStatus, Volatile!LogStatus, Log, Volatile!Log,
         Grant, Volatile!Grant, Phases, Volatile!Phases, Results,
         Volatile!Results, Handler, Volatile!Handler, BindingUsed,
         Volatile!BindingUsed, Never, Volatile!Never

\* The lives of the events are read off the same state.
LEMMA SameContract ==
    /\ Memory!Contract!ContractNext <=> Volatile!Contract!ContractNext
    /\ Volatile!lives = lives /\ Volatile!lives' = lives'
  BY DEF Memory!Contract!Hold, Volatile!Contract!Hold, Memory!Contract!Grant,
         Volatile!Contract!Grant, Memory!Contract!GrantToNobody,
         Volatile!Contract!GrantToNobody, Memory!Contract!Issue,
         Volatile!Contract!Issue, Memory!Contract!Record,
         Volatile!Contract!Record, Memory!Contract!Lose,
         Volatile!Contract!Lose, Memory!Contract!Forget,
         Volatile!Contract!Forget, Memory!Contract!Move,
         Volatile!Contract!Move, Memory!Contract!ContractNext,
         Volatile!Contract!ContractNext, Memory!LifeOf, Volatile!LifeOf,
         LifeOf, Memory!At, Volatile!At, At, Volatile!lives, lives

-----------------------------------------------------------------------------
(* The invariant *)

StoresInv == ServiceInv /\ MemoryKeepsOutcomes

LEMMA StoresStart == MCInit => StoresInv
<1>. SUFFICES ASSUME MCInit PROVE StoresInv
  OBVIOUS
<1>1. ServiceInv
  BY ServiceInit_Inv DEF MCInit
<1>2. OutcomeRecorded /\ StoredIsPublished
  BY DEF MCInit, Init, StoreInit, OutcomeRecorded, StoredIsPublished
<1>. QED  BY <1>1, <1>2 DEF StoresInv, MemoryKeepsOutcomes

LEMMA StoresStep ==
    ASSUME StoresInv, [MCNext]_<<vars, kind>>
    PROVE  /\ StoresInv'
           /\ \/ kind = "postgres" /\ Contract!ContractNext
              \/ kind # "postgres" /\ Memory!Contract!ContractNext
              \/ UNCHANGED <<lives, runs>>
<1>1. CASE kind = "postgres" /\ Next /\ UNCHANGED kind
  <2>1. ServiceInv'
    BY <1>1, Step_Inv DEF StoresInv
  <2>2. Contract!ContractNext \/ UNCHANGED <<lives, runs>>
    BY <1>1, ContractStep DEF StoresInv
  <2>. QED  BY <1>1, <2>1, <2>2 DEF StoresInv, MemoryKeepsOutcomes
<1>2. CASE kind = "memory" /\ Memory!Next /\ UNCHANGED kind
  <2>1. Volatile!ServiceInv /\ [Volatile!Next]_Volatile!vars
    BY <1>2, SameSteps, SameInvariant DEF StoresInv, MemoryKeepsOutcomes
  <2>2. Volatile!ServiceInv'
    BY <2>1, StoreConstants, ServiceConstants, Volatile!Step_Inv
  <2>3. Volatile!Contract!ContractNext \/ UNCHANGED <<Volatile!lives, runs>>
    BY <2>1, StoreConstants, ServiceConstants, Volatile!ContractStep
  <2>4. Memory!Contract!ContractNext \/ UNCHANGED <<lives, runs>>
    BY <2>3, SameContract
  <2>. QED  BY <1>2, <2>2, <2>4, SameInvariant DEF StoresInv, MemoryKeepsOutcomes
<1>3. CASE UNCHANGED <<vars, kind>>
  <2>1. ServiceInv' /\ UNCHANGED <<processed, logs, hs, runs>>
    BY <1>3, StutterAll_Inv DEF StoresInv, vars, storeVars, serviceVars
  <2>2. UNCHANGED <<lives, runs>>
    BY <2>1, StillLife
  <2>3. (OutcomeRecorded <=> OutcomeRecorded') /\ (StoredIsPublished <=> StoredIsPublished')
    BY <1>3 DEF vars, storeVars, serviceVars, OutcomeRecorded, StoredIsPublished, Logged,
       InFlight, At
  <2>. QED  BY <1>3, <2>1, <2>2, <2>3 DEF StoresInv, MemoryKeepsOutcomes
<1>. QED  BY <1>1, <1>2, <1>3 DEF MCNext

-----------------------------------------------------------------------------
(* Results *)

\* Over either store, with the database failing wherever the run lets it fail, every
\* reachable state of the service satisfies the inductive invariant: what a request knows of its
\* claim and its binding (service.go) agrees with what the store it was started over holds.
THEOREM StoresInvariant == MCSpec => []StoresInv
<1>1. StoresInv /\ [MCNext]_<<vars, kind>> => StoresInv'
  BY StoresStep
<1>. QED  BY <1>1, StoresStart, PTL DEF MCSpec

\* The in-memory store, with a process that may die and clients that may go, loses
\* no outcome and no announcement (store/memory.go:242, service/service.go:107).
THEOREM MemoryKeeps == MCSpec => []MemoryKeepsOutcomes
<1>1. StoresInv => MemoryKeepsOutcomes
  BY DEF StoresInv
<1>. QED  BY <1>1, StoresInvariant, PTL

\* Each store lives its own contract: with the database no event is ever forgotten,
\* with the in-memory store all are, but only at once (backend/README.md:17).
THEOREM StoresKeepContract == MCSpec => ImplementsContract
<1>. DEFINE A == IF kind = "postgres" THEN Contract!ContractNext
                 ELSE Memory!Contract!ContractNext
            v == <<[e \in Events |-> LifeOf(e)], runs>>
<1>1. MCInit => Contract!ContractInit
  <2>. SUFFICES ASSUME MCInit PROVE Contract!ContractInit
    OBVIOUS
  <2>1. \A e \in Events : LifeOf(e) = "unseen"
    BY ServiceInit_Inv, LifeUnseen DEF MCInit, Init, StoreInit
  <2>. QED  BY <2>1 DEF MCInit, Init, ServiceInit, Contract!ContractInit
<1>2. StoresInv /\ [MCNext]_<<vars, kind>> => [A]_v
  BY StoresStep DEF lives
<1>3. ImplementsContract <=> Contract!ContractInit /\ [][A]_v
  BY DEF ImplementsContract
<1>. HIDE DEF A, v
<1>. QED  BY <1>1, <1>2, <1>3, StoresInvariant, PTL DEF MCSpec
=============================================================================
