------------------------- MODULE MCDetectionService -------------------------
(* The service over PostgreSQL or over the in-memory store; a behaviour has *)
(* one of the two.                                                          *)
EXTENDS DetectionProperties, TLC

CONSTANTS e1, e2, m1, MaxLogs

VARIABLE kind

MCEvents == {e1, e2}
MCMotions == {m1}
MCMotionOf == (e1 :> m1) @@ (e2 :> m1)

Memory == INSTANCE DetectionProperties WITH Durable <- FALSE, DatabaseFails <- FALSE

\* Bound: a request is accepted only while every busy handler, it included,
\* could still store a log without exceeding MaxLogs.  Handlers are never held up.
Busy == {h \in Handlers : ~At(h, "idle")}
Bounded == Busy' \subseteq Busy \/ nextLog + Cardinality(Busy') <= MaxLogs + 1

MCInit == Init /\ kind \in {"postgres", "memory"}

MCNext ==
    /\ \/ kind = "postgres" /\ Next
       \/ kind = "memory" /\ Memory!Next
    /\ Bounded
    /\ UNCHANGED kind

MCSpec == MCInit /\ [][MCNext]_<<vars, kind>>

\* The in-memory store loses no outcome and no announcement as long as the process
\* lives: every processed event has its log or a handler that will write it, and
\* every log is or will be announced (store/memory.go:242, service/service.go:107).
MemoryKeepsOutcomes == kind = "memory" => OutcomeRecorded /\ StoredIsPublished

\* The pipeline implements the life of an event that DetectionContract states,
\* each store under its own contract: only the in-memory store ever forgets
\* (backend/README.md:17).
ImplementsContract ==
    /\ Contract!ContractInit
    /\ [][IF kind = "postgres" THEN Contract!ContractNext ELSE Memory!Contract!ContractNext
         ]_<<[e \in Events |-> LifeOf(e)], runs>>

MCSymmetry ==
    Permutations(MCEvents) \cup Permutations(Handlers) \cup Permutations(BindingIds)
=============================================================================
