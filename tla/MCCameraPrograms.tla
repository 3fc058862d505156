--------------------------- MODULE MCCameraPrograms ---------------------------
(* The two programs that read a camera beside the worker.  A behaviour is   *)
(* one of the monitor, with its threads, or one of the collector.           *)
EXTENDS DetectionMonitor, LandmarkCollector

VARIABLE program

MCVars == <<program, monitorVars, collectorVars>>

MCInit ==
    /\ program \in {"monitor", "collector"}
    /\ MonitorInit /\ CollectorInit
    /\ program = "collector" => kind = "mjpeg"

Monitors == program = "monitor" /\ UNCHANGED <<program, collectorVars>>
Collects == program = "collector" /\ UNCHANGED <<program, monitorVars>>

MCNext == (Monitors /\ MonitorNext) \/ (Collects /\ CollectorNext)

MCFairness ==
    /\ WF_monitorVars(Monitors /\ MainNext)
    /\ WF_monitorVars(Monitors /\ ReaderNext /\ UNCHANGED <<writerVars, loopVars>>)
    /\ WF_monitorVars(Monitors /\ WriterNext /\ UNCHANGED <<sourceVars, loopVars>>)

MCSpec == MCInit /\ [][MCNext]_MCVars /\ MCFairness
===============================================================================
