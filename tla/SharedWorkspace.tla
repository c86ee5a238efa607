--------------------------- MODULE SharedWorkspace ---------------------------
(***************************************************************************)
(* Two processes, A and B, that open the same workspace directory.  The    *)
(* files are shared, everything else is per process: FileLock exists in    *)
(* vectorless-storage, but neither Workspace nor FileBackend takes one, so *)
(* the two interleave freely between backend calls.  Each process writes   *)
(* documents of its own, as two compiles of different sources do (document *)
(* ids are fresh uuids), which keeps the history variable exact.           *)
(***************************************************************************)
EXTENDS Naturals, FiniteSets

CONSTANTS DocA, DocB, Version, Carded, Graph, Task, CacheCap, None

VARIABLES
    docs, metaFile, metaSaved, catalogFile, catalogSaved, graphFile, may,
    metaA, catalogA, cachedA, olderA, graphA, upA, opA, pendA,
    metaB, catalogB, cachedB, olderB, graphB, upB, opB, pendB

memoryA == <<metaA, catalogA, cachedA, olderA, graphA, upA, opA, pendA>>
memoryB == <<metaB, catalogB, cachedB, olderB, graphB, upB, opB, pendB>>
shared == <<docs, metaFile, metaSaved, catalogFile, catalogSaved, graphFile,
            may>>

Doc == DocA \cup DocB

A == INSTANCE Workspace WITH
       meta <- metaA, catalog <- catalogA, cached <- cachedA, older <- olderA,
       graph <- graphA, up <- upA, op <- opA, pend <- pendA
B == INSTANCE Workspace WITH
       meta <- metaB, catalog <- catalogB, cached <- cachedB, older <- olderB,
       graph <- graphB, up <- upB, op <- opB, pend <- pendB

Init == A!Init /\ B!Init

StepOfA == A!Next /\ opA'.id \notin DocB /\ UNCHANGED memoryB
StepOfB == B!Next /\ opB'.id \notin DocA /\ UNCHANGED memoryA

Next == StepOfA \/ StepOfB

Spec == Init /\ [][Next]_<<shared, memoryA, memoryB>>

\* What the configuration promises of several processes on one workspace
\* ("Enable file locking for multi-process safety", on by default): what one
\* process stored and was told is stored, is there after a restart.
MultiProcessSafety == A!RestartKeepsCommitted
=============================================================================
