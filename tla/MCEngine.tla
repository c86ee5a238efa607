------------------------------ MODULE MCEngine ------------------------------
(***************************************************************************)
(* Engine on one file with two spellings.                                  *)
(***************************************************************************)
EXTENDS Engine

CanonOne == [s \in Spelling |-> CHOOSE p \in Path : TRUE]

OneText == CHOOSE t \in Text : TRUE
OneLogic == CHOOSE l \in Logic : TRUE

OneModel == CHOOSE m \in Model : TRUE
FirstId == CHOOSE d \in Id \ {StableId} : TRUE

Empty == [d \in Id |-> None]
FileDoc == [path |-> CHOOSE p \in Path : TRUE, text |-> OneText, seen |-> OneText,
            logic |-> OneLogic, model |-> None, made |-> {<<OneLogic, OneModel>>}]
NodesDoc == [FileDoc EXCEPT !.path = None, !.seen = None, !.model = OneModel]
OfFile == [Empty EXCEPT ![FirstId] = FileDoc]
WithNodes == [Empty EXCEPT ![StableId] = NodesDoc]

MkJob(srcs, mode, logic, timeout) ==
    [srcs |-> srcs, mode |-> mode, logic |-> logic, timeout |-> timeout,
     text |-> OneText, id |-> None, reuse |-> FALSE]

Plain == MkJob(Path, "default", OneLogic, FALSE)
Forced == MkJob(Path, "force", OneLogic, FALSE)
Misspelt == MkJob(Spelling \ Path, "default", OneLogic, FALSE)
Several == MkJob(Path \cup {Inline}, "default", OneLogic, TRUE)
Update(l) == MkJob(Path, "incremental", l, l # OneLogic)
Other == CHOOSE l \in Logic \ {OneLogic} : TRUE
OfNodes(id) ==
    [MkJob({Nodes}, "default", OneLogic, FALSE) EXCEPT !.id = id, !.reuse = TRUE]

Run(before, a, b, evs) ==
    [store |-> before, job |-> [c \in Call |-> IF c = 1 THEN a ELSE b],
     events |-> evs, model |-> OneModel, file |-> [p \in Path |-> OneText]]

\* The file has changed since.
Changed(run) ==
    [run EXCEPT !.file = [p \in Path |-> CHOOSE t \in Text \ {OneText} : TRUE]]

\* Pairs of compiles, in order or overlapping, and what happens besides.
CheckedPlans ==
    {Run(OfFile, Update(OneLogic), Update(Other), {"edit"}),
     Changed(Run(OfFile, Update(Other), Update(Other), {})),
     Changed(Run(OfFile, Update(OneLogic), Update(Other), {"restart"})),
     Changed(Run(OfFile, Update(Other), Plain, {"forget"})),
     Run(OfFile, Plain, Update(OneLogic), {"clear"}),
     Run(Empty, Several, OfNodes(None), {}),
     Run(Empty, Misspelt, Plain, {}),
     Run(Empty, Update(OneLogic), Forced, {}),
     Run(WithNodes, OfNodes(StableId), OfNodes(StableId), {"restart"}),
     [Run(WithNodes, OfNodes(StableId), Plain, {})
        EXCEPT !.model = CHOOSE m \in Model \ {OneModel} : TRUE],
     Run(WithNodes, OfNodes(None), Plain, {"forget"})}
=============================================================================
