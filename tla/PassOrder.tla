----------------------------- MODULE PassOrder -----------------------------
(***************************************************************************)
(* How the orchestrator turns the registered passes into execution groups: *)
(* resolve_order and compute_execution_groups.                             *)
(***************************************************************************)
EXTENDS Naturals, FiniteSets, Sequences, SequencesExt

CONSTANTS
    Pass,   \* names of the registered passes
    Prio,   \* [Pass -> Nat], registration order folded in: no two are equal
    Deps    \* [Pass -> set of names], possibly of passes not registered

ASSUME OrderAssumption ==
    /\ IsFiniteSet(Pass)
    /\ Prio \in [Pass -> Nat]
    /\ \A p, q \in Pass : Prio[p] = Prio[q] => p = q

UnknownDeps == (UNION {Deps[p] : p \in Pass}) \ Pass

\* The passes not yet popped whose dependencies all are.
Ready(done) == {p \in Pass \ done : Deps[p] \subseteq done}

\* One round of Kahn's algorithm: it pops the ready pass of least priority.
Pop(popped) ==
    LET ready == Ready(ToSet(popped))
    IN IF ready = {} THEN popped
       ELSE Append(popped, CHOOSE p \in ready :
                             \A q \in ready : Prio[p] <= Prio[q])

\* The passes popped in n rounds.
Popped[n \in 0..Cardinality(Pass)] ==
    IF n = 0 THEN << >> ELSE Pop(Popped[n - 1])

Resolved == Popped[Cardinality(Pass)]

\* resolve_order returns an order and no error.
Resolves == UnknownDeps = {} /\ Len(Resolved) = Cardinality(Pass)

\* The place of each pass in that order.
Position == [p \in Pass |-> CHOOSE i \in 1..Len(Resolved) : Resolved[i] = p]

\* One more than the highest level of a dependency, computed along the order.
LevelAt[i \in 1..Len(Resolved)] ==
    LET deps == Deps[Resolved[i]]
    IN IF deps = {} THEN 0
       ELSE 1 + Max({LevelAt[Position[d]] : d \in deps})

Level == [p \in Pass |-> LevelAt[Position[p]]]

\* The execution groups, by level; more than one member makes it parallel.
Group(l) == {p \in Pass : Level[p] = l}
=============================================================================
