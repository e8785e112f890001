-------------------------------- MODULE Labels ---------------------------------
(***************************************************************************)
(* The labels by which trees names repositories in its tables: the last    *)
(* part of the path, and as many parts before it as it takes to tell the   *)
(* repository from the others of the table.                                *)
(***************************************************************************)
EXTENDS Naturals, Sequences, FiniteSets

CONSTANTS
    Parts,     \* the names that paths are made of
    MaxParts,  \* bound: the names in a path
    MaxPaths   \* bound: the repositories of a table

ASSUME LabelsAssumption ==
    "/" \notin Parts /\ MaxParts \in Nat \ {0} /\ MaxPaths \in Nat

\* Absolute paths: the root is a part of its own.
Paths == {<<"/">> \o p : p \in UNION {[1..n -> Parts] : n \in 1..MaxParts}}
Tables == {s \in SUBSET Paths : Cardinality(s) \in 1..MaxPaths}

VARIABLES
    sources,  \* the paths that are labelled
    depths,   \* how many parts the label of each has
    settled   \* has the loop ended?

labelVars == <<sources, depths, settled>>

Suffix(p, n) == SubSeq(p, Len(p) - n + 1, Len(p))
LabelOf(p) == Suffix(p, depths[p])

LabelsInit ==
    /\ sources \in Tables /\ depths = [p \in sources |-> 1] /\ settled = FALSE

\* Mutant: every label is deepened while there are two that are equal.
AnyEqual(p) == \E q, r \in sources : q # r /\ LabelOf(q) = LabelOf(r)
\* counts[label] > 1.
Ambiguous(p) == \E q \in sources \ {p} : LabelOf(q) = LabelOf(p)

\* One round of shortest_unique_path_labels.
LabelsNext ==
    LET deeper == {p \in sources : Ambiguous(p) /\ depths[p] < Len(p)} IN
    /\ ~settled /\ settled' = (deeper = {})
    /\ depths' = [p \in sources |-> IF p \in deeper THEN depths[p] + 1 ELSE depths[p]]
    /\ UNCHANGED sources

-------------------------------------------------------------------------------

\* Labels tell repositories apart and are as short as that allows: each is the
\* shortest end of its path that is not the end of another one, although the
\* loop compares labels of different depths (shortest_unique_path_labels).
LabelsAreShortestUnique ==
    settled => \A p \in sources :
        LET unique == {n \in 1..Len(p) : \A q \in sources \ {p} :
                          n > Len(q) \/ Suffix(p, n) # Suffix(q, n)}
        IN depths[p] \in unique /\ \A n \in unique : depths[p] <= n

LabelsSpec == LabelsInit /\ [][LabelsNext]_labelVars
===============================================================================
