-------------------------------- MODULE Status ---------------------------------
(***************************************************************************)
(* `trees status`: one report from many queries, while other processes     *)
(* commit.                                                                 *)
(*                                                                         *)
(* The report is read in one deferred transaction.  In the WAL mode of the *)
(* database it sees the tables as they are at its first query and does not *)
(* hold up the writers, who commit between any two of its queries.         *)
(*                                                                         *)
(* Abstractions.  The tables are a workspace in another one, of one pool.  *)
(* A writer commits what one transaction of a command changes; which of    *)
(* them may follow which is the subject of Trees, so that here each change *)
(* only has to fit the row.  Times, heads and sizes are left out.          *)
(***************************************************************************)
EXTENDS Naturals, Sequences, FiniteSets

CONSTANT MaxCommits  \* bound: transactions that others commit

ASSUME StatusAssumption == MaxCommits \in Nat

Outer == "outer"
Inner == "inner"  \* in the directory of Outer
Spaces == {Outer, Inner}
Views == {"pools", "workspaces", "with removed"}
WorkingDirectories == {Outer, Inner, "elsewhere"}

VARIABLES
    tables,     \* workspaces, workspace_claims and operation_leases
    commits,    \* commits left
    query,      \* the next query of the report
    view,       \* what it shows
    from,       \* the directory that selects the target
    pinned,     \* the tables that its transaction sees, <<>> before a query
    rows,       \* what the queries returned: workspaces, and their states
    claimants,  \* ... claims
    leased,     \* ... leases
    aim,        \* ... the target: its row, and its claim and lease
    edges,      \* ... the boundaries of all workspaces
    moments     \* history: the tables since the transaction began

statusVars == <<tables, commits, query, view, from, pinned, rows, claimants,
                leased, aim, edges, moments>>

States == {"none", "creating", "ready", "degraded", "removed"}
Nowhere == [row |-> "none", state |-> "none", claim |-> FALSE, lease |-> FALSE]

\* No operation is under way.
InitialTables ==
    {t \in [state : [Spaces -> States \ {"creating"}], claims : SUBSET Spaces,
            leases : {{}}] :
        \A w \in t.claims : t.state[w] \in {"ready", "degraded"}}

StatusInit ==
    /\ tables \in InitialTables
    /\ commits = MaxCommits
    /\ query = "target" /\ view \in Views
    /\ from \in WorkingDirectories
    /\ pinned = <<>> /\ rows = {} /\ claimants = {} /\ leased = {}
    /\ aim = Nowhere /\ edges = {} /\ moments = {tables}

(***************************************************************************)
(* The transactions of other commands.                                     *)
(***************************************************************************)

Commit(new) ==
    /\ commits > 0 /\ commits' = commits - 1 /\ query # "done"
    /\ tables' = new /\ moments' = moments \cup {new}
    /\ UNCHANGED <<query, view, from, pinned, rows, claimants, leased, aim, edges>>

Existing(w) == tables.state[w] \in {"ready", "degraded"}

Register(w) ==
    /\ tables.state[w] = "none"
    /\ Commit([tables EXCEPT !.state[w] = "creating", !.leases = @ \cup {w}])

BeginOperation(w) ==
    /\ Existing(w) /\ w \notin tables.leases
    /\ Commit([tables EXCEPT !.leases = @ \cup {w}])

Observed(w) ==
    /\ Existing(w)
    /\ \E s \in {"ready", "degraded"} \ {tables.state[w]} :
          Commit([tables EXCEPT !.state[w] = s])

\* The last transaction of a creation, a claim, a release or a removal ends its
\* operation.
EndClaim(w) ==
    /\ tables.state[w] \in {"creating", "ready"} /\ w \in tables.leases \ tables.claims
    /\ Commit([state |-> [tables.state EXCEPT ![w] = "ready"],
               leases |-> tables.leases \ {w}, claims |-> tables.claims \cup {w}])

EndRelease(w) ==
    /\ Existing(w) /\ w \in tables.leases \cap tables.claims
    /\ Commit([tables EXCEPT !.leases = @ \ {w}, !.claims = @ \ {w}])

EndRemoval(w) ==
    /\ Existing(w) /\ w \in tables.leases
    /\ Commit([state |-> [tables.state EXCEPT ![w] = "removed"],
               claims |-> tables.claims \ {w}, leases |-> tables.leases \ {w}])

(***************************************************************************)
(* The report.                                                             *)
(***************************************************************************)

\* Mutant: each query is a transaction of its own.
Current == tables
\* What the transaction sees.
Seen == IF pinned = <<>> THEN tables ELSE pinned

Query(name, next) ==
    /\ query = name /\ query' = next /\ pinned' = Seen
    /\ UNCHANGED <<tables, commits, view, from, moments>>

\* locate: the nearest ancestor that is recorded, in whatever state.
Located(m) ==
    IF from # "elsewhere" /\ m.state[from] # "none" THEN from
    ELSE IF from = Inner /\ m.state[Outer] # "none" THEN Outer ELSE "none"

\* The rows that the queries of a view admit.
Listed(m) ==
    {w \in Spaces : /\ m.state[w] # "none"
                    /\ m.state[w] # "removed" \/ view = "with removed"}

SelectTarget ==
    /\ Query("target", "rows")
    /\ LET w == Located(Seen) IN
       aim' = IF w = "none" THEN Nowhere
              ELSE [row |-> w, state |-> Seen.state[w], claim |-> FALSE, lease |-> FALSE]
    /\ UNCHANGED <<rows, claimants, leased, edges>>

ListRows ==
    /\ Query("rows", "claims")
    /\ rows' = {<<w, Seen.state[w]>> : w \in Listed(Seen)}
    /\ UNCHANGED <<claimants, leased, aim, edges>>

ListClaims ==
    /\ Query("claims", "leases")
    /\ claimants' = Seen.claims \cap Listed(Seen)
    /\ UNCHANGED <<rows, leased, aim, edges>>

ListLeases ==
    /\ Query("leases", "load_target")
    /\ leased' = Seen.leases \cap Listed(Seen)
    /\ UNCHANGED <<rows, claimants, aim, edges>>

\* The row of the target in the list, or load_target when it is not there.
LoadTarget ==
    LET w == aim.row
        listed == view # "pools" /\ \E r \in rows : r[1] = w
        cs == IF listed THEN claimants ELSE Seen.claims
        ls == IF listed THEN leased ELSE Seen.leases IN
    /\ Query("load_target", "boundaries")
    /\ aim' = IF w = "none" THEN aim
              ELSE [row |-> w, claim |-> w \in cs, lease |-> w \in ls,
                    state |-> IF listed THEN (CHOOSE r \in rows : r[1] = w)[2]
                              ELSE aim.state]
    /\ UNCHANGED <<rows, claimants, leased, edges>>

\* load_persisted, in the same transaction: with a target only.
ListBoundaries ==
    /\ Query("boundaries", "done")
    /\ edges' = IF aim.row = "none" THEN {}
                ELSE {w \in Spaces : Seen.state[w] # "none"}
    /\ UNCHANGED <<rows, claimants, leased, aim>>

\* assemble_pool_snapshot: capacity, available, abnormal.
Counts3(rs, cs, ls) ==
    <<Cardinality(rs),
      Cardinality({r \in rs : r[2] = "ready" /\ r[1] \notin cs \cup ls}),
      Cardinality({r \in rs : r[2] = "degraded"})>>

StatusNext ==
    \/ SelectTarget \/ ListRows \/ ListClaims \/ ListLeases \/ LoadTarget
    \/ ListBoundaries
    \/ \E w \in Spaces :
          \/ Register(w) \/ BeginOperation(w) \/ Observed(w)
          \/ EndClaim(w) \/ EndRelease(w) \/ EndRemoval(w)

-------------------------------------------------------------------------------

\* The report is true of one moment: its list or its counts, its target and the
\* boundaries by which processes are attributed all hold of the tables as they
\* were at one time since it began, whatever committed between its queries
\* (combined.rs load_with_observer, report.rs load_persisted).
ReportIsOfOneMoment ==
    query = "done" => \E m \in moments :
        LET at == {<<w, m.state[w]>> : w \in Listed(m)} IN
        /\ IF view = "pools"
           THEN Counts3(rows, claimants, leased) = Counts3(at, m.claims, m.leases)
           ELSE rows = at /\ claimants = m.claims /\ leased = m.leases
        /\ aim = IF Located(m) = "none" THEN Nowhere
                 ELSE LET w == Located(m) IN
                      [row |-> w, state |-> m.state[w], claim |-> w \in m.claims,
                       lease |-> w \in m.leases]
        /\ edges = IF Located(m) = "none" THEN {}
                   ELSE {w \in Spaces : m.state[w] # "none"}

StatusSpec == StatusInit /\ [][StatusNext]_statusVars
===============================================================================
