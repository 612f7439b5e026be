----------------------------- MODULE MCMigration -----------------------------
(* Values for the model checker: see the README for why they are enough. *)
EXTENDS Migration, FiniteSetsExt, SequencesExt

\* Every spelling of a path with up to two slashes; a URL with a query and one whose
\* port is no number never meet one of these.
MCPaths == {u \in Urls : u.kind = "path"}
MCOthers == {u \in Urls : u.kind # "path" /\ u.upper /\ u.slashes = 1}
MCClients == MCOthers \cup {u \in MCPaths : u.upper = (u.slashes = 1)}

\* Up to three rows, one article long ago and one just now, with the last_seen_at column
\* and without.
MCRows == {SetToSeq(rows) : rows \in {MCOthers} \cup UNION {kSubset(n, MCPaths) : n \in 0 .. 3}}

MCDatabases ==
    {[version |-> 0, leftovers |-> {"tables", "columns"}, seen_column |-> column,
      urls |-> rows, enabled |-> DOMAIN rows,
      fetched |-> [f \in DOMAIN rows \cap {1, 2} |-> f],
      seen |-> [f \in DOMAIN rows \cap {1, 2} |-> IF column THEN f ELSE 0]] :
        rows \in MCRows, column \in BOOLEAN}
=============================================================================
