---------------------------- MODULE MCDaowStore ----------------------------
(* DaowStore with one entity and one projector.                            *)
EXTENDS DaowStore

CONSTANTS entity, projector

Both == {entity, projector}

ReadModels == {projector}

Once(events) == [what \in Rare |-> IF what \in events THEN 1 ELSE 0]

(* Two rare events, in either order, where one bears on the other.         *)
Pairs ==
  {Once(pair) : pair \in
     {{"write", "scan"}, {"write", "death"}, {"abort", "death"}, {"abort", "memo"},
      {"memo", "death"}, {"read", "purge"}, {"half", "purge"}}}

OneDeath == {Once({"death"})}
============================================================================
