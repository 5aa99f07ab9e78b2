------------------------ MODULE MCResourceManager ------------------------
(***************************************************************************)
(* Small instances of ResourceManager.                                     *)
(***************************************************************************)
EXTENDS ResourceManager, TLC

CONSTANTS Orphans    \* tokens that no loader claims

MCRecognises ==
  [l \in Loaders |-> [t \in Tokens |-> IF t \in Orphans THEN "NoMatch" ELSE "Match"]]
=============================================================================
