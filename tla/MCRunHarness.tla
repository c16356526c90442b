---------------------------- MODULE MCRunHarness ----------------------------
(* Values for the constants of RunHarness that a .cfg cannot write. *)
EXTENDS RunHarness

\* The tasks cli.py configures (app.services.cli_tasks).
CliTasks ==
  [scouting |-> 5, clustering |-> 1, evaluating |-> 3, watchlist_update |-> 1,
   writing |-> 1, reviewing |-> 1, editing |-> 1, final_review |-> 1]

\* Two scouts, and one task for every other phase.
FewTasks == [p \in DOMAIN CliTasks |-> IF p = "scouting" THEN 2 ELSE 1]
=============================================================================
