---------------------------- MODULE MCTaskWorkflow ----------------------------
(* Instances of TaskWorkflow for TLC.  Annotators, workers and tasks are    *)
(* interchangeable, except that tasks differ in being gold.                 *)
EXTENDS TaskWorkflow, TLC

Symmetry == Permutations(Users) \cup Permutations(Workers)

(* Reopening a task and closing it by hand.                                *)
MCEdits == {<<"pending", TRUE>>, <<"completed", TRUE>>}

(* The weights after 0/1 and 1/1 correct gold answers.                     *)
MCWeights == {4500, 11500}
===============================================================================
