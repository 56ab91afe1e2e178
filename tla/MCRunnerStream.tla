--------------------------- MODULE MCRunnerStream ---------------------------
(* Two commands of one tool and a file change.                              *)
EXTENDS RunnerStream

Tools == [r \in Requests |-> IF r = 3 THEN "edit" ELSE "bash"]
=============================================================================
