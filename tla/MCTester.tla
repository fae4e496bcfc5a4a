------------------------------ MODULE MCTester ------------------------------
(* The tester on a small cluster. *)
EXTENDS Tester

Symmetry == Permutations(Command)

\* The variables of the loops are local to a call: they are left out of the view
\* once it has returned.
View ==
    <<absVars, cluster, config, checks, at, op, ops, result, cmd, want, retry, index,
      IF at \in {"idle", "failed"} THEN <<>>
      ELSE <<startTerm, starts, tried, last, scan, count, val, seen>>>>

(***************************************************************************)
(* Faults are explored in one term, and together with restarts only while  *)
(* the test's goroutine is in no call: the appliers do not depend on it.   *)
(***************************************************************************)
FaultsAreSimple ==
    faults > 0 => /\ \A s \in Server : term[s] <= 1
                  /\ changes > 0 => ops = 0
=============================================================================
