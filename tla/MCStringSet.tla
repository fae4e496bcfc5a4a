---------------------------- MODULE MCStringSet ----------------------------
(* The string sets with two stripes and three goroutines. *)
EXTENDS StringSet

\* All strings, or all that match some pattern.
MCRanges == {Key, {CHOOSE k \in Key : TRUE}}

(***************************************************************************)
(* The stripes are alike, so one string may as well fall into the first:   *)
(* what is left are the hashes that separate the strings and those that    *)
(* do not.                                                                 *)
(***************************************************************************)
MCInit ==
    /\ Init
    /\ stripeOf[CHOOSE k \in Key : TRUE] = CHOOSE s \in Stripe : TRUE

MCSpec == MCInit /\ [][Next]_vars /\ Fairness
=============================================================================
