-------------------------- MODULE MCProcessingRuns --------------------------
(***************************************************************************)
(* Small instances of ProcessingRuns for TLC.                              *)
(***************************************************************************)
EXTENDS ProcessingRuns, TLC

(* The first key belongs to the first run, the second to the second.       *)
MCKeyOf == CHOOSE f \in [Keys -> Runs] : \A r \in Runs : \E k \in Keys : f[k] = r

MCSymmetry == Permutations(Handlers) \cup Permutations(Appts) \cup Permutations(Slots)

=============================================================================
