-------------------------- MODULE MCPrivacyRequest --------------------------
(* Small instances of PrivacyRequest for TLC. *)
EXTENDS PrivacyRequest, TLC

\* Plan documents, steps and attempt ids are only compared for equality.
Symmetry == Permutations(PlanDocs) \cup Permutations(StepIds)
              \cup Permutations(AttemptIds)
=============================================================================
