-------------------------- MODULE MCMailWorkflow ---------------------------
(***************************************************************************)
(* Small instances of MailWorkflow for TLC.                                *)
(***************************************************************************)
EXTENDS MailWorkflow, TLC

\* A database without workflow definitions: the engine's fallback table.
NoDefinitions == [dir \in Direction |-> {}]

\* No property tells one session, or one user, from another.
Symmetry == Permutations(Sessions) \cup Permutations(Users)
=============================================================================
