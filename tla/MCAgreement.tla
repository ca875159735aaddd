---------------------------- MODULE MCAgreement ----------------------------
(***************************************************************************)
(* Instances of Agreement for TLC.  One provider agent publishes every     *)
(* service of the instance; ids, services and terms are model values.      *)
(***************************************************************************)
EXTENDS Agreement, TLC

MCProviderOf == [s \in Services |-> CHOOSE g \in Agents : TRUE]

\* Proposal ids, successor ids, services and terms are each interchangeable.
MCSymmetry == Permutations(ProposalIds) \cup Permutations(Ids \ ProposalIds)
                \cup Permutations(Services) \cup Permutations(Terms)
=============================================================================
