---------------------------- MODULE MCInvokeLane ----------------------------
(***************************************************************************)
(* An instance of InvokeLane for TLC: one agreement that has a quota and,  *)
(* first to fire wins, a deadline and an all-clear event.                  *)
(***************************************************************************)
EXTENDS InvokeLane

CONSTANT a1

\* One delivery per window, which is shorter than a tick of the model's clock;
\* reset one simulated second later or by the all-clear.
QuotaAndReset == [quota |-> 1, windowSec |-> 0, trigger |-> "motion",
                  afterSec |-> 1, onEvent |-> "clear"]

MCTermsOf == [a \in Agreements |-> QuotaAndReset]
MCTerms == {QuotaAndReset}
NoProvider == << >>
=============================================================================
