------------------------ MODULE AgreementLifecycle ------------------------
(***************************************************************************)
(* What the parties may rely on, whatever handlers, retirements, reverts,  *)
(* reads and sweeps lie behind it: the life of a contract.  An offer is    *)
(* concluded as it stands or as countered, refused or withdrawn; a         *)
(* contract in force may be paused and parked, and ends; a contract that   *)
(* is over, or was never concluded, stays as it is.  The terms in force    *)
(* are those last offered, and a contract comes into force without an      *)
(* offer only in the place of a parked one that ends, one for one, on the  *)
(* same terms.  Many contracts may move at once (a provider is removed).   *)
(***************************************************************************)
EXTENDS Functions

CONSTANTS Ids, Terms, None

VARIABLE contracts      \* the contracts so far, a function of their ids

Phases == {"offered", "countered", "inForce", "paused", "parked",
           "refused", "withdrawn", "over"}

Contract == [phase : Phases, terms : Terms, offer : Terms \cup {None}]

At(phase, terms) == [phase |-> phase, terms |-> terms, offer |-> None]

\* The provider answers an offer with one of its own, once.
Countered(old, new) ==
    /\ old.phase = "offered" /\ new.phase = "countered"
    /\ new.terms = old.terms /\ new.offer # old.terms

Concluded(old, new) ==
    \/ old.phase = "offered" /\ new = At("inForce", old.terms)
    \/ old.phase = "countered" /\ new = At("inForce", old.offer)

NotConcluded(old, new) ==
    /\ old.phase \in {"offered", "countered"}
    /\ \E phase \in {"refused", "withdrawn"} : new = At(phase, old.terms)

Performed(old, new) ==
    /\ old.phase \in {"inForce", "paused"}
    /\ \E phase \in {"inForce", "paused", "parked", "over"} : new = At(phase, old.terms)

Ended(old, new) == old.phase = "parked" /\ new = At("over", old.terms)

Moves(old, new) ==
    \/ new = old
    \/ Countered(old, new) \/ Concluded(old, new) \/ NotConcluded(old, new)
    \/ Performed(old, new) \/ Ended(old, new)

Born == DOMAIN contracts' \ DOMAIN contracts
BornInForce == {c \in Born : contracts'[c].phase # "offered"}

\* c takes the place of d.
Renews(c, d) ==
    /\ Ended(contracts[d], contracts'[d])
    /\ contracts'[c] = At("inForce", contracts[d].terms)

Init == contracts = [c \in {} |-> c]

Next ==
    /\ contracts' \in [DOMAIN contracts \cup Born -> Contract]
    /\ \A c \in DOMAIN contracts : Moves(contracts[c], contracts'[c])
    /\ \A c \in Born \ BornInForce : contracts'[c] = At("offered", contracts'[c].terms)
    /\ \E place \in Injection(BornInForce, DOMAIN contracts) :
         \A c \in BornInForce : Renews(c, place[c])

Spec == Init /\ [][Next]_contracts
=============================================================================
