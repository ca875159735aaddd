--------------------------- MODULE AgreementStore ---------------------------
(***************************************************************************)
(* One row of service_agreements and the statements that write it          *)
(* (apps/server/src/db/agreement-store.ts).  The store is a synchronous    *)
(* SQLite table: every operator below is the effect of one store method on *)
(* one row, and the modules that extend this one say when a lane of the    *)
(* server calls it.  As in the code, NO operator here looks at the current *)
(* status before overwriting it, with the exceptions the code makes:       *)
(* SettleExpiredHold and the retire map.  The status machine lives in the  *)
(* callers.                                                                *)
(*                                                                         *)
(* Abstractions: an agreement's terms are members of Terms; wall-clock     *)
(* instants are natural numbers (the unit of HOLD_MAX_SEC); activated_at   *)
(* is kept as the boolean "was ever active"; created_at, updated_at and    *)
(* the remind trace are left out.                                          *)
(***************************************************************************)
EXTENDS Naturals

CONSTANTS
    Agents,         \* provider agents of one environment
    Services,       \* rows of service_instances
    ProviderOf,     \* the provider agent of each service
    Terms,          \* the contract terms that can be on the table
    Collabs,        \* AC collaboration ids
    PartyReasons,   \* the reasons a party may write into status_reason
    HOLD_MAX_SEC,   \* the ceiling of a consumer hold
    None            \* SQL NULL

ASSUME ConstantsAssumption ==
    /\ ProviderOf \in [Services -> Agents]
    /\ HOLD_MAX_SEC \in Nat
    /\ None \notin Agents \cup Services \cup Terms \cup Collabs \cup Nat

Statuses == {"proposed", "countered", "active", "held",
             "rejected", "suspended", "terminated"}

Negotiating == {"proposed", "countered"}
InForce     == {"active", "held"}
Terminal    == {"rejected", "terminated"}

Sources == {"explicit", "ac"}

PROVIDER_UNAVAILABLE == "provider-unavailable"
SERVICE_UNAVAILABLE  == "service-unavailable"
PROVIDER_UNREACHABLE == "provider-unreachable"
PROVIDER_RECOVERED   == "provider-recovered"
AC_COMPLETED         == "ac-completed"
AC_CANCELLED         == "ac-cancelled"

PlatformReasons == {PROVIDER_UNAVAILABLE, SERVICE_UNAVAILABLE,
                    PROVIDER_UNREACHABLE, PROVIDER_RECOVERED,
                    AC_COMPLETED, AC_CANCELLED}

Reasons == PlatformReasons \cup PartyReasons \cup {None}

Row == [status    : Statuses,
        source    : Sources,
        service   : Services \cup {None},
        provider  : Agents \cup {None},
        terms     : Terms,
        countered : Terms \cup {None},
        collab    : Collabs \cup {None},
        hold      : Nat \cup {None},
        activated : BOOLEAN,
        reason    : Reasons]

(***************************************************************************)
(* createAgreement: explicit rows are born 'proposed'; ephemeral rows and  *)
(* failover successors are born 'active' and carry activated_at at once.   *)
(***************************************************************************)
CreateAgreement(s, g, terms, source, status, collab) ==
    [status |-> status, source |-> source, service |-> s, provider |-> g,
     terms |-> terms, countered |-> None, collab |-> collab, hold |-> None,
     activated |-> (status = "active"), reason |-> None]

\* setStatus: the hold deadline is NOT touched, the reason is overwritten.
SetStatus(row, status, reason) ==
    [row EXCEPT !.status    = status,
                !.activated = @ \/ status = "active",
                !.reason    = reason]

\* hold: the status reason is NOT touched.
HoldRow(row, until) == [row EXCEPT !.status = "held", !.hold = until]

\* Mutated form: a resume that forgets the deadline.
ResumeKeepingDeadline(row) ==
    [row EXCEPT !.status = "active", !.activated = TRUE]

Resume(row) ==
    [row EXCEPT !.status = "active", !.hold = None, !.activated = TRUE]

\* settleExpiredHold: the lazy end of a hold, at every read of the row.
HoldExpired(row, now) ==
    row.status = "held" /\ row.hold # None /\ row.hold <= now

SettleExpiredHold(row, now) ==
    IF HoldExpired(row, now) THEN Resume(row) ELSE row

CounterRow(row, terms) ==
    [row EXCEPT !.status = "countered", !.countered = terms]

\* acceptCounter: the counter-offer becomes the contract.
AcceptCounter(row, reason) ==
    [row EXCEPT !.status = "active", !.terms = row.countered,
                !.activated = TRUE, !.reason = reason]

(***************************************************************************)
(* The retire map shared by retireProviderAgreements and                   *)
(* retireServiceAgreements: an ephemeral row terminates, a row still under *)
(* negotiation is rejected, anything else parks; terminal rows are left.   *)
(***************************************************************************)
RetireTargetUndeclared(row) ==     \* mutated form: a status outside the set
    IF row.source = "ac" THEN "terminated" ELSE "retired"

RetireTarget(row) ==
    CASE row.source = "ac"           -> "terminated"
      [] row.source # "ac" /\ row.status \in Negotiating    -> "rejected"
      [] row.source # "ac" /\ row.status \notin Negotiating -> "suspended"

\* Mutated form: a held agreement slips through the retire.
RetireSkippingHeld(row, reason) ==
    IF row.status \in Terminal \cup {"held"} THEN row
    ELSE [row EXCEPT !.status = RetireTarget(row), !.hold = None, !.reason = reason]

Retire(row, reason) ==
    IF row.status \in Terminal THEN row
    ELSE [row EXCEPT !.status = RetireTarget(row),
                     !.hold   = None,
                     !.reason = reason]

\* Every row of the agent, history included, loses both references.
RetireProvider(row) ==
    [Retire(row, PROVIDER_UNAVAILABLE) EXCEPT !.service = None, !.provider = None]

\* Every row of the service loses the service; the agent usually survives.
RetireService(row) ==
    [Retire(row, SERVICE_UNAVAILABLE) EXCEPT !.service = None]

\* relinkProviderAgreement: only a fully unlinked row; the status stays.
Relink(row, s, g) ==
    IF row.service = None /\ row.provider = None
      THEN [row EXCEPT !.service = s, !.provider = g]
      ELSE row
=============================================================================
