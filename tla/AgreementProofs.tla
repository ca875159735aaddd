-------------------------- MODULE AgreementProofs --------------------------
(***************************************************************************)
(* Theorems about Agreement for every set of agents, services, terms,      *)
(* ids and reasons, every hold ceiling and every bound.                    *)
(*                                                                         *)
(* The invariants are proved from one inductive invariant, IInv: RowInv    *)
(* says what a single row owes (its links, its deadline, its activation    *)
(* stamp), LinksLive that a link always leads to a row that exists,        *)
(* SnapshotOK that a removal snapshot will only restore such links, and    *)
(* OneLiveSuccessor is inductive beside them.                              *)
(***************************************************************************)
EXTENDS Agreement, TLAPS

\* What one row owes, at time n.
RowInv(row, n) ==
    /\ row.source = "explicit"
    /\ row.status \in Negotiating \cup InForce => row.service # None
    /\ row.service # None => /\ row.provider # None
                             /\ ProviderOf[row.service] = row.provider
    /\ row.status = "held" => row.hold \in Nat /\ row.hold <= n + HOLD_MAX_SEC
    /\ row.status \notin {"held", "terminated"} => row.hold = None
    /\ row.status \in InForce \cup {"suspended"} => row.activated
    /\ row.status \in Negotiating \cup {"rejected"} => ~row.activated

\* A reference held by a row leads to an agent, a service that exists, and the
\* provider of a service that exists does too.
LinksLive ==
    /\ \A a \in Created : /\ rows[a].provider # None => rows[a].provider \in agents
                          /\ rows[a].service # None => rows[a].service \in services
    /\ \A s \in services : ProviderOf[s] \in agents

\* What a revert would relink is what it restores, and is the agent's own.
SnapshotOK ==
    \A g \in Agents : removed[g] # None =>
        /\ \A s \in removed[g].services : ProviderOf[s] = g
        /\ \A a \in Ids : removed[g].link[a] # None =>
               removed[g].link[a] \in removed[g].services

IInv ==
    /\ TypeOK
    /\ \A a \in Created : RowInv(rows[a], now)
    /\ LinksLive
    /\ SnapshotOK
    /\ OneLiveSuccessor

----------------------------------------------------------------------------
\* A fetch that settles an expired hold keeps the row well formed, and leaves
\* its links and terms alone.
LEMMA SettledRow ==
    ASSUME NEW row \in Row, NEW n \in Nat, RowInv(row, n)
    PROVE  /\ SettleExpiredHold(row, n) \in Row
           /\ RowInv(SettleExpiredHold(row, n), n)
           /\ SettleExpiredHold(row, n).service = row.service
           /\ SettleExpiredHold(row, n).provider = row.provider
           /\ SettleExpiredHold(row, n).terms = row.terms
           /\ SettleExpiredHold(row, n).countered = row.countered
           /\ row.activated => SettleExpiredHold(row, n).activated
           /\ row.status # "held" => SettleExpiredHold(row, n) = row
           /\ row.status = "held" => SettleExpiredHold(row, n).status \in InForce
  BY DEF SettleExpiredHold, HoldExpired, Resume, Row, RowInv, Statuses, Negotiating, InForce

\* setStatus into force or out of it keeps a row of the matching history well
\* formed; terminating needs no matching history.
LEMMA SetStatusRow ==
    ASSUME NEW row \in Row, NEW n \in Nat, RowInv(row, n),
           NEW status \in Statuses, NEW reason \in Reasons,
           \/ status = "terminated"
           \/ status = "rejected" /\ row.status \in Negotiating
           \/ status = "active" /\ row.status = "proposed"
           \/ status = "suspended" /\ row.status = "active"
    PROVE  /\ SetStatus(row, status, reason) \in Row
           /\ RowInv(SetStatus(row, status, reason), n)
           /\ SetStatus(row, status, reason).service = row.service
           /\ SetStatus(row, status, reason).provider = row.provider
           /\ SetStatus(row, status, reason).terms = row.terms
           /\ row.activated => SetStatus(row, status, reason).activated
  BY DEF SetStatus, Row, RowInv, Statuses, Negotiating, InForce

\* A hold of an active row keeps it well formed: its deadline is within the ceiling
\* (hold).
LEMMA HeldRow ==
    ASSUME NEW row \in Row, NEW n \in Nat, RowInv(row, n),
           NEW d \in 1..HOLD_MAX_SEC, row.status = "active"
    PROVE  /\ HoldRow(row, n + d) \in Row
           /\ RowInv(HoldRow(row, n + d), n)
           /\ HoldRow(row, n + d).service = row.service
           /\ HoldRow(row, n + d).provider = row.provider
           /\ HoldRow(row, n + d).terms = row.terms
           /\ HoldRow(row, n + d).activated = row.activated
  <1>1. n + d \in Nat /\ n + d <= n + HOLD_MAX_SEC
    BY ConstantsAssumption
  <1> DEFINE until == n + d
  <1>2. until \in Nat /\ until <= n + HOLD_MAX_SEC
    BY <1>1
  <1> HIDE DEF until
  <1>3. /\ HoldRow(row, until) \in Row
        /\ RowInv(HoldRow(row, until), n)
        /\ HoldRow(row, until).service = row.service
        /\ HoldRow(row, until).provider = row.provider
        /\ HoldRow(row, until).terms = row.terms
        /\ HoldRow(row, until).activated = row.activated
    BY <1>2 DEF HoldRow, Row, RowInv, Statuses, Negotiating, InForce
  <1> QED
    BY <1>3 DEF until

\* Releasing a held row, or finding its deadline passed, keeps it well formed and
\* clears the deadline (resume).
LEMMA ResumedRow ==
    ASSUME NEW row \in Row, NEW n \in Nat, RowInv(row, n), row.status = "held"
    PROVE  /\ Resume(row) \in Row
           /\ RowInv(Resume(row), n)
           /\ Resume(row).service = row.service
           /\ Resume(row).provider = row.provider
           /\ Resume(row).terms = row.terms
           /\ Resume(row).activated
  BY DEF Resume, Row, RowInv, Statuses, Negotiating, InForce

\* The retire map keeps a row well formed and never revives a terminal one.
LEMMA RetireRow ==
    ASSUME NEW row \in Row, NEW n \in Nat, RowInv(row, n),
           NEW reason \in PlatformReasons
    PROVE  /\ Retire(row, reason) \in Row
           /\ RowInv(Retire(row, reason), n)
           /\ Retire(row, reason).service = row.service
           /\ Retire(row, reason).provider = row.provider
           /\ Retire(row, reason).terms = row.terms
           /\ Retire(row, reason).activated = row.activated
           /\ Retire(row, reason).status \in Terminal \cup {"suspended"}
           /\ row.status \in Terminal => Retire(row, reason) = row
  <1>1. reason \in Reasons
    BY DEF Reasons
  <1>2. CASE row.status \in Terminal
    BY <1>2 DEF Retire, Terminal
  <1>3. CASE row.status \notin Terminal
    <2>1. row.source # "ac"
      BY DEF RowInv
    <2>2. Retire(row, reason) = [row EXCEPT !.status = RetireTarget(row),
                                            !.hold = None, !.reason = reason]
      BY <1>3 DEF Retire
    <2>3. RetireTarget(row) = IF row.status \in Negotiating THEN "rejected"
                                                            ELSE "suspended"
      BY <2>1 DEF RetireTarget
    <2> QED
      BY <1>1, <1>3, <2>2, <2>3
      DEF Row, RowInv, Statuses, Negotiating, InForce, Terminal
  <1> QED
    BY <1>2, <1>3

\* A row that loses its provider agent loses its service too and is in force no
\* more (retireProviderAgreements).
LEMMA RetireProviderRow ==
    ASSUME NEW row \in Row, NEW n \in Nat, RowInv(row, n)
    PROVE  /\ RetireProvider(row) \in Row
           /\ RowInv(RetireProvider(row), n)
           /\ RetireProvider(row).service = None
           /\ RetireProvider(row).provider = None
           /\ RetireProvider(row).terms = row.terms
           /\ RetireProvider(row).activated = row.activated
           /\ row.status \in Terminal => /\ RetireProvider(row).status = row.status
                                         /\ RetireProvider(row).reason = row.reason
  <1> DEFINE r == Retire(row, PROVIDER_UNAVAILABLE)
  <1>1. /\ r \in Row /\ RowInv(r, n)
        /\ r.terms = row.terms /\ r.activated = row.activated
        /\ r.status \in Terminal \cup {"suspended"}
        /\ row.status \in Terminal => r = row
    BY RetireRow DEF PlatformReasons
  <1>2. RetireProvider(row) = [r EXCEPT !.service = None, !.provider = None]
    BY DEF RetireProvider
  <1> HIDE DEF r
  <1> QED
    BY <1>1, <1>2 DEF Row, RowInv, Negotiating, InForce, Terminal

\* A row that loses its service keeps its provider and is in force no more
\* (retireServiceAgreements).
LEMMA RetireServiceRow ==
    ASSUME NEW row \in Row, NEW n \in Nat, RowInv(row, n)
    PROVE  /\ RetireService(row) \in Row
           /\ RowInv(RetireService(row), n)
           /\ RetireService(row).service = None
           /\ RetireService(row).provider = row.provider
           /\ RetireService(row).terms = row.terms
           /\ RetireService(row).activated = row.activated
           /\ row.status \in Terminal => /\ RetireService(row).status = row.status
                                         /\ RetireService(row).reason = row.reason
  <1> DEFINE r == Retire(row, SERVICE_UNAVAILABLE)
  <1>1. /\ r \in Row /\ RowInv(r, n)
        /\ r.provider = row.provider
        /\ r.terms = row.terms /\ r.activated = row.activated
        /\ r.status \in Terminal \cup {"suspended"}
        /\ row.status \in Terminal => r = row
    BY RetireRow DEF PlatformReasons
  <1>2. RetireService(row) = [r EXCEPT !.service = None]
    BY DEF RetireService
  <1> HIDE DEF r
  <1> QED
    BY <1>1, <1>2 DEF Row, RowInv, Negotiating, InForce, Terminal

----------------------------------------------------------------------------
(***************************************************************************)
(* One row of the table is rewritten, with its links unchanged: the shape  *)
(* of every party-driven handler.                                          *)
(***************************************************************************)
LEMMA WriteStep ==
    ASSUME IInv,
           NEW a \in Created, NEW row \in Row, NEW actor \in Actors,
           rows[a].status # "terminated",
           RowInv(row, now),
           row.service = rows[a].service,
           row.provider = rows[a].provider,
           supersedes[a] # None => row.terms = rows[a].terms /\ row.activated,
           Write(a, row, actor)
    PROVE  IInv'
  <1> USE DEF IInv
  <1>1. /\ rows' = [rows EXCEPT ![a] = row]
        /\ audit' = [audit EXCEPT ![a] = actor]
        /\ UNCHANGED <<agents, services, removed, probe, flaps, now, supersedes>>
    BY DEF Write, worldVars, probeVars
  <1>2. /\ Created' = Created
        /\ \A b \in Created : rows'[b] = IF b = a THEN row ELSE rows[b]
    BY <1>1 DEF TypeOK, Created
  <1>3. TypeOK'
    BY <1>1, <1>2 DEF TypeOK, Created
  <1>4. (\A b \in Created : RowInv(rows[b], now))'
    <2>1. \A b \in Created' : RowInv(rows'[b], now)
      BY <1>2
    <2> QED
      BY <1>1, <2>1 DEF RowInv
  <1>5. LinksLive'
    BY <1>1, <1>2 DEF LinksLive, TypeOK
  <1>6. SnapshotOK'
    BY <1>1 DEF SnapshotOK
  <1>7. OneLiveSuccessor'
    <2>1. \A b \in Created : supersedes[b] # a
      <3>1. a \in Ids /\ a # None
        BY IdsAssumption DEF TypeOK
      <3> QED
        BY <3>1 DEF OneLiveSuccessor
    <2> QED
      BY <1>1, <1>2, <2>1 DEF OneLiveSuccessor, TypeOK
  <1> QED
    BY <1>3, <1>4, <1>5, <1>6, <1>7

----------------------------------------------------------------------------
\* The row an action addresses, as its handler fetched it.
LEMMA FetchedRow ==
    ASSUME IInv, NEW a \in Created
    PROVE  /\ rows[a] \in Row /\ Settled(a) \in Row
           /\ now \in Nat
           /\ RowInv(Settled(a), now)
           /\ Settled(a).service = rows[a].service
           /\ Settled(a).provider = rows[a].provider
           /\ Settled(a).terms = rows[a].terms
           /\ rows[a].activated => Settled(a).activated
           /\ rows[a].status # "held" => Settled(a) = rows[a]
           /\ rows[a].status = "held" => Settled(a).status \in InForce
           /\ supersedes[a] # None => rows[a].activated /\ Settled(a).activated
  <1>1. rows[a] \in Row /\ now \in Nat /\ RowInv(rows[a], now)
    BY DEF IInv, TypeOK
  <1>2. supersedes[a] # None => rows[a].activated
    BY DEF IInv, OneLiveSuccessor
  <1> QED
    BY <1>1, <1>2, SettledRow DEF Settled

\* A decision on a proposal, the provider's own or the reminded agent's, preserves
\* IInv (POST decide and remind).
LEMMA DecideProposalStep ==
    ASSUME IInv, NEW a \in Created,
           NEW status \in {"active", "rejected"}, NEW reason \in OptionalReasons,
           NEW actor \in Actors,
           Settled(a).status = "proposed",
           Write(a, SetStatus(Settled(a), status, reason), actor)
    PROVE  IInv'
  <1> DEFINE row == SetStatus(Settled(a), status, reason)
  <1>1. reason \in Reasons /\ status \in Statuses
    BY DEF OptionalReasons, Reasons, Statuses
  <1>2. /\ row \in Row /\ RowInv(row, now)
        /\ row.service = rows[a].service /\ row.provider = rows[a].provider
        /\ row.terms = rows[a].terms
        /\ Settled(a).activated => row.activated
    BY <1>1, FetchedRow, SetStatusRow DEF Negotiating
  <1>3. rows[a].status # "terminated"
    BY FetchedRow DEF InForce
  <1>4. supersedes[a] # None => row.terms = rows[a].terms /\ row.activated
    BY <1>2, FetchedRow
  <1> HIDE DEF row
  <1>5. Write(a, row, actor)
    BY DEF row
  <1> QED
    BY <1>2, <1>3, <1>4, <1>5, WriteStep

\* The consumer's answer to a counter-offer preserves IInv (POST decide).
LEMMA DecideCounterStep ==
    ASSUME IInv, NEW a \in Created,
           NEW accept \in BOOLEAN, NEW reason \in OptionalReasons,
           DecideCounter(a, accept, reason)
    PROVE  IInv'
  <1> DEFINE row == IF accept THEN AcceptCounter(Settled(a), reason)
                              ELSE SetStatus(Settled(a), "rejected", reason)
  <1>1. reason \in Reasons
    BY DEF OptionalReasons, Reasons
  <1>2. /\ Settled(a).status = "countered"
        /\ accept => Settled(a).countered # None
        /\ Write(a, row, "consumer")
    BY DEF DecideCounter
  <1>3. /\ Settled(a) = rows[a] /\ rows[a] \in Row /\ RowInv(rows[a], now)
        /\ now \in Nat /\ supersedes[a] = None
    BY <1>2, FetchedRow DEF InForce, RowInv, Negotiating
  <1>4. /\ row \in Row /\ RowInv(row, now)
        /\ row.service = rows[a].service /\ row.provider = rows[a].provider
    <2>1. CASE accept
      BY <1>1, <1>2, <1>3, <2>1
      DEF AcceptCounter, Row, RowInv, Statuses, Negotiating, InForce
    <2>2. CASE ~accept
      BY <1>1, <1>2, <1>3, <2>2, SetStatusRow DEF Negotiating, Statuses
    <2> QED
      BY <2>1, <2>2
  <1> HIDE DEF row
  <1> QED
    BY <1>2, <1>3, <1>4, WriteStep DEF Actors

\* A counter-offer preserves IInv: only a proposed row takes one (POST counter).
LEMMA CounterStep ==
    ASSUME IInv, NEW a \in Created, NEW terms \in Terms, Counter(a, terms)
    PROVE  IInv'
  <1> DEFINE row == CounterRow(Settled(a), terms)
  <1>1. Settled(a).status = "proposed" /\ Write(a, row, "provider")
    BY DEF Counter
  <1>2. /\ Settled(a) = rows[a] /\ rows[a] \in Row /\ RowInv(rows[a], now)
        /\ now \in Nat /\ supersedes[a] = None
    BY <1>1, FetchedRow DEF InForce, RowInv, Negotiating
  <1>3. /\ row \in Row /\ RowInv(row, now)
        /\ row.service = rows[a].service /\ row.provider = rows[a].provider
    BY <1>1, <1>2 DEF CounterRow, Row, RowInv, Statuses, Negotiating, InForce
  <1> HIDE DEF row
  <1> QED
    BY <1>1, <1>2, <1>3, WriteStep DEF Actors

\* setStatus of a live row, the shape suspend and terminate share.
LEMMA StatusStep ==
    ASSUME IInv, NEW a \in Created, NEW reason \in OptionalReasons,
           NEW status \in Statuses, NEW actor \in Actors,
           \/ status = "terminated" /\ Settled(a).status \notin Terminal
           \/ status = "suspended" /\ Settled(a).status = "active",
           Write(a, SetStatus(Settled(a), status, reason), actor)
    PROVE  IInv'
  <1> DEFINE row == SetStatus(Settled(a), status, reason)
  <1>1. reason \in Reasons
    BY DEF OptionalReasons, Reasons
  <1>2. /\ row \in Row /\ RowInv(row, now)
        /\ row.service = rows[a].service /\ row.provider = rows[a].provider
        /\ row.terms = rows[a].terms
        /\ Settled(a).activated => row.activated
    BY <1>1, FetchedRow, SetStatusRow
  <1>3. rows[a].status # "terminated"
    BY FetchedRow DEF InForce, Terminal
  <1>4. supersedes[a] # None => row.terms = rows[a].terms /\ row.activated
    BY <1>2, FetchedRow
  <1> HIDE DEF row
  <1>5. Write(a, row, actor)
    BY DEF row
  <1> QED
    BY <1>2, <1>3, <1>4, <1>5, WriteStep

\* A hold preserves IInv: only an active row takes one (POST hold).
LEMMA HoldStep ==
    ASSUME IInv, NEW a \in Created, NEW d \in 1..HOLD_MAX_SEC, Hold(a, d)
    PROVE  IInv'
  <1> DEFINE row == HoldRow(Settled(a), now + d)
  <1>1. Settled(a).status = "active" /\ Write(a, row, "consumer")
    BY DEF Hold
  <1>2. /\ row \in Row /\ RowInv(row, now)
        /\ row.service = rows[a].service /\ row.provider = rows[a].provider
        /\ row.terms = rows[a].terms
        /\ row.activated = Settled(a).activated
    BY <1>1, FetchedRow, HeldRow
  <1>3. rows[a].status # "terminated"
    BY <1>1, FetchedRow
  <1>4. supersedes[a] # None => row.terms = rows[a].terms /\ row.activated
    BY <1>2, FetchedRow
  <1> HIDE DEF row
  <1> QED
    BY <1>1, <1>2, <1>3, <1>4, WriteStep DEF Actors

\* The release of a hold preserves IInv (DELETE hold).
LEMMA ReleaseHoldStep ==
    ASSUME IInv, NEW a \in Created, ReleaseHold(a)
    PROVE  IInv'
  <1> DEFINE row == Resume(Settled(a))
  <1>1. Settled(a).status = "held" /\ Write(a, row, "consumer")
    BY DEF ReleaseHold
  <1>2. /\ row \in Row /\ RowInv(row, now)
        /\ row.service = rows[a].service /\ row.provider = rows[a].provider
        /\ row.terms = rows[a].terms /\ row.activated
    BY <1>1, FetchedRow, ResumedRow
  <1>3. rows[a].status # "terminated"
    BY <1>1, FetchedRow
  <1> HIDE DEF row
  <1> QED
    BY <1>1, <1>2, <1>3, WriteStep DEF Actors

----------------------------------------------------------------------------
(***************************************************************************)
(* Many rows change at once: reads, retires, relinks and the sweep's park. *)
(* What the change owes, row by row and link by link.                      *)
(***************************************************************************)
LEMMA RewriteStep ==
    ASSUME IInv, TypeOK', Created' = Created, supersedes' = supersedes,
           now' = now \/ now' = now + 1,
           \A a \in Created : RowInv(rows'[a], now'),
           \A a \in Created :
               /\ rows'[a].terms = rows[a].terms
               /\ rows[a].activated => rows'[a].activated
               /\ rows[a].status = "terminated" => rows'[a].status = "terminated",
           LinksLive', SnapshotOK'
    PROVE  IInv'
  <1>1. (\A a \in Created : RowInv(rows[a], now))'
    BY DEF RowInv
  <1>2. OneLiveSuccessor'
    BY DEF IInv, OneLiveSuccessor
  <1> QED
    BY <1>1, <1>2 DEF IInv

\* A read that settles expired holds, of any set of rows, preserves IInv
\* (getAgreementReadView and the lists).
LEMMA SettleOnReadStep ==
    ASSUME IInv, NEW read \in SUBSET Created, SettleOnRead(read)
    PROVE  IInv'
  <1>1. /\ rows' = [a \in Created |-> IF a \in read THEN Settled(a) ELSE rows[a]]
        /\ UNCHANGED <<agents, services, removed, probe, flaps, now, supersedes, audit>>
    BY DEF SettleOnRead, worldVars, probeVars
  <1>2. Created' = Created
    BY <1>1 DEF Created
  <1>3. \A a \in Created :
          /\ rows'[a] \in Row /\ RowInv(rows'[a], now)
          /\ rows'[a].service = rows[a].service
          /\ rows'[a].provider = rows[a].provider
          /\ rows'[a].terms = rows[a].terms
          /\ rows[a].activated => rows'[a].activated
          /\ rows[a].status = "terminated" => rows'[a].status = "terminated"
    <2> SUFFICES ASSUME NEW a \in Created
                 PROVE  /\ rows'[a] \in Row /\ RowInv(rows'[a], now)
                        /\ rows'[a].service = rows[a].service
                        /\ rows'[a].provider = rows[a].provider
                        /\ rows'[a].terms = rows[a].terms
                        /\ rows[a].activated => rows'[a].activated
                        /\ rows[a].status = "terminated" => rows'[a].status = "terminated"
      OBVIOUS
    <2>1. rows'[a] = Settled(a) \/ rows'[a] = rows[a]
      BY <1>1
    <2>2. rows[a] \in Row /\ RowInv(rows[a], now)
      BY DEF IInv, TypeOK
    <2> QED
      BY <2>1, <2>2, FetchedRow
  <1>4. TypeOK'
    BY <1>1, <1>2, <1>3 DEF IInv, TypeOK, Created
  <1>5. LinksLive' /\ SnapshotOK'
    BY <1>1, <1>2, <1>3 DEF IInv, LinksLive, SnapshotOK
  <1> QED
    BY <1>1, <1>2, <1>3, <1>4, <1>5, RewriteStep

\* A provider's agreements retire with it: no link to it, or to one of its
\* services, survives.
LEMMA RemoveProviderStep ==
    ASSUME IInv, NEW g \in Agents, RemoveProvider(g),
           SnapshotOK', removed' \in [Agents -> Snapshots \cup {None}]
    PROVE  IInv'
  <1>1. /\ rows' = [a \in Created |-> IF a \in RowsOf(g) THEN RetireProvider(rows[a])
                                                       ELSE rows[a]]
        /\ agents' = agents \ {g}
        /\ services' = services \ ServicesOf(g)
        /\ UNCHANGED <<probe, flaps, now, supersedes>>
        /\ audit' = [a \in Created |->
                       IF a \in RowsOf(g) /\ rows[a].status \notin Terminal
                         THEN "remover" ELSE audit[a]]
    BY DEF RemoveProvider, probeVars
  <1>2. Created' = Created
    BY <1>1 DEF Created
  <1>3. \A a \in Created :
          /\ rows'[a] \in Row /\ RowInv(rows'[a], now)
          /\ rows'[a].terms = rows[a].terms
          /\ rows[a].activated => rows'[a].activated
          /\ rows[a].status = "terminated" => rows'[a].status = "terminated"
          /\ IF rows[a].provider = g
               THEN rows'[a].service = None /\ rows'[a].provider = None
               ELSE rows'[a] = rows[a]
    <2> SUFFICES ASSUME NEW a \in Created
                 PROVE  /\ rows'[a] \in Row /\ RowInv(rows'[a], now)
                        /\ rows'[a].terms = rows[a].terms
                        /\ rows[a].activated => rows'[a].activated
                        /\ rows[a].status = "terminated" => rows'[a].status = "terminated"
                        /\ IF rows[a].provider = g
                             THEN rows'[a].service = None /\ rows'[a].provider = None
                             ELSE rows'[a] = rows[a]
      OBVIOUS
    <2>1. rows[a] \in Row /\ RowInv(rows[a], now) /\ now \in Nat
      BY DEF IInv, TypeOK
    <2>2. CASE rows[a].provider = g
      <3>1. rows'[a] = RetireProvider(rows[a])
        BY <1>1, <2>2 DEF RowsOf
      <3> QED
        BY <2>1, <2>2, <3>1, RetireProviderRow DEF Terminal
    <2>3. CASE rows[a].provider # g
      BY <1>1, <2>1, <2>3 DEF RowsOf
    <2> QED
      BY <2>2, <2>3
  <1>4. TypeOK'
    BY <1>1, <1>2, <1>3 DEF IInv, TypeOK, Created, Actors
  <1>5. LinksLive'
    BY <1>1, <1>2, <1>3 DEF IInv, LinksLive, RowInv, ServicesOf
  <1> QED
    BY <1>1, <1>2, <1>3, <1>4, <1>5, RewriteStep

\* The deletion of an agent by the owner preserves IInv (DELETE agents).
LEMMA DeleteAgentStep ==
    ASSUME IInv, NEW g \in Agents, DeleteAgent(g)
    PROVE  IInv'
  <1>1. removed' = removed /\ RemoveProvider(g)
    BY DEF DeleteAgent
  <1>2. SnapshotOK' /\ removed' \in [Agents -> Snapshots \cup {None}]
    BY <1>1 DEF IInv, SnapshotOK, TypeOK
  <1> QED
    BY <1>1, <1>2, RemoveProviderStep

\* An applied remove-agents proposal preserves IInv: the snapshot it takes holds
\* only links that were live (removeAgents).
LEMMA ApplyRemoveAgentsStep ==
    ASSUME IInv, NEW g \in Agents, ApplyRemoveAgents(g)
    PROVE  IInv'
  <1> DEFINE link == [a \in Ids |-> IF a \in RowsOf(g) THEN rows[a].service ELSE None]
             snapshot == [services |-> ServicesOf(g), ids |-> RowsOf(g), link |-> link]
  <1>1. RemoveProvider(g) /\ removed' = [removed EXCEPT ![g] = snapshot]
    BY DEF ApplyRemoveAgents
  <1>2. \A a \in RowsOf(g) : /\ a \in Created /\ rows[a] \in Row
                             /\ rows[a].provider = g /\ RowInv(rows[a], now)
    BY DEF RowsOf, IInv, TypeOK
  <1>3. link \in [Ids -> Services \cup {None}]
    BY <1>2 DEF Row
  <1>4. \A a \in Ids : link[a] # None => /\ link[a] \in ServicesOf(g)
                                         /\ ProviderOf[link[a]] = g
    BY <1>2 DEF IInv, LinksLive, RowInv, ServicesOf
  <1>5. RowsOf(g) \subseteq Ids /\ ServicesOf(g) \subseteq Services
    BY DEF RowsOf, ServicesOf, IInv, TypeOK
  <1> HIDE DEF link
  <1>6. snapshot \in Snapshots
    BY <1>3, <1>5 DEF Snapshots
  <1>7. snapshot.services = ServicesOf(g) /\ snapshot.link = link
    OBVIOUS
  <1> HIDE DEF snapshot
  <1>8. removed' \in [Agents -> Snapshots \cup {None}]
    BY <1>1, <1>6 DEF IInv, TypeOK
  <1>9. SnapshotOK'
    <2>1. \A s \in snapshot.services : ProviderOf[s] = g
      BY <1>7 DEF ServicesOf
    <2>2. removed'[g] = snapshot /\ \A h \in Agents : h # g => removed'[h] = removed[h]
      BY <1>1 DEF IInv, TypeOK
    <2> QED
      BY <1>4, <1>7, <2>1, <2>2 DEF IInv, SnapshotOK
  <1> QED
    BY <1>1, <1>8, <1>9, RemoveProviderStep

\* The revert links back only rows that hold nothing, to what it restores.
LEMMA RevertRemoveAgentsStep ==
    ASSUME IInv, NEW g \in Agents, RevertRemoveAgents(g)
    PROVE  IInv'
  <1> DEFINE link == removed[g].link
  <1>1. /\ removed[g] # None
        /\ agents' = agents \cup {g}
        /\ services' = services \cup removed[g].services
        /\ rows' = [a \in Created |-> IF a \in removed[g].ids
                                        THEN Relink(rows[a], link[a], g) ELSE rows[a]]
        /\ removed' = [removed EXCEPT ![g] = None]
        /\ UNCHANGED <<probe, flaps, now, supersedes, audit>>
    BY DEF RevertRemoveAgents, probeVars
  <1>2. Created' = Created
    BY <1>1 DEF Created
  <1>3. removed[g] \in Snapshots
    BY <1>1 DEF IInv, TypeOK
  <1>4. /\ removed[g].services \subseteq Services
        /\ removed[g].ids \subseteq Ids
        /\ link \in [Ids -> Services \cup {None}]
    BY <1>3 DEF Snapshots
  <1>5. \A a \in Ids : link[a] # None => /\ link[a] \in removed[g].services
                                         /\ ProviderOf[link[a]] = g
    BY <1>1 DEF IInv, SnapshotOK
  <1> HIDE DEF link
  <1>6. g # None
    BY ConstantsAssumption
  <1>7. \A a \in Created :
          /\ rows'[a] \in Row /\ RowInv(rows'[a], now)
          /\ rows'[a].terms = rows[a].terms
          /\ rows[a].activated => rows'[a].activated
          /\ rows[a].status = "terminated" => rows'[a].status = "terminated"
          /\ rows'[a].provider \in {rows[a].provider, g}
          /\ \/ rows'[a].service = rows[a].service
             \/ rows'[a].service # None => rows'[a].service \in removed[g].services
    <2> SUFFICES ASSUME NEW a \in Created
                 PROVE  /\ rows'[a] \in Row /\ RowInv(rows'[a], now)
                        /\ rows'[a].terms = rows[a].terms
                        /\ rows[a].activated => rows'[a].activated
                        /\ rows[a].status = "terminated" => rows'[a].status = "terminated"
                        /\ rows'[a].provider \in {rows[a].provider, g}
                        /\ \/ rows'[a].service = rows[a].service
                           \/ rows'[a].service # None
                                => rows'[a].service \in removed[g].services
      OBVIOUS
    <2>1. rows[a] \in Row /\ RowInv(rows[a], now) /\ a \in Ids
      BY DEF IInv, TypeOK
    <2>2. rows'[a] = rows[a] \/ rows'[a] = Relink(rows[a], link[a], g)
      BY <1>1
    <2>3. CASE rows'[a] = rows[a]
      BY <2>1, <2>3
    <2>4. CASE /\ rows'[a] = Relink(rows[a], link[a], g)
               /\ rows[a].service = None /\ rows[a].provider = None
      <3>1. rows'[a] = [rows[a] EXCEPT !.service = link[a], !.provider = g]
        BY <2>4 DEF Relink
      <3> QED
        BY <1>4, <1>5, <1>6, <2>1, <2>4, <3>1
        DEF Row, RowInv, Negotiating, InForce
    <2>5. CASE /\ rows'[a] = Relink(rows[a], link[a], g)
               /\ ~(rows[a].service = None /\ rows[a].provider = None)
      BY <2>1, <2>5 DEF Relink
    <2> QED
      BY <2>2, <2>3, <2>4, <2>5
  <1>8. TypeOK'
    BY <1>1, <1>2, <1>4, <1>7 DEF IInv, TypeOK, Created
  <1>9. LinksLive'
    <2>1. \A s \in removed[g].services : ProviderOf[s] = g
      BY <1>1 DEF IInv, SnapshotOK
    <2>2. \A s \in services' : ProviderOf[s] \in agents'
      BY <1>1, <2>1 DEF IInv, LinksLive
    <2>3. \A a \in Created :
            /\ rows[a].provider # None => rows[a].provider \in agents
            /\ rows[a].service # None => rows[a].service \in services
      BY DEF IInv, LinksLive
    <2>4. \A a \in Created :
            /\ rows'[a].provider # None => rows'[a].provider \in agents'
            /\ rows'[a].service # None => rows'[a].service \in services'
      BY <1>1, <1>7, <2>3
    <2> QED
      BY <1>2, <2>2, <2>4 DEF LinksLive
  <1>10. SnapshotOK'
    <2>1. \A h \in Agents : removed'[h] # None => removed'[h] = removed[h]
      <3>1. removed \in [Agents -> Snapshots \cup {None}]
        BY DEF IInv, TypeOK
      <3>2. removed' = [removed EXCEPT ![g] = None]
        BY <1>1
      <3> QED
        BY <3>1, <3>2
    <2> SUFFICES ASSUME NEW h \in Agents, removed'[h] # None
                 PROVE  /\ \A s \in removed'[h].services : ProviderOf[s] = h
                        /\ \A a \in Ids : removed'[h].link[a] # None =>
                               removed'[h].link[a] \in removed'[h].services
      BY DEF SnapshotOK
    <2>2. removed'[h] = removed[h] /\ removed[h] # None
      BY <2>1
    <2>3. /\ \A s \in removed[h].services : ProviderOf[s] = h
          /\ \A a \in Ids : removed[h].link[a] # None =>
                               removed[h].link[a] \in removed[h].services
      BY <2>2 DEF IInv, SnapshotOK
    <2> QED
      BY <2>2, <2>3
  <1> QED
    BY <1>1, <1>2, <1>7, <1>8, <1>9, <1>10, RewriteStep

\* The deletion of a service preserves IInv (retireServiceAgreements).
LEMMA DeleteServiceStep ==
    ASSUME IInv, NEW s \in Services, DeleteService(s)
    PROVE  IInv'
  <1>1. /\ rows' = [a \in Created |-> IF rows[a].service = s THEN RetireService(rows[a])
                                                             ELSE rows[a]]
        /\ audit' = [a \in Created |->
                       IF rows[a].service = s /\ rows[a].status \notin Terminal
                         THEN "remover" ELSE audit[a]]
        /\ services' = services \ {s}
        /\ UNCHANGED <<agents, removed, probe, flaps, now, supersedes>>
    BY DEF DeleteService, probeVars
  <1>2. Created' = Created
    BY <1>1 DEF Created
  <1>3. \A a \in Created :
          /\ rows'[a] \in Row /\ RowInv(rows'[a], now)
          /\ rows'[a].provider = rows[a].provider
          /\ rows'[a].terms = rows[a].terms
          /\ rows[a].activated => rows'[a].activated
          /\ rows[a].status = "terminated" => rows'[a].status = "terminated"
          /\ rows'[a].service = IF rows[a].service = s THEN None ELSE rows[a].service
    <2> SUFFICES ASSUME NEW a \in Created
                 PROVE  /\ rows'[a] \in Row /\ RowInv(rows'[a], now)
                        /\ rows'[a].provider = rows[a].provider
                        /\ rows'[a].terms = rows[a].terms
                        /\ rows[a].activated => rows'[a].activated
                        /\ rows[a].status = "terminated" => rows'[a].status = "terminated"
                        /\ rows'[a].service = IF rows[a].service = s THEN None
                                                                     ELSE rows[a].service
      OBVIOUS
    <2>1. rows[a] \in Row /\ RowInv(rows[a], now) /\ now \in Nat
      BY DEF IInv, TypeOK
    <2>2. CASE rows[a].service = s
      <3>1. rows'[a] = RetireService(rows[a])
        BY <1>1, <2>2
      <3> QED
        BY <2>1, <2>2, <3>1, RetireServiceRow DEF Terminal
    <2>3. CASE rows[a].service # s
      BY <1>1, <2>1, <2>3
    <2> QED
      BY <2>2, <2>3
  <1>4. TypeOK'
    BY <1>1, <1>2, <1>3 DEF IInv, TypeOK, Created, Actors
  <1>5. LinksLive' /\ SnapshotOK'
    BY <1>1, <1>2, <1>3 DEF IInv, LinksLive, SnapshotOK
  <1> QED
    BY <1>1, <1>2, <1>3, <1>4, <1>5, RewriteStep

----------------------------------------------------------------------------
\* Steps of the world that touch no row: the probe and the clock.
LEMMA ProbeStep ==
    ASSUME IInv, NEW g \in Agents, Heartbeat(g) \/ FallSilent(g) \/ LoseProbe(g)
    PROVE  IInv'
  <1>1. UNCHANGED <<rows, agents, services, removed, now, supersedes, audit>>
    BY DEF Heartbeat, FallSilent, LoseProbe, worldVars
  <1>2. probe' \in [Agents -> Probes] /\ flaps' \in Nat
    BY DEF Heartbeat, FallSilent, LoseProbe, IInv, TypeOK, Probes
  <1>3. TypeOK'
    BY <1>1, <1>2 DEF IInv, TypeOK, Created
  <1> QED
    BY <1>1, <1>3
    DEF IInv, LinksLive, SnapshotOK, OneLiveSuccessor, Created, RowInv

\* The clock preserves IInv: a deadline only comes closer.
LEMMA TickStep ==
    ASSUME IInv, Tick
    PROVE  IInv'
  <1>1. /\ now' = now + 1
        /\ UNCHANGED <<rows, agents, services, removed, probe, flaps, supersedes, audit>>
    BY DEF Tick, worldVars, probeVars
  <1>2. TypeOK' /\ now \in Nat /\ Created' = Created
    BY <1>1 DEF IInv, TypeOK, Created
  <1>3. \A a \in Created : RowInv(rows'[a], now')
    <2> SUFFICES ASSUME NEW a \in Created PROVE RowInv(rows[a], now + 1)
      BY <1>1
    <2>1. RowInv(rows[a], now)
      BY DEF IInv
    <2>2. rows[a].hold \in Nat /\ rows[a].hold <= now + HOLD_MAX_SEC
            => rows[a].hold <= now + 1 + HOLD_MAX_SEC
      BY <1>2, ConstantsAssumption
    <2> QED
      BY <2>1, <2>2 DEF RowInv
  <1>4. LinksLive' /\ SnapshotOK'
    BY <1>1, <1>2 DEF IInv, LinksLive, SnapshotOK
  <1> QED
    BY <1>1, <1>2, <1>3, <1>4, RewriteStep

----------------------------------------------------------------------------
\* A proposal, of a service and its own provider.
LEMMA ProposedRow ==
    ASSUME NEW s \in Services, NEW g \in Agents, NEW terms \in Terms,
           NEW collab \in Collabs \cup {None}, NEW n \in Nat, ProviderOf[s] = g,
           NEW row, row = CreateAgreement(s, g, terms, "explicit", "proposed", collab)
    PROVE  /\ row \in Row /\ RowInv(row, n)
           /\ row.service = s /\ row.provider = g
           /\ row.terms = terms /\ ~row.activated
  <1>1. s # None /\ g # None
    BY ConstantsAssumption
  <1> QED
    BY <1>1
    DEF CreateAgreement, Row, RowInv, Statuses, Sources, Reasons, Negotiating, InForce

\* A row born active, of a service and its own provider.
LEMMA BornActiveRow ==
    ASSUME NEW s \in Services, NEW g \in Agents, NEW terms \in Terms,
           NEW collab \in Collabs \cup {None}, NEW n \in Nat, ProviderOf[s] = g,
           NEW row, row = CreateAgreement(s, g, terms, "explicit", "active", collab)
    PROVE  /\ row \in Row /\ RowInv(row, n)
           /\ row.service = s /\ row.provider = g
           /\ row.terms = terms /\ row.activated
  <1>1. s # None /\ g # None
    BY ConstantsAssumption
  <1> QED
    BY <1>1
    DEF CreateAgreement, Row, RowInv, Statuses, Sources, Reasons, Negotiating, InForce

\* A new proposal preserves IInv: it is made for a service that exists (POST
\* agreements).
LEMMA ProposeStep ==
    ASSUME IInv,
           NEW a \in Ids, NEW s \in Services, NEW terms \in Terms,
           Propose(a, s, terms)
    PROVE  IInv'
  <1> DEFINE row == CreateAgreement(s, ProviderOf[s], terms, "explicit", "proposed", None)
  <1>1. /\ a \notin Created /\ s \in services
        /\ rows' = [b \in Created \cup {a} |-> IF b = a THEN row ELSE rows[b]]
        /\ supersedes' = [b \in Created \cup {a} |-> IF b = a THEN None ELSE supersedes[b]]
        /\ audit' = [b \in Created \cup {a} |-> IF b = a THEN "consumer" ELSE audit[b]]
        /\ UNCHANGED <<agents, services, removed, probe, flaps, now>>
    BY DEF Propose, worldVars, probeVars
  <1>2. ProviderOf[s] \in Agents /\ ProviderOf[s] \in agents
    BY <1>1, ConstantsAssumption DEF IInv, LinksLive
  <1>3. now \in Nat
    BY DEF IInv, TypeOK
  <1>4. /\ row \in Row /\ RowInv(row, now)
        /\ row.service = s /\ row.provider = ProviderOf[s]
    BY <1>2, <1>3, ProposedRow
  <1> HIDE DEF row
  <1>5. Created' = Created \cup {a}
    BY <1>1 DEF Created
  <1>6. TypeOK'
    BY <1>1, <1>4, <1>5 DEF IInv, TypeOK, Created, Actors
  <1>7. \A b \in Created' : RowInv(rows'[b], now)
    BY <1>1, <1>4, <1>5 DEF IInv
  <1>8. (\A b \in Created : RowInv(rows[b], now))'
    BY <1>1, <1>7 DEF RowInv
  <1>9. LinksLive' /\ SnapshotOK'
    BY <1>1, <1>2, <1>4, <1>5 DEF IInv, LinksLive, SnapshotOK
  <1>10. OneLiveSuccessor'
    BY <1>1, <1>5, IdsAssumption DEF IInv, TypeOK, OneLiveSuccessor
  <1> QED
    BY <1>6, <1>8, <1>9, <1>10 DEF IInv

----------------------------------------------------------------------------
(***************************************************************************)
(* The watchdog: parked and re-signed rows stay well formed, and a re-sign *)
(* closes exactly the row its successor stands for.                        *)
(***************************************************************************)
LEMMA SweptRowOK ==
    ASSUME IInv, NEW a \in Created
    PROVE  /\ SweptRow(a) \in Row /\ RowInv(SweptRow(a), now)
           /\ SweptRow(a).service = rows[a].service
           /\ SweptRow(a).provider = rows[a].provider
           /\ SweptRow(a).terms = rows[a].terms
           /\ rows[a].activated => SweptRow(a).activated
           /\ a \in ToResign => SweptRow(a).status = "terminated"
           /\ rows[a].status \in {"terminated", "rejected"} => SweptRow(a) = rows[a]
  <1>1. rows[a] \in Row /\ RowInv(rows[a], now) /\ now \in Nat
    BY DEF IInv, TypeOK
  <1>2. PROVIDER_UNREACHABLE \in Reasons /\ PROVIDER_RECOVERED \in Reasons
    BY DEF Reasons, PlatformReasons
  <1>3. {"suspended", "terminated"} \subseteq Statuses
    BY DEF Statuses
  <1>4. CASE a \in ToPark
    <2>1. rows[a].status = "active" /\ a \notin ToResign
      BY <1>4 DEF ToPark, ToResign
    <2>2. SweptRow(a) = SetStatus(rows[a], "suspended", PROVIDER_UNREACHABLE)
      BY <1>4 DEF SweptRow
    <2> QED
      BY <1>1, <1>2, <1>3, <2>1, <2>2, SetStatusRow
  <1>5. CASE a \in ToResign
    <2>1. rows[a].status = "suspended" /\ a \notin ToPark
      BY <1>5 DEF ToPark, ToResign
    <2>2. SweptRow(a) = SetStatus(rows[a], "terminated", PROVIDER_RECOVERED)
      BY <1>5, <2>1 DEF SweptRow
    <2>3. SweptRow(a).status = "terminated"
      BY <2>2, <1>1 DEF SetStatus, Row
    <2> QED
      BY <1>1, <1>2, <1>3, <2>1, <2>2, <2>3, SetStatusRow
  <1>6. CASE a \notin ToPark \cup ToResign
    BY <1>1, <1>6 DEF SweptRow
  <1> QED
    BY <1>4, <1>5, <1>6

\* The row the watchdog re-signs for a parked one is well formed and has the same
\* parties and terms (resignRecoveredAgreement).
LEMMA SuccessorOK ==
    ASSUME IInv, NEW a \in ToResign
    PROVE  /\ Successor(a) \in Row /\ RowInv(Successor(a), now)
           /\ Successor(a).service = rows[a].service
           /\ Successor(a).provider = rows[a].provider
           /\ Successor(a).terms = rows[a].terms
           /\ Successor(a).activated
  <1>1. /\ a \in Created /\ rows[a] \in Row /\ RowInv(rows[a], now) /\ now \in Nat
        /\ rows[a].service # None /\ rows[a].provider # None
    BY DEF IInv, TypeOK, ToResign, Watched
  <1>2. /\ rows[a].service \in Services /\ rows[a].provider \in Agents
        /\ rows[a].terms \in Terms /\ rows[a].collab \in Collabs \cup {None}
        /\ rows[a].source = "explicit"
        /\ ProviderOf[rows[a].service] = rows[a].provider
    BY <1>1 DEF Row, RowInv
  <1>3. Successor(a) = CreateAgreement(rows[a].service, rows[a].provider,
                                       rows[a].terms, "explicit", "active",
                                       rows[a].collab)
    BY <1>2 DEF Successor
  <1> DEFINE s == rows[a].service
             g == rows[a].provider
             terms == rows[a].terms
             collab == rows[a].collab
  <1>4. /\ s \in Services /\ g \in Agents /\ terms \in Terms
        /\ collab \in Collabs \cup {None} /\ ProviderOf[s] = g
    BY <1>2
  <1>5. Successor(a) = CreateAgreement(s, g, terms, "explicit", "active", collab)
    BY <1>3
  <1> HIDE DEF s, g, terms, collab
  <1>6. /\ Successor(a) \in Row /\ RowInv(Successor(a), now)
        /\ Successor(a).service = s /\ Successor(a).provider = g
        /\ Successor(a).terms = terms /\ Successor(a).activated
    BY <1>1, <1>4, <1>5, BornActiveRow
  <1> QED
    BY <1>6 DEF s, g, terms

\* A sweep, which parks and re-signs any number of rows at once, preserves IInv
\* (sweepProviderFailover).
LEMMA SweepStep ==
    ASSUME IInv, Sweep
    PROVE  IInv'
  <1>1. PICK heir \in [ToResign -> Ids \ (Created \cup ProposalIds)] :
          /\ \A a, b \in ToResign : heir[a] = heir[b] => a = b
          /\ LET heirs == {heir[a] : a \in ToResign}
                 Predecessor(b) == CHOOSE a \in ToResign : heir[a] = b
             IN  /\ rows' = [b \in Created \cup heirs |->
                               IF b \in heirs THEN Successor(Predecessor(b))
                                              ELSE SweptRow(b)]
                 /\ supersedes' = [b \in Created \cup heirs |->
                               IF b \in heirs THEN Predecessor(b) ELSE supersedes[b]]
                 /\ audit' = [b \in Created \cup heirs |->
                               IF b \in heirs \cup ToPark \cup ToResign
                                 THEN "system" ELSE audit[b]]
    BY DEF Sweep
  <1>2. UNCHANGED <<agents, services, removed, probe, flaps, now>>
    BY DEF Sweep, worldVars, probeVars
  <1> DEFINE heirs == {heir[a] : a \in ToResign}
             Predecessor(b) == CHOOSE a \in ToResign : heir[a] = b
  <1>3. /\ rows' = [b \in Created \cup heirs |->
                      IF b \in heirs THEN Successor(Predecessor(b)) ELSE SweptRow(b)]
        /\ supersedes' = [b \in Created \cup heirs |->
                      IF b \in heirs THEN Predecessor(b) ELSE supersedes[b]]
        /\ audit' = [b \in Created \cup heirs |->
                      IF b \in heirs \cup ToPark \cup ToResign
                        THEN "system" ELSE audit[b]]
    BY <1>1
  <1>4. \A b \in heirs : Predecessor(b) \in ToResign /\ heir[Predecessor(b)] = b
    OBVIOUS
  <1>5. \A b, c \in heirs : Predecessor(b) = Predecessor(c) => b = c
    BY <1>4
  <1>6. heirs \subseteq Ids /\ \A b \in heirs : b \notin Created
    BY <1>1
  <1>7. ToResign \subseteq Created
    BY DEF ToResign
  <1> HIDE DEF heirs, Predecessor
  <1>8. Created' = Created \cup heirs
    BY <1>3 DEF Created
  <1>9. \A b \in heirs : /\ rows'[b] = Successor(Predecessor(b))
                         /\ supersedes'[b] = Predecessor(b)
    BY <1>3
  <1>10. \A b \in Created : /\ rows'[b] = SweptRow(b)
                            /\ supersedes'[b] = supersedes[b]
    BY <1>3, <1>6
  <1>11. \A b \in Created' : rows'[b] \in Row /\ RowInv(rows'[b], now)
    BY <1>4, <1>8, <1>9, <1>10, SweptRowOK, SuccessorOK
  <1>12. TypeOK'
    <2>1. Created' \subseteq Ids /\ rows' \in [Created' -> Row]
      BY <1>3, <1>6, <1>8, <1>11 DEF IInv, TypeOK
    <2>2. supersedes' \in [Created' -> Ids \cup {None}]
      BY <1>3, <1>4, <1>7, <1>8 DEF IInv, TypeOK
    <2>3. audit' \in [Created' -> Actors]
      BY <1>3, <1>8 DEF IInv, TypeOK, Actors
    <2> QED
      BY <1>2, <2>1, <2>2, <2>3 DEF IInv, TypeOK
  <1>13. (\A b \in Created : RowInv(rows[b], now))'
    BY <1>2, <1>11 DEF RowInv
  <1>14. LinksLive'
    <2> SUFFICES ASSUME NEW b \in Created'
                 PROVE  /\ rows'[b].provider # None => rows'[b].provider \in agents
                        /\ rows'[b].service # None => rows'[b].service \in services
      BY <1>2 DEF LinksLive, IInv
    <2>1. CASE b \in Created
      BY <1>10, <2>1, SweptRowOK DEF IInv, LinksLive
    <2>2. CASE b \in heirs
      BY <1>4, <1>7, <1>9, <2>2, SuccessorOK DEF IInv, LinksLive
    <2> QED
      BY <1>8, <2>1, <2>2
  <1>15. SnapshotOK'
    BY <1>2 DEF IInv, SnapshotOK
  <1>16. OneLiveSuccessor'
    <2>1. \A b \in Created : supersedes[b] # None =>
             /\ supersedes[b] \in Created
             /\ rows[supersedes[b]].status = "terminated"
             /\ supersedes[b] \notin ToResign
      BY DEF IInv, OneLiveSuccessor, ToResign
    <2>2. \A b \in Created' : supersedes'[b] # None =>
             /\ supersedes'[b] \in Created'
             /\ rows'[supersedes'[b]].status = "terminated"
             /\ rows'[b].terms = rows'[supersedes'[b]].terms
             /\ rows'[b].activated
      <3> SUFFICES ASSUME NEW b \in Created', supersedes'[b] # None
                   PROVE  /\ supersedes'[b] \in Created'
                          /\ rows'[supersedes'[b]].status = "terminated"
                          /\ rows'[b].terms = rows'[supersedes'[b]].terms
                          /\ rows'[b].activated
        OBVIOUS
      <3>1. CASE b \in Created
        <4>1. /\ supersedes'[b] = supersedes[b] /\ supersedes[b] \in Created
              /\ rows[supersedes[b]].status = "terminated"
              /\ rows[b].terms = rows[supersedes[b]].terms
              /\ rows[b].activated
          BY <1>10, <3>1 DEF IInv, OneLiveSuccessor
        <4>2. /\ rows'[supersedes[b]] = rows[supersedes[b]]
              /\ rows'[b].terms = rows[b].terms /\ rows'[b].activated
          BY <1>10, <3>1, <4>1, SweptRowOK
        <4> QED
          BY <1>8, <4>1, <4>2
      <3>2. CASE b \in heirs
        <4> DEFINE a == Predecessor(b)
        <4>1. supersedes'[b] = a /\ a \in ToResign /\ a \in Created
          BY <1>4, <1>7, <1>9, <3>2
        <4> HIDE DEF a
        <4>2. rows'[b] = Successor(a) /\ rows'[a] = SweptRow(a)
          BY <1>9, <1>10, <3>2, <4>1 DEF a
        <4> QED
          BY <1>8, <4>1, <4>2, SweptRowOK, SuccessorOK
      <3> QED
        BY <1>8, <3>1, <3>2
    <2>3. \A b, c \in Created' :
             supersedes'[b] = supersedes'[c] /\ supersedes'[b] # None => b = c
      BY <1>4, <1>5, <1>8, <1>9, <1>10, <2>1 DEF IInv, OneLiveSuccessor
    <2> QED
      BY <2>2, <2>3 DEF OneLiveSuccessor
  <1> QED
    BY <1>12, <1>13, <1>14, <1>15, <1>16 DEF IInv

----------------------------------------------------------------------------
\* An empty table satisfies the inductive invariant.
THEOREM InitIInv == Init => IInv
  <1> SUFFICES ASSUME Init PROVE IInv
    OBVIOUS
  <1>1. Created = {} /\ DOMAIN supersedes = {} /\ DOMAIN audit = {}
    BY DEF Init, Created
  <1>2. TypeOK
    BY <1>1 DEF Init, TypeOK, Created, Probes
  <1>3. LinksLive
    BY <1>1, ConstantsAssumption DEF Init, LinksLive
  <1>4. SnapshotOK
    BY DEF Init, SnapshotOK
  <1>5. OneLiveSuccessor
    BY <1>1 DEF OneLiveSuccessor
  <1> QED
    BY <1>1, <1>2, <1>3, <1>4, <1>5 DEF IInv

\* Every handler, read, removal, revert, sweep and tick preserves the inductive
\* invariant.
THEOREM NextIInv == IInv /\ [Next]_vars => IInv'
  <1> SUFFICES ASSUME IInv, [Next]_vars PROVE IInv'
    OBVIOUS
  <1>1. CASE Negotiate
    <2>1. ASSUME NEW a \in Ids, NEW s \in Services, NEW terms \in Terms,
                 Propose(a, s, terms)
          PROVE  IInv'
      BY <2>1, ProposeStep
    <2>2. ASSUME NEW a \in Created, NEW status \in {"active", "rejected"},
                 NEW reason \in OptionalReasons, DecideProposal(a, status, reason)
          PROVE  IInv'
      BY <2>2, DecideProposalStep DEF DecideProposal, Actors
    <2>3. ASSUME NEW a \in Created, NEW status \in {"active", "rejected"},
                 NEW reason \in OptionalReasons, RemindAgentProvider(a, status, reason)
          PROVE  IInv'
      BY <2>3, DecideProposalStep DEF RemindAgentProvider, Actors
    <2>4. ASSUME NEW a \in Created, NEW accept \in BOOLEAN,
                 NEW reason \in OptionalReasons, DecideCounter(a, accept, reason)
          PROVE  IInv'
      BY <2>4, DecideCounterStep
    <2>5. ASSUME NEW a \in Created, NEW terms \in Terms, Counter(a, terms)
          PROVE  IInv'
      BY <2>5, CounterStep
    <2> QED
      BY <1>1, <2>1, <2>2, <2>3, <2>4, <2>5 DEF Negotiate
  <1>2. CASE Perform
    <2>1. ASSUME NEW a \in Created, NEW reason \in OptionalReasons, Suspend(a, reason)
          PROVE  IInv'
      BY <2>1, StatusStep DEF Suspend, Statuses, Actors
    <2>2. ASSUME NEW a \in Created, NEW reason \in OptionalReasons, Terminate(a, reason)
          PROVE  IInv'
      BY <2>2, StatusStep DEF Terminate, Statuses, Actors
    <2>3. ASSUME NEW a \in Created, NEW d \in 1..HOLD_MAX_SEC, Hold(a, d)
          PROVE  IInv'
      BY <2>3, HoldStep
    <2>4. ASSUME NEW a \in Created, ReleaseHold(a)
          PROVE  IInv'
      BY <2>4, ReleaseHoldStep
    <2> QED
      BY <1>2, <2>1, <2>2, <2>3, <2>4 DEF Perform
  <1>3. CASE Reads
    <2>1. PICK read \in SUBSET Created : SettleOnRead(read)
      BY <1>3 DEF Reads
    <2> QED
      BY <2>1, SettleOnReadStep
  <1>4. CASE World
    BY <1>4, DeleteAgentStep, ApplyRemoveAgentsStep, RevertRemoveAgentsStep,
       DeleteServiceStep DEF World
  <1>5. CASE Liveness
    BY <1>5, ProbeStep DEF Liveness
  <1>6. CASE Sweep
    BY <1>6, SweepStep
  <1>7. CASE Tick
    BY <1>7, TickStep
  <1>8. CASE UNCHANGED vars
    BY <1>8 DEF vars, IInv, TypeOK, LinksLive, SnapshotOK, OneLiveSuccessor,
                Created, RowInv
  <1> QED
    BY <1>1, <1>2, <1>3, <1>4, <1>5, <1>6, <1>7, <1>8 DEF Next

\* The inductive invariant holds in every behaviour.
THEOREM Invariance == Spec => []IInv
  BY InitIInv, NextIInv, PTL DEF Spec

\* The table, the world around it and the audit keep their types in every
\* interleaving of parties, removals, reverts, reads and sweeps.
THEOREM TypeCorrect == Spec => []TypeOK
  <1>1. IInv => TypeOK
    BY DEF IInv
  <1> QED
    BY <1>1, Invariance, PTL

\* No agreement is negotiated or in force against a provider or a service that
\* does not exist (retireProviderAgreements, retireServiceAgreements, relink).
THEOREM NoDeadContractHolds == Spec => []NoDeadContract
  <1>1. IInv => NoDeadContract
    <2> SUFFICES ASSUME IInv, NEW a \in Created,
                        rows[a].status \in Negotiating \cup InForce
                 PROVE  /\ rows[a].provider \in agents
                        /\ rows[a].service \in services
                        /\ ProviderOf[rows[a].service] = rows[a].provider
      BY DEF NoDeadContract
    <2>1. RowInv(rows[a], now) /\ LinksLive
      BY DEF IInv
    <2> QED
      BY <2>1 DEF RowInv, LinksLive
  <1> QED
    BY <1>1, Invariance, PTL

\* Every pause ends within the ceiling, and no other row keeps a deadline that
\* a later hold could inherit (hold, settleExpiredHold, the retire map).
THEOREM BoundedHoldHolds == Spec => []BoundedHold
  <1>1. IInv => BoundedHold
    BY DEF IInv, RowInv, BoundedHold
  <1> QED
    BY <1>1, Invariance, PTL

\* activated_at tells a contract that was in force from one that never was,
\* on every road into and out of force.
THEOREM ActivationHistoryHolds == Spec => []ActivationHistory
  <1>1. IInv => ActivationHistory
    BY DEF IInv, RowInv, ActivationHistory
  <1> QED
    BY <1>1, Invariance, PTL

\* The watchdog's "terminate + re-sign" never leaves two live contracts for
\* one (resignRecoveredAgreement).
THEOREM OneLiveSuccessorHolds == Spec => []OneLiveSuccessor
  <1>1. IInv => OneLiveSuccessor
    BY DEF IInv
  <1> QED
    BY <1>1, Invariance, PTL

-----------------------------------------------------------------------------
(***************************************************************************)
(* What no step does to a row: the action properties.  Each action is      *)
(* reduced to what it may do to one row under one audited actor (Lawful),  *)
(* and the properties are read off it.                                     *)
(***************************************************************************)

\* A row may go from old to new in one step audited under the given actor.
Lawful(old, new, actor) ==
    /\ old.status \in Terminal =>
           /\ new.status = old.status /\ new.reason = old.reason
           /\ new.terms = old.terms
    /\ old.status = "suspended" => new.status \in {"suspended", "terminated"}
    /\ new.terms # old.terms =>
           /\ old.status = "countered" /\ new.status = "active"
           /\ new.terms = old.countered /\ actor = "consumer"

Step(a) == a \in DOMAIN rows' /\ Lawful(rows[a], rows'[a], audit'[a])

----------------------------------------------------------------------------
\* A row that a step leaves alone, or changes only where Lawful does not look.
LEMMA KeptIsLawful ==
    ASSUME NEW old, NEW new, NEW actor,
           new.status = old.status, new.reason = old.reason, new.terms = old.terms
    PROVE  Lawful(old, new, actor)
  BY DEF Lawful

\* Ending an expired hold is lawful under any actor (settleExpiredHold).
LEMMA SettlingIsLawful ==
    ASSUME IInv, NEW a \in Created, NEW actor
    PROVE  Lawful(rows[a], Settled(a), actor)
  <1>1. CASE rows[a].status = "held"
    BY <1>1, FetchedRow DEF Lawful, Terminal
  <1>2. CASE rows[a].status # "held"
    BY <1>2, FetchedRow, KeptIsLawful
  <1> QED
    BY <1>1, <1>2

\* The retire map is lawful: it ends a negotiation or parks a contract, and
\* leaves terminal rows and all terms alone.
LEMMA RetiringIsLawful ==
    ASSUME IInv, NEW a \in Created, NEW actor
    PROVE  /\ Lawful(rows[a], RetireProvider(rows[a]), actor)
           /\ Lawful(rows[a], RetireService(rows[a]), actor)
  <1>1. rows[a] \in Row /\ rows[a].source = "explicit"
    BY DEF IInv, TypeOK, RowInv
  <1> QED
    BY <1>1 DEF Lawful, RetireProvider, RetireService, Retire, RetireTarget, Row,
                Statuses, Negotiating, Terminal

\* Relinking is lawful: the status stays (relinkProviderAgreement).
LEMMA RelinkingIsLawful ==
    ASSUME IInv, NEW a \in Created, NEW s, NEW g, NEW actor
    PROVE  Lawful(rows[a], Relink(rows[a], s, g), actor)
  <1>1. rows[a] \in Row
    BY DEF IInv, TypeOK
  <1> QED
    BY <1>1 DEF Lawful, Relink, Row

----------------------------------------------------------------------------
\* A write of one row is a step of every row if it is lawful for that one.
LEMMA WriteIsStep ==
    ASSUME IInv, NEW a \in Created, NEW row, NEW actor,
           Write(a, row, actor), Lawful(rows[a], row, actor)
    PROVE  \A b \in Created : Step(b)
  <1>1. /\ rows' = [rows EXCEPT ![a] = row]
        /\ audit' = [audit EXCEPT ![a] = actor]
        /\ rows \in [Created -> Row] /\ a \in DOMAIN audit
    BY DEF Write, IInv, TypeOK
  <1> TAKE b \in Created
  <1>2. b \in DOMAIN rows'
    BY <1>1
  <1>3. CASE b = a
    BY <1>1, <1>2, <1>3 DEF Step
  <1>4. CASE b # a
    BY <1>1, <1>2, <1>4, KeptIsLawful DEF Step
  <1> QED
    BY <1>3, <1>4

\* A step that sends every row to a lawful one.
LEMMA RewriteIsStep ==
    ASSUME Created \subseteq DOMAIN rows',
           \A a \in Created : Lawful(rows[a], rows'[a], audit'[a])
    PROVE  \A a \in Created : Step(a)
  BY DEF Step

\* The handlers of the negotiation (POST agreements, decide, remind, counter).
LEMMA NegotiateIsStep ==
    ASSUME IInv, Negotiate
    PROVE  \A a \in Created : Step(a)
  <1>1. ASSUME NEW a \in Ids, NEW s \in Services, NEW terms \in Terms,
               Propose(a, s, terms)
        PROVE  \A b \in Created : Step(b)
    <2>1. /\ a \notin Created
          /\ Created \subseteq DOMAIN rows'
          /\ \A b \in Created : rows'[b] = rows[b]
      BY <1>1 DEF Propose
    <2> QED
      BY <2>1, KeptIsLawful, RewriteIsStep
  <1>2. ASSUME NEW a \in Created, NEW status \in {"active", "rejected"},
               NEW reason, NEW actor, Settled(a).status = "proposed",
               Write(a, SetStatus(Settled(a), status, reason), actor)
        PROVE  \A b \in Created : Step(b)
    <2>1. Settled(a) = rows[a] /\ rows[a] \in Row
      BY <1>2, FetchedRow DEF InForce
    <2>2. Lawful(rows[a], SetStatus(Settled(a), status, reason), actor)
      BY <1>2, <2>1 DEF Lawful, SetStatus, Row, Terminal
    <2> QED
      BY <1>2, <2>2, WriteIsStep
  <1>3. ASSUME NEW a \in Created, NEW accept \in BOOLEAN, NEW reason,
               DecideCounter(a, accept, reason)
        PROVE  \A b \in Created : Step(b)
    <2> DEFINE row == IF accept THEN AcceptCounter(Settled(a), reason)
                                ELSE SetStatus(Settled(a), "rejected", reason)
    <2>1. Settled(a).status = "countered" /\ Write(a, row, "consumer")
      BY <1>3 DEF DecideCounter
    <2>2. Settled(a) = rows[a] /\ rows[a] \in Row
      BY <2>1, FetchedRow DEF InForce
    <2>3. Lawful(rows[a], row, "consumer")
      BY <2>1, <2>2 DEF Lawful, SetStatus, AcceptCounter, Row, Terminal
    <2> QED
      BY <2>1, <2>3, WriteIsStep
  <1>4. ASSUME NEW a \in Created, NEW terms \in Terms, Counter(a, terms)
        PROVE  \A b \in Created : Step(b)
    <2>1. /\ Settled(a).status = "proposed"
          /\ Write(a, CounterRow(Settled(a), terms), "provider")
      BY <1>4 DEF Counter
    <2>2. Settled(a) = rows[a] /\ rows[a] \in Row
      BY <2>1, FetchedRow DEF InForce
    <2>3. Lawful(rows[a], CounterRow(Settled(a), terms), "provider")
      BY <2>1, <2>2 DEF Lawful, CounterRow, Row, Terminal
    <2> QED
      BY <2>1, <2>3, WriteIsStep
  <1> QED
    BY <1>1, <1>2, <1>3, <1>4 DEF Negotiate, DecideProposal, RemindAgentProvider

\* The handlers of the performance (POST suspend, terminate, hold, DELETE hold).
LEMMA PerformIsStep ==
    ASSUME IInv, Perform
    PROVE  \A a \in Created : Step(a)
  <1>1. ASSUME NEW a \in Created, NEW row, NEW actor,
               Write(a, row, actor), Settled(a).status \notin Terminal,
               row.terms = Settled(a).terms,
               Settled(a).status = "suspended" => row.status = "terminated"
        PROVE  \A b \in Created : Step(b)
    <2>1. /\ rows[a].status \notin Terminal
          /\ row.terms = rows[a].terms
          /\ rows[a].status = "suspended" => row.status = "terminated"
      BY <1>1, FetchedRow DEF Terminal
    <2> QED
      BY <1>1, <2>1, WriteIsStep DEF Lawful
  <1>2. ASSUME NEW a \in Created, NEW reason, Suspend(a, reason) \/ Terminate(a, reason)
        PROVE  \A b \in Created : Step(b)
    <2>1. Settled(a) \in Row
      BY FetchedRow
    <2> QED
      BY <1>1, <1>2, <2>1 DEF Suspend, Terminate, SetStatus, Row, Terminal
  <1>3. ASSUME NEW a \in Created, NEW d, Hold(a, d) \/ ReleaseHold(a)
        PROVE  \A b \in Created : Step(b)
    <2>1. Settled(a) \in Row
      BY FetchedRow
    <2> QED
      BY <1>1, <1>3, <2>1 DEF Hold, ReleaseHold, HoldRow, Resume, Row, Terminal
  <1> QED
    BY <1>2, <1>3 DEF Perform

\* Removal and restoration of a provider agent, and the deletion of a service.
LEMMA WorldIsStep ==
    ASSUME IInv, World
    PROVE  \A a \in Created : Step(a)
  <1>1. ASSUME NEW g \in Agents, RemoveProvider(g)
        PROVE  \A a \in Created : Step(a)
    <2>1. rows' = [a \in Created |-> IF a \in RowsOf(g) THEN RetireProvider(rows[a])
                                                        ELSE rows[a]]
      BY <1>1 DEF RemoveProvider
    <2> QED
      BY <2>1, RetiringIsLawful, KeptIsLawful, RewriteIsStep
  <1>2. ASSUME NEW g \in Agents, RevertRemoveAgents(g)
        PROVE  \A a \in Created : Step(a)
    <2>1. rows' = [a \in Created |-> IF a \in removed[g].ids
                                       THEN Relink(rows[a], removed[g].link[a], g)
                                       ELSE rows[a]]
      BY <1>2 DEF RevertRemoveAgents
    <2> QED
      BY <2>1, RelinkingIsLawful, KeptIsLawful, RewriteIsStep
  <1>3. ASSUME NEW s \in Services, DeleteService(s)
        PROVE  \A a \in Created : Step(a)
    <2>1. rows' = [a \in Created |-> IF rows[a].service = s THEN RetireService(rows[a])
                                                            ELSE rows[a]]
      BY <1>3 DEF DeleteService
    <2> QED
      BY <2>1, RetiringIsLawful, KeptIsLawful, RewriteIsStep
  <1> QED
    BY <1>1, <1>2, <1>3 DEF World, DeleteAgent, ApplyRemoveAgents

\* The watchdog (sweepProviderFailover): the rows it parks were active, the ones
\* it closes suspended, and a successor is a row of its own.
LEMMA SweepIsStep ==
    ASSUME IInv, Sweep
    PROVE  \A a \in Created : Step(a)
  <1>1. /\ Created \subseteq DOMAIN rows'
        /\ \A a \in Created : rows'[a] = SweptRow(a)
    BY DEF Sweep
  <1>2. ASSUME NEW a \in Created
        PROVE  Lawful(rows[a], SweptRow(a), audit'[a])
    <2>1. rows[a] \in Row
      BY DEF IInv, TypeOK
    <2> QED
      BY <2>1, KeptIsLawful
      DEF SweptRow, ToPark, ToResign, SetStatus, Lawful, Row, Terminal
  <1> QED
    BY <1>1, <1>2, RewriteIsStep

\* Every step is a lawful step of every row.
LEMMA NextIsStep ==
    ASSUME IInv, [Next]_vars
    PROVE  \A a \in Created : Step(a)
  <1>1. CASE Reads
    <2>1. PICK read : rows' = [a \in Created |-> IF a \in read THEN Settled(a) ELSE rows[a]]
      BY <1>1 DEF Reads, SettleOnRead
    <2> QED
      BY <2>1, SettlingIsLawful, KeptIsLawful, RewriteIsStep
  <1>2. CASE rows' = rows
    BY <1>2, KeptIsLawful, RewriteIsStep DEF Created
  <1>3. Liveness \/ Tick \/ UNCHANGED vars => rows' = rows
    BY DEF Liveness, Heartbeat, FallSilent, LoseProbe, Tick, vars
  <1> QED
    BY <1>1, <1>2, <1>3, NegotiateIsStep, PerformIsStep, WorldIsStep, SweepIsStep DEF Next

----------------------------------------------------------------------------
\* A rejected or terminated agreement stays what it is, reason and terms
\* included, also under the retire map, the relink and the sweep.
THEOREM TerminalIsFinalHolds == Spec => TerminalIsFinal
  <1>1. ASSUME IInv, [Next]_vars
        PROVE  \A a \in Created :
                 rows[a].status \in Terminal =>
                    /\ a \in DOMAIN rows'
                    /\ rows'[a].status = rows[a].status
                    /\ rows'[a].reason = rows[a].reason
                    /\ rows'[a].terms = rows[a].terms
    BY <1>1, NextIsStep DEF Step, Lawful
  <1> QED
    BY <1>1, Invariance, PTL DEF Spec, TerminalIsFinal

\* A suspended agreement never comes back into force, whoever suspended it and
\* whatever is restored.
THEOREM NoReactivationHolds == Spec => NoReactivation
  <1>1. ASSUME IInv, [Next]_vars
        PROVE  \A a \in Created :
                 rows[a].status = "suspended" =>
                    rows'[a].status \in {"suspended", "terminated"}
    BY <1>1, NextIsStep DEF Step, Lawful
  <1> QED
    BY <1>1, Invariance, PTL DEF Spec, NoReactivation

\* Terms change in one step only: the consumer's accept of the counter-offer.
THEOREM TermsAreAgreedHolds == Spec => TermsAreAgreed
  <1>1. ASSUME IInv, [Next]_vars
        PROVE  \A a \in Created :
                 rows'[a].terms # rows[a].terms =>
                    /\ rows[a].status = "countered" /\ rows'[a].status = "active"
                    /\ rows'[a].terms = rows[a].countered
                    /\ audit'[a] = "consumer"
    BY <1>1, NextIsStep DEF Step, Lawful
  <1> QED
    BY <1>1, Invariance, PTL DEF Spec, TermsAreAgreed

----------------------------------------------------------------------------
(***************************************************************************)
(* A suspension that is not the watchdog's own stands.  No constant is      *)
(* restricted: a party may write the watchdog's text too, and a row under   *)
(* that text is then simply the watchdog's.                                 *)
(***************************************************************************)
\* A suspended row that is not the watchdog's stays so, or a party ends it.
Stands(old, was, new, actor) ==
    NotTheWatchdogs(old, was) =>
        \/ NotTheWatchdogs(new, actor)
        \/ new.status = "terminated" /\ actor = "party"

Stood(a) == a \in DOMAIN rows' /\ Stands(rows[a], audit[a], rows'[a], audit'[a])

\* A row whose status, reason and actor stay stands.
LEMMA KeptStands ==
    ASSUME NEW old, NEW new, NEW was,
           new.status = old.status, new.reason = old.reason
    PROVE  Stands(old, was, new, was)
  BY DEF Stands, NotTheWatchdogs

\* Neither the watchdog nor a party's handler takes such a suspension away.
LEMMA WriteStands ==
    ASSUME IInv, NEW a \in Created, NEW row, NEW actor,
           Write(a, row, actor),
           Stands(rows[a], audit[a], row, actor)
    PROVE  \A b \in Created : Stood(b)
  <1>1. /\ rows' = [rows EXCEPT ![a] = row]
        /\ audit' = [audit EXCEPT ![a] = actor]
        /\ rows \in [Created -> Row] /\ audit \in [Created -> Actors]
    BY DEF Write, IInv, TypeOK
  <1> TAKE b \in Created
  <1>2. CASE b = a
    BY <1>1, <1>2 DEF Stood
  <1>3. CASE b # a
    BY <1>1, <1>3, KeptStands DEF Stood
  <1> QED
    BY <1>2, <1>3

\* The handlers of the parties: only terminate touches a suspended row.
LEMMA HandlersStand ==
    ASSUME IInv, Negotiate \/ Perform
    PROVE  \A a \in Created : Stood(a)
  <1>1. ASSUME NEW a \in Ids, NEW s \in Services, NEW terms \in Terms,
               Propose(a, s, terms)
        PROVE  \A b \in Created : Stood(b)
    <2>1. /\ Created \subseteq DOMAIN rows'
          /\ \A b \in Created : rows'[b] = rows[b] /\ audit'[b] = audit[b]
      BY <1>1 DEF Propose
    <2> QED
      BY <2>1, KeptStands DEF Stood
  <1>2. ASSUME NEW a \in Created, NEW row, NEW actor,
               Write(a, row, actor),
               rows[a].status = "suspended" =>
                  row.status = "terminated" /\ actor = "party"
        PROVE  \A b \in Created : Stood(b)
    BY <1>2, WriteStands DEF Stands, NotTheWatchdogs
  <1>3. \A a \in Created : Settled(a) \in Row
    BY FetchedRow
  <1>4. \A a \in Created : rows[a].status = "suspended" => Settled(a).status = "suspended"
    BY FetchedRow
  <1>5. ASSUME NEW a \in Created, NEW reason \in OptionalReasons, Suspend(a, reason)
        PROVE  \A b \in Created : Stood(b)
    BY <1>2, <1>4, <1>5 DEF Suspend
  <1>6. ASSUME NEW a \in Created, NEW reason, Terminate(a, reason)
        PROVE  \A b \in Created : Stood(b)
    <2>1. SetStatus(Settled(a), "terminated", reason).status = "terminated"
      BY <1>3 DEF SetStatus, Row
    <2> QED
      BY <1>2, <1>6, <2>1 DEF Terminate
  <1>7. ASSUME NEW a \in Created, NEW d, Hold(a, d) \/ ReleaseHold(a)
        PROVE  \A b \in Created : Stood(b)
    <2>1. /\ HoldRow(Settled(a), now + d).status = "held"
          /\ Resume(Settled(a)).status = "active"
      BY <1>3 DEF HoldRow, Resume, Row
    <2> QED
      BY <1>2, <1>4, <1>7, <2>1 DEF Hold, ReleaseHold
  <1>8. ASSUME NEW a \in Created, NEW status \in {"active", "rejected"}, NEW reason,
               DecideProposal(a, status, reason) \/ RemindAgentProvider(a, status, reason)
        PROVE  \A b \in Created : Stood(b)
    <2>1. SetStatus(Settled(a), status, reason).status = status
      BY <1>3 DEF SetStatus, Row
    <2> QED
      BY <1>2, <1>4, <1>8, <2>1 DEF DecideProposal, RemindAgentProvider
  <1>9. ASSUME NEW a \in Created, NEW accept \in BOOLEAN, NEW reason,
               DecideCounter(a, accept, reason)
        PROVE  \A b \in Created : Stood(b)
    <2>1. /\ AcceptCounter(Settled(a), reason).status = "active"
          /\ SetStatus(Settled(a), "rejected", reason).status = "rejected"
      BY <1>3 DEF SetStatus, AcceptCounter, Row
    <2> QED
      BY <1>2, <1>4, <1>9, <2>1 DEF DecideCounter
  <1>10. ASSUME NEW a \in Created, NEW terms, Counter(a, terms)
         PROVE  \A b \in Created : Stood(b)
    <2>1. CounterRow(Settled(a), terms).status = "countered"
      BY <1>3 DEF CounterRow, Row
    <2> QED
      BY <1>2, <1>4, <1>10, <2>1 DEF Counter
  <1> QED
    BY <1>1, <1>5, <1>6, <1>7, <1>8, <1>9, <1>10 DEF Negotiate, Perform

\* A retired row is audited as the remover's, and stays suspended if it was.
LEMMA RetiringStands ==
    ASSUME IInv, NEW a \in Created
    PROVE  /\ Stands(rows[a], audit[a], RetireProvider(rows[a]),
                     IF rows[a].status \notin Terminal THEN "remover" ELSE audit[a])
           /\ Stands(rows[a], audit[a], RetireService(rows[a]),
                     IF rows[a].status \notin Terminal THEN "remover" ELSE audit[a])
  <1>1. rows[a] \in Row /\ rows[a].source = "explicit"
    BY DEF IInv, TypeOK, RowInv
  <1>2. CASE rows[a].status # "suspended"
    BY <1>2 DEF Stands, NotTheWatchdogs
  <1>3. CASE rows[a].status = "suspended"
    <2>1. /\ RetireProvider(rows[a]).status = "suspended"
          /\ RetireProvider(rows[a]).reason = PROVIDER_UNAVAILABLE
          /\ RetireService(rows[a]).status = "suspended"
          /\ RetireService(rows[a]).reason = SERVICE_UNAVAILABLE
      BY <1>1, <1>3 DEF RetireProvider, RetireService, Retire, RetireTarget, Row, Negotiating,
                        Terminal
    <2>2. /\ PROVIDER_UNAVAILABLE # PROVIDER_UNREACHABLE
          /\ SERVICE_UNAVAILABLE # PROVIDER_UNREACHABLE
      BY DEF PROVIDER_UNAVAILABLE, SERVICE_UNAVAILABLE, PROVIDER_UNREACHABLE
    <2>3. rows[a].status \notin Terminal
      BY <1>3 DEF Terminal
    <2> QED
      BY <2>1, <2>2, <2>3 DEF Stands, NotTheWatchdogs
  <1> QED
    BY <1>2, <1>3

\* Removal, restoration and deletion leave a suspended row suspended.
LEMMA WorldStands ==
    ASSUME IInv, World
    PROVE  \A a \in Created : Stood(a)
  <1>1. ASSUME NEW g \in Agents, RemoveProvider(g)
        PROVE  \A a \in Created : Stood(a)
    <2>1. /\ rows' = [a \in Created |-> IF a \in RowsOf(g) THEN RetireProvider(rows[a])
                                                           ELSE rows[a]]
          /\ audit' = [a \in Created |->
                         IF a \in RowsOf(g) /\ rows[a].status \notin Terminal
                           THEN "remover" ELSE audit[a]]
      BY <1>1 DEF RemoveProvider
    <2> QED
      BY <2>1, RetiringStands, KeptStands DEF Stood
  <1>2. ASSUME NEW g \in Agents, RevertRemoveAgents(g)
        PROVE  \A a \in Created : Stood(a)
    <2>1. /\ rows' = [a \in Created |-> IF a \in removed[g].ids
                                          THEN Relink(rows[a], removed[g].link[a], g)
                                          ELSE rows[a]]
          /\ audit' = audit
          /\ rows \in [Created -> Row]
      BY <1>2 DEF RevertRemoveAgents, IInv, TypeOK
    <2>2. \A a \in Created : rows'[a].status = rows[a].status /\ rows'[a].reason = rows[a].reason
      BY <2>1 DEF Relink, Row
    <2> QED
      BY <2>1, <2>2, KeptStands DEF Stood
  <1>3. ASSUME NEW s \in Services, DeleteService(s)
        PROVE  \A a \in Created : Stood(a)
    <2>1. /\ rows' = [a \in Created |-> IF rows[a].service = s THEN RetireService(rows[a])
                                                               ELSE rows[a]]
          /\ audit' = [a \in Created |->
                         IF rows[a].service = s /\ rows[a].status \notin Terminal
                           THEN "remover" ELSE audit[a]]
      BY <1>3 DEF DeleteService
    <2> QED
      BY <2>1, RetiringStands, KeptStands DEF Stood
  <1> QED
    BY <1>1, <1>2, <1>3 DEF World, DeleteAgent, ApplyRemoveAgents

\* The watchdog closes only rows suspended under its own reason.
LEMMA SweepStands ==
    ASSUME IInv, Sweep
    PROVE  \A a \in Created : Stood(a)
  <1>1. PICK heir \in [ToResign -> Ids \ (Created \cup ProposalIds)] :
          /\ \A a \in Created : a \in DOMAIN rows' /\ rows'[a] = SweptRow(a)
          /\ \A a \in Created :
               audit'[a] = IF a \in ToPark \cup ToResign THEN "system" ELSE audit[a]
    BY DEF Sweep
  <1>2. TAKE a \in Created
  <1>3. rows[a] \in Row
    BY DEF IInv, TypeOK
  <1>4. CASE a \in ToPark \cup ToResign
    BY <1>1, <1>4 DEF Stood, Stands, NotTheWatchdogs, ToPark, ToResign, Watched
  <1>5. CASE a \notin ToPark \cup ToResign
    BY <1>1, <1>5, KeptStands DEF Stood, SweptRow
  <1> QED
    BY <1>4, <1>5

\* Every step leaves such a suspension to a party.
LEMMA NextStands ==
    ASSUME IInv, [Next]_vars
    PROVE  \A a \in Created : Stood(a)
  <1>1. CASE Reads
    <2>1. PICK read : /\ rows' = [a \in Created |-> IF a \in read THEN Settled(a) ELSE rows[a]]
                      /\ audit' = audit
      BY <1>1 DEF Reads, SettleOnRead
    <2>2. TAKE a \in Created
    <2>3. rows[a].status # "held" => rows'[a] = rows[a]
      BY <2>1, FetchedRow
    <2> QED
      BY <2>1, <2>3 DEF Stood, Stands, NotTheWatchdogs
  <1>2. CASE rows' = rows /\ audit' = audit
    BY <1>2, KeptStands DEF Stood, Created
  <1>3. Liveness \/ Tick \/ UNCHANGED vars => rows' = rows /\ audit' = audit
    BY DEF Liveness, Heartbeat, FallSilent, LoseProbe, Tick, vars
  <1> QED
    BY <1>1, <1>2, <1>3, HandlersStand, WorldStands, SweepStands DEF Next

\* A suspension by the provider or by a removal stands until a party terminates
\* the agreement, over any number of sweeps, removals and restorations.
THEOREM ProviderSuspensionStandsHolds == Spec => ProviderSuspensionStands
  <1>1. ASSUME IInv, [Next]_vars
        PROVE  \A a \in Created :
                 NotTheWatchdogs(rows[a], audit[a]) =>
                    \/ NotTheWatchdogs(rows'[a], audit'[a])
                    \/ rows'[a].status = "terminated" /\ audit'[a] = "party"
    BY <1>1, NextStands DEF Stood, Stands
  <1> QED
    BY <1>1, Invariance, PTL DEF Spec, ProviderSuspensionStands

----------------------------------------------------------------------------
(***************************************************************************)
(* Agreement implements AgreementLifecycle: every row leads the life of a  *)
(* contract.  What a step may do to one row is stated on rows (Turns) and  *)
(* shown to be a move of the contract the row stands for (TurnIsMove);     *)
(* every handler is shown to turn every row that way, and the rows that    *)
(* are new are offers or the watchdog's successors.                        *)
(***************************************************************************)

\* A row may turn from old to new in one step.
Turns(old, new) ==
    /\ old.status = "proposed" =>
         new.status \in {"proposed", "countered", "active", "rejected", "terminated"}
    /\ old.status = "countered" =>
         new.status \in {"countered", "active", "rejected", "terminated"}
    /\ old.status \in InForce =>
         new.status \in {"active", "held", "suspended", "terminated"}
    /\ old.status = "suspended" => new.status \in {"suspended", "terminated"}
    /\ old.status \in Terminal => new.status = old.status
    /\ new.terms = IF old.status = "countered" /\ new.status = "active"
                     THEN old.countered ELSE old.terms
    /\ new.status = "countered" =>
         IF old.status = "countered" THEN new.countered = old.countered
                                     ELSE new.countered # old.terms
    /\ new.status = "terminated" => new.activated = old.activated

Turned(a) == a \in DOMAIN rows' /\ Turns(rows[a], rows'[a])

----------------------------------------------------------------------------
\* The phase of a row of the table is a phase of a contract, and the contract is
\* one of the abstract specification.
LEMMA ContractOfRow ==
    ASSUME NEW row \in Row
    PROVE  /\ row.status = "proposed"  => PhaseOf(row) = "offered"
           /\ row.status = "countered" => PhaseOf(row) = "countered"
           /\ row.status = "active"    => PhaseOf(row) = "inForce"
           /\ row.status = "held"      => PhaseOf(row) = "paused"
           /\ row.status = "suspended" => PhaseOf(row) = "parked"
           /\ row.status = "rejected"  => PhaseOf(row) = "refused"
           /\ row.status = "terminated" =>
                PhaseOf(row) = IF row.activated THEN "over" ELSE "withdrawn"
           /\ ContractOf(row) \in Lifecycle!Contract
  <1>1. row.status \in Statuses /\ row.terms \in Terms
        /\ row.countered \in Terms \cup {None} /\ row.activated \in BOOLEAN
    BY DEF Row
  <1>2. /\ row.status = "proposed"  => PhaseOf(row) = "offered"
        /\ row.status = "countered" => PhaseOf(row) = "countered"
        /\ row.status = "active"    => PhaseOf(row) = "inForce"
        /\ row.status = "held"      => PhaseOf(row) = "paused"
        /\ row.status = "suspended" => PhaseOf(row) = "parked"
        /\ row.status = "rejected"  => PhaseOf(row) = "refused"
        /\ row.status = "terminated" =>
             PhaseOf(row) = IF row.activated THEN "over" ELSE "withdrawn"
    BY DEF PhaseOf
  <1>3. PhaseOf(row) \in Lifecycle!Phases
    BY <1>1, <1>2 DEF Statuses, Lifecycle!Phases
  <1> QED
    BY <1>1, <1>2, <1>3 DEF ContractOf, Lifecycle!Contract

\* A row that turns is a contract that moves.
LEMMA TurnIsMove ==
    ASSUME NEW old \in Row, NEW new \in Row, NEW n, RowInv(old, n), Turns(old, new)
    PROVE  Lifecycle!Moves(ContractOf(old), ContractOf(new))
  <1> DEFINE c == ContractOf(old)
             d == ContractOf(new)
  <1>1. /\ old.status \in Statuses
        /\ c.phase = PhaseOf(old) /\ c.terms = old.terms
        /\ d = [phase |-> PhaseOf(new), terms |-> new.terms,
                offer |-> IF new.status = "countered" THEN new.countered ELSE None]
        /\ c = [phase |-> PhaseOf(old), terms |-> old.terms,
                offer |-> IF old.status = "countered" THEN old.countered ELSE None]
    BY DEF ContractOf, Row
  <1> HIDE DEF c, d
  <1>2. CASE old.status = "proposed"
    <2>1. ~old.activated /\ c.phase = "offered" /\ new.terms = old.terms
      BY <1>1, <1>2, ContractOfRow DEF RowInv, Negotiating, Turns
    <2>2. CASE new.status = "proposed"
      BY <1>1, <1>2, <2>1, <2>2, ContractOfRow DEF Lifecycle!Moves, c, d
    <2>3. CASE new.status = "countered"
      BY <1>1, <1>2, <2>1, <2>3, ContractOfRow
      DEF Turns, Lifecycle!Moves, Lifecycle!Countered, c, d
    <2>4. CASE new.status = "active"
      BY <1>1, <2>1, <2>4, ContractOfRow
      DEF Lifecycle!Moves, Lifecycle!Concluded, Lifecycle!At, c, d
    <2>5. CASE new.status \in {"rejected", "terminated"}
      BY <1>1, <2>1, <2>5, ContractOfRow
      DEF Turns, Lifecycle!Moves, Lifecycle!NotConcluded, Lifecycle!At, c, d
    <2> QED
      BY <1>2, <2>2, <2>3, <2>4, <2>5 DEF Turns
  <1>3. CASE old.status = "countered"
    <2>1. ~old.activated /\ c.phase = "countered" /\ c.offer = old.countered
      BY <1>1, <1>3, ContractOfRow DEF RowInv, Negotiating
    <2>2. CASE new.status = "countered"
      BY <1>1, <1>3, <2>1, <2>2, ContractOfRow DEF Turns, Lifecycle!Moves, c, d
    <2>3. CASE new.status = "active"
      BY <1>1, <1>3, <2>1, <2>3, ContractOfRow
      DEF Turns, Lifecycle!Moves, Lifecycle!Concluded, Lifecycle!At, c, d
    <2>4. CASE new.status \in {"rejected", "terminated"}
      BY <1>1, <1>3, <2>1, <2>4, ContractOfRow
      DEF Turns, Lifecycle!Moves, Lifecycle!NotConcluded, Lifecycle!At, c, d
    <2> QED
      BY <1>3, <2>2, <2>3, <2>4 DEF Turns
  <1>4. CASE old.status \in InForce
    <2>1. /\ old.activated /\ c.phase \in {"inForce", "paused"}
          /\ new.terms = old.terms
          /\ new.status \in {"active", "held", "suspended", "terminated"}
      BY <1>1, <1>4, ContractOfRow DEF RowInv, InForce, Turns
    <2> QED
      BY <1>1, <2>1, ContractOfRow
      DEF Turns, Lifecycle!Moves, Lifecycle!Performed, Lifecycle!At, c, d
  <1>5. CASE old.status = "suspended"
    <2>1. /\ old.activated /\ c.phase = "parked" /\ new.terms = old.terms
      BY <1>1, <1>5, ContractOfRow DEF RowInv, Turns
    <2>2. CASE new.status = "suspended"
      BY <1>1, <1>5, <2>1, <2>2, ContractOfRow DEF Lifecycle!Moves, c, d
    <2>3. CASE new.status = "terminated"
      BY <1>1, <2>1, <2>3, ContractOfRow
      DEF Turns, Lifecycle!Moves, Lifecycle!Ended, Lifecycle!At, c, d
    <2> QED
      BY <1>5, <2>2, <2>3 DEF Turns
  <1>6. CASE old.status \in Terminal
    BY <1>1, <1>6, ContractOfRow DEF Turns, Terminal, Lifecycle!Moves, c, d
  <1> QED
    BY <1>1, <1>2, <1>3, <1>4, <1>5, <1>6 DEF Statuses, InForce, Terminal, c, d

----------------------------------------------------------------------------
\* A row that a step leaves alone, or changes only where Turns does not look.
LEMMA KeptTurns ==
    ASSUME NEW old, NEW new, old.status \in Statuses,
           new.status = old.status, new.terms = old.terms,
           new.countered = old.countered, new.activated = old.activated
    PROVE  Turns(old, new)
  BY DEF Turns, Statuses, InForce, Terminal

\* Ending an expired hold (settleExpiredHold).
LEMMA SettlingTurns ==
    ASSUME IInv, NEW a \in Created
    PROVE  Turns(rows[a], Settled(a))
  <1>1. rows[a].status \in Statuses
    BY DEF IInv, TypeOK, Row
  <1>2. CASE rows[a].status = "held"
    BY <1>2, FetchedRow DEF Turns, InForce, Terminal
  <1>3. CASE rows[a].status # "held"
    BY <1>1, <1>3, FetchedRow, KeptTurns
  <1> QED
    BY <1>2, <1>3

\* The retire map: a negotiation is refused, a contract parked.
LEMMA RetiringTurns ==
    ASSUME IInv, NEW a \in Created
    PROVE  /\ Turns(rows[a], RetireProvider(rows[a]))
           /\ Turns(rows[a], RetireService(rows[a]))
  <1>1. rows[a] \in Row /\ rows[a].source = "explicit"
    BY DEF IInv, TypeOK, RowInv
  <1> QED
    BY <1>1 DEF Turns, RetireProvider, RetireService, Retire, RetireTarget, Row,
                Statuses, Negotiating, InForce, Terminal

\* Relinking keeps what Turns looks at (relinkProviderAgreement).
LEMMA RelinkingTurns ==
    ASSUME IInv, NEW a \in Created, NEW s, NEW g
    PROVE  Turns(rows[a], Relink(rows[a], s, g))
  <1>1. rows[a] \in Row
    BY DEF IInv, TypeOK
  <1>2. /\ Relink(rows[a], s, g).status = rows[a].status
        /\ Relink(rows[a], s, g).terms = rows[a].terms
        /\ Relink(rows[a], s, g).countered = rows[a].countered
        /\ Relink(rows[a], s, g).activated = rows[a].activated
    BY <1>1 DEF Relink, Row
  <1>3. rows[a].status \in Statuses
    BY <1>1 DEF Row
  <1> HIDE DEF IInv
  <1> QED
    BY <1>2, <1>3, KeptTurns

\* A write of one row turns every row if it turns that one.
LEMMA WriteTurns ==
    ASSUME IInv, NEW a \in Created, NEW row, NEW actor,
           Write(a, row, actor), Turns(rows[a], row)
    PROVE  Created' = Created /\ \A b \in Created : Turned(b)
  <1>1. /\ rows' = [rows EXCEPT ![a] = row]
        /\ rows \in [Created -> Row] /\ Created = DOMAIN rows
    BY DEF Write, IInv, TypeOK, Created
  <1>2. Created' = Created
    BY <1>1 DEF Created
  <1>3. ASSUME NEW b \in Created
        PROVE  Turned(b)
    <2>1. b \in DOMAIN rows' /\ rows[b].status \in Statuses
      BY <1>1 DEF Row
    <2>2. CASE b = a
      BY <1>1, <2>1, <2>2 DEF Turned
    <2>3. CASE b # a
      BY <1>1, <2>1, <2>3, KeptTurns DEF Turned
    <2> QED
      BY <2>2, <2>3
  <1> QED
    BY <1>2, <1>3

\* The rows of a step that adds none.
AllTurn == Created' = Created /\ \A b \in Created : Turned(b)

\* The decisions and counters of the negotiation.
LEMMA NegotiateTurns ==
    ASSUME IInv, Negotiate
    PROVE  \/ AllTurn
           \/ \E a \in Ids, s \in Services, terms \in Terms : Propose(a, s, terms)
  <1>1. ASSUME NEW a \in Created, NEW status \in {"active", "rejected"},
               NEW reason, NEW actor, Settled(a).status = "proposed",
               Write(a, SetStatus(Settled(a), status, reason), actor)
        PROVE  AllTurn
    <2>1. Settled(a) = rows[a] /\ rows[a] \in Row
      BY <1>1, FetchedRow DEF InForce
    <2>2. Turns(rows[a], SetStatus(Settled(a), status, reason))
      BY <1>1, <2>1 DEF Turns, SetStatus, Row, InForce, Terminal
    <2> QED
      BY <1>1, <2>2, WriteTurns DEF AllTurn
  <1>2. ASSUME NEW a \in Created, NEW accept \in BOOLEAN, NEW reason,
               DecideCounter(a, accept, reason)
        PROVE  AllTurn
    <2> DEFINE row == IF accept THEN AcceptCounter(Settled(a), reason)
                                ELSE SetStatus(Settled(a), "rejected", reason)
    <2>1. Settled(a).status = "countered" /\ Write(a, row, "consumer")
      BY <1>2 DEF DecideCounter
    <2>2. Settled(a) = rows[a] /\ rows[a] \in Row
      BY <2>1, FetchedRow DEF InForce
    <2>3. Turns(rows[a], row)
      BY <2>1, <2>2 DEF Turns, SetStatus, AcceptCounter, Row, InForce, Terminal
    <2> QED
      BY <2>1, <2>3, WriteTurns DEF AllTurn
  <1>3. ASSUME NEW a \in Created, NEW terms \in Terms, Counter(a, terms)
        PROVE  AllTurn
    <2>1. /\ Settled(a).status = "proposed" /\ terms # Settled(a).terms
          /\ Write(a, CounterRow(Settled(a), terms), "provider")
      BY <1>3 DEF Counter
    <2>2. Settled(a) = rows[a] /\ rows[a] \in Row
      BY <2>1, FetchedRow DEF InForce
    <2>3. Turns(rows[a], CounterRow(Settled(a), terms))
      BY <2>1, <2>2 DEF Turns, CounterRow, Row, InForce, Terminal
    <2> QED
      BY <2>1, <2>3, WriteTurns DEF AllTurn
  <1> QED
    BY <1>1, <1>2, <1>3 DEF Negotiate, DecideProposal, RemindAgentProvider

\* The handlers of the performance: the fetch settles an expired hold, then the
\* row is set.
LEMMA PerformTurns ==
    ASSUME IInv, Perform
    PROVE  AllTurn
  <1>1. ASSUME NEW a \in Created, NEW row, NEW actor, Write(a, row, actor),
               row.terms = Settled(a).terms,
               \/ /\ Settled(a).status \notin Terminal
                  /\ row.status = "terminated" /\ row.activated = Settled(a).activated
               \/ /\ Settled(a).status \in InForce
                  /\ row.status \in {"active", "held", "suspended"}
        PROVE  AllTurn
    <2>1. rows[a] \in Row /\ Settled(a) \in Row /\ RowInv(rows[a], now)
      BY FetchedRow DEF IInv
    <2>2. /\ Settled(a).status \in InForce => rows[a].status \in InForce
          /\ Settled(a).status \in Terminal <=> rows[a].status \in Terminal
          /\ Settled(a).terms = rows[a].terms
          /\ rows[a].status \in InForce => rows[a].activated /\ Settled(a).activated
          /\ rows[a].status \notin InForce => Settled(a) = rows[a]
      BY <2>1, FetchedRow DEF InForce, Terminal, RowInv
    <2>3. rows[a].activated = Settled(a).activated
      BY <2>1, <2>2 DEF Row
    <2>4. Turns(rows[a], row)
      BY <1>1, <2>1, <2>2, <2>3 DEF Turns, Row, Statuses, InForce, Terminal
    <2> QED
      BY <1>1, <2>4, WriteTurns DEF AllTurn
  <1>2. ASSUME NEW a \in Created, NEW reason, Suspend(a, reason) \/ Terminate(a, reason)
        PROVE  AllTurn
    <2>1. Settled(a) \in Row
      BY FetchedRow
    <2>2. ASSUME Terminate(a, reason)
          PROVE  AllTurn
      <3> DEFINE row == SetStatus(Settled(a), "terminated", reason)
      <3>1. /\ row.status = "terminated" /\ row.terms = Settled(a).terms
            /\ row.activated = Settled(a).activated
        BY <2>1 DEF SetStatus, Row
      <3>2. Write(a, row, "party") /\ Settled(a).status \notin Terminal
        BY <2>2 DEF Terminate
      <3> HIDE DEF row
      <3> QED
        BY <1>1, <3>1, <3>2
    <2>3. ASSUME Suspend(a, reason)
          PROVE  AllTurn
      <3> DEFINE row == SetStatus(Settled(a), "suspended", reason)
      <3>1. row.status = "suspended" /\ row.terms = Settled(a).terms
        BY <2>1 DEF SetStatus, Row
      <3>2. Write(a, row, "provider") /\ Settled(a).status \in InForce
        BY <2>3 DEF Suspend, InForce
      <3> HIDE DEF row
      <3> QED
        BY <1>1, <3>1, <3>2
    <2> QED
      BY <1>2, <2>2, <2>3
  <1>3. ASSUME NEW a \in Created, NEW d, Hold(a, d) \/ ReleaseHold(a)
        PROVE  AllTurn
    <2>1. Settled(a) \in Row
      BY FetchedRow
    <2> QED
      BY <1>1, <1>3, <2>1 DEF Hold, ReleaseHold, HoldRow, Resume, Row, InForce
  <1> QED
    BY <1>2, <1>3 DEF Perform

\* Removal and restoration of a provider agent, and the deletion of a service.
LEMMA WorldTurns ==
    ASSUME IInv, World
    PROVE  AllTurn
  <1>0. \A a \in Created : rows[a].status \in Statuses
    BY DEF IInv, TypeOK, Row
  <1>1. ASSUME NEW g \in Agents, RemoveProvider(g)
        PROVE  AllTurn
    <2>1. rows' = [a \in Created |-> IF a \in RowsOf(g) THEN RetireProvider(rows[a])
                                                        ELSE rows[a]]
      BY <1>1 DEF RemoveProvider
    <2>2. \A a \in Created : Turns(rows[a], rows'[a])
      BY <1>0, <2>1, RetiringTurns, KeptTurns
    <2> QED
      BY <2>1, <2>2 DEF AllTurn, Turned, Created
  <1>2. ASSUME NEW g \in Agents, RevertRemoveAgents(g)
        PROVE  AllTurn
    <2>1. rows' = [a \in Created |-> IF a \in removed[g].ids
                                       THEN Relink(rows[a], removed[g].link[a], g)
                                       ELSE rows[a]]
      BY <1>2 DEF RevertRemoveAgents
    <2>2. \A a \in Created : Turns(rows[a], rows'[a])
      BY <1>0, <2>1, RelinkingTurns, KeptTurns
    <2> QED
      BY <2>1, <2>2 DEF AllTurn, Turned, Created
  <1>3. ASSUME NEW s \in Services, DeleteService(s)
        PROVE  AllTurn
    <2>1. rows' = [a \in Created |-> IF rows[a].service = s THEN RetireService(rows[a])
                                                            ELSE rows[a]]
      BY <1>3 DEF DeleteService
    <2>2. \A a \in Created : Turns(rows[a], rows'[a])
      BY <1>0, <2>1, RetiringTurns, KeptTurns
    <2> QED
      BY <2>1, <2>2 DEF AllTurn, Turned, Created
  <1> QED
    BY <1>1, <1>2, <1>3 DEF World, DeleteAgent, ApplyRemoveAgents

\* The watchdog parks rows that were active and closes rows that were suspended.
LEMMA SweptTurns ==
    ASSUME IInv, NEW a \in Created
    PROVE  /\ Turns(rows[a], SweptRow(a))
           /\ a \in ToResign => /\ rows[a].status = "suspended" /\ rows[a].activated
                                /\ SweptRow(a).status = "terminated"
                                /\ SweptRow(a).activated
                                /\ SweptRow(a).terms = rows[a].terms
  <1>1. rows[a] \in Row /\ RowInv(rows[a], now)
    BY DEF IInv, TypeOK
  <1>2. CASE a \in ToPark
    <2>1. rows[a].status = "active" /\ a \notin ToResign
      BY <1>2 DEF ToPark, ToResign
    <2>2. SweptRow(a) = SetStatus(rows[a], "suspended", PROVIDER_UNREACHABLE)
      BY <1>2 DEF SweptRow
    <2> QED
      BY <1>1, <2>1, <2>2 DEF SetStatus, Turns, Row, InForce, Terminal
  <1>3. CASE a \in ToResign
    <2>1. rows[a].status = "suspended" /\ a \notin ToPark
      BY <1>3 DEF ToPark, ToResign
    <2>2. SweptRow(a) = SetStatus(rows[a], "terminated", PROVIDER_RECOVERED)
      BY <1>3, <2>1 DEF SweptRow
    <2>3. rows[a].activated
      BY <1>1, <2>1 DEF RowInv
    <2>4. /\ SweptRow(a).status = "terminated" /\ SweptRow(a).terms = rows[a].terms
          /\ SweptRow(a).activated = rows[a].activated
      BY <1>1, <2>2 DEF SetStatus, Row
    <2>5. Turns(rows[a], SweptRow(a))
      BY <2>1, <2>4 DEF Turns, InForce, Terminal
    <2> QED
      BY <2>1, <2>3, <2>4, <2>5
  <1>4. CASE a \notin ToPark \cup ToResign
    BY <1>1, <1>4, KeptTurns DEF SweptRow, Row
  <1> QED
    BY <1>2, <1>3, <1>4

\* The phase of a contract that stands as it is: what the place of a new row is read by.
LEMMA OfferPhase ==
    ASSUME NEW contract, NEW phase, NEW terms, contract = Lifecycle!At(phase, terms)
    PROVE  contract.phase = phase
  BY DEF Lifecycle!At

----------------------------------------------------------------------------
\* The table as the abstract specification sees it after a step that keeps every
\* row: the contracts keep their types and each of them moves.
LEMMA TableMoves ==
    ASSUME IInv, IInv', Created \subseteq Created', \A a \in Created : Turned(a)
    PROVE  /\ DOMAIN Contracts = Created /\ DOMAIN Contracts' = Created'
           /\ \A a \in Created : Contracts[a] = ContractOf(rows[a])
           /\ \A a \in Created' : Contracts'[a] = ContractOf(rows'[a])
           /\ Lifecycle!Born = Created' \ Created
           /\ Contracts' \in [DOMAIN Contracts \cup Lifecycle!Born -> Lifecycle!Contract]
           /\ \A a \in Created : Lifecycle!Moves(Contracts[a], Contracts'[a])
  <1>1. /\ DOMAIN Contracts = Created /\ DOMAIN Contracts' = Created'
        /\ \A a \in Created : Contracts[a] = ContractOf(rows[a])
        /\ \A a \in Created' : Contracts'[a] = ContractOf(rows'[a])
    BY DEF Contracts, ContractOf, PhaseOf
  <1>2. Lifecycle!Born = Created' \ Created
    BY <1>1 DEF Lifecycle!Born
  <1>3. \A a \in Created : rows[a] \in Row /\ RowInv(rows[a], now)
    BY DEF IInv, TypeOK
  <1>4. \A a \in Created' : rows'[a] \in Row
    BY DEF IInv, TypeOK
  <1>5. \A a \in Created : Lifecycle!Moves(ContractOf(rows[a]), ContractOf(rows'[a]))
    <2> SUFFICES ASSUME NEW a \in Created
                 PROVE  Lifecycle!Moves(ContractOf(rows[a]), ContractOf(rows'[a]))
      OBVIOUS
    <2>1. rows[a] \in Row /\ rows'[a] \in Row /\ RowInv(rows[a], now)
      BY <1>3, <1>4
    <2>2. Turns(rows[a], rows'[a])
      BY DEF Turned
    <2> QED
      BY <2>1, <2>2, TurnIsMove
  <1>6. \A a \in Created' : Contracts'[a] \in Lifecycle!Contract
    BY <1>1, <1>4, ContractOfRow
  <1>7. Contracts' = [a \in Created' |-> Contracts'[a]]
    BY <1>1 DEF Contracts
  <1>8. Contracts' \in [Created' -> Lifecycle!Contract]
    BY <1>6, <1>7
  <1> QED
    BY <1>1, <1>2, <1>5, <1>8

\* A step in which every new row is an offer is a step of the abstract
\* specification.
LEMMA OfferingSimulates ==
    ASSUME IInv, IInv', Created \subseteq Created', \A a \in Created : Turned(a),
           \A b \in Created' \ Created : rows'[b].status = "proposed"
    PROVE  Lifecycle!Next
  <1>1. \A b \in Lifecycle!Born : Contracts'[b] = Lifecycle!At("offered", Contracts'[b].terms)
    <2> SUFFICES ASSUME NEW b \in Created' \ Created
                 PROVE  Contracts'[b] = Lifecycle!At("offered", Contracts'[b].terms)
      BY TableMoves
    <2>1. /\ Contracts'[b] = ContractOf(rows'[b]) /\ rows'[b] \in Row
          /\ rows'[b].status = "proposed"
      BY TableMoves DEF IInv, TypeOK
    <2>2. PhaseOf(rows'[b]) = "offered"
      BY <2>1, ContractOfRow
    <2> QED
      BY <2>1, <2>2 DEF ContractOf, Lifecycle!At
  <1>2. Lifecycle!BornInForce = {}
    <2>1. \A b \in Lifecycle!Born : Contracts'[b].phase = "offered"
      BY <1>1, OfferPhase
    <2> QED
      BY <2>1 DEF Lifecycle!BornInForce
  <1>3. \E place \in Lifecycle!Injection(Lifecycle!BornInForce, DOMAIN Contracts) :
           \A c \in Lifecycle!BornInForce : Lifecycle!Renews(c, place[c])
    <2> DEFINE none == [c \in {} |-> c]
    <2>1. none \in Lifecycle!Injection({}, DOMAIN Contracts)
      BY DEF Lifecycle!Injection, Lifecycle!IsInjective
    <2> QED
      BY <1>2, <2>1
  <1> QED
    BY <1>1, <1>3, TableMoves DEF Lifecycle!Next

\* A sweep is a step of the abstract specification: the successors are the
\* contracts born in force, each in the place of the row it closes.
LEMMA SweepSimulates ==
    ASSUME IInv, IInv', Sweep
    PROVE  Lifecycle!Next
  <1>1. PICK heir \in [ToResign -> Ids \ (Created \cup ProposalIds)] :
          /\ \A a, b \in ToResign : heir[a] = heir[b] => a = b
          /\ LET heirs == {heir[a] : a \in ToResign}
                 Predecessor(b) == CHOOSE a \in ToResign : heir[a] = b
             IN  rows' = [b \in Created \cup heirs |->
                            IF b \in heirs THEN Successor(Predecessor(b))
                                           ELSE SweptRow(b)]
    BY DEF Sweep
  <1> DEFINE heirs == {heir[a] : a \in ToResign}
             Predecessor(b) == CHOOSE a \in ToResign : heir[a] = b
             place == [b \in heirs |-> Predecessor(b)]
  <1>2. rows' = [b \in Created \cup heirs |->
                   IF b \in heirs THEN Successor(Predecessor(b)) ELSE SweptRow(b)]
    BY <1>1
  <1>3. \A b \in heirs : Predecessor(b) \in ToResign /\ heir[Predecessor(b)] = b
    OBVIOUS
  <1>4. ToResign \subseteq Created /\ heirs \cap Created = {}
    BY <1>1 DEF ToResign
  <1>5. /\ DOMAIN place = heirs /\ \A b \in heirs : place[b] = Predecessor(b)
        /\ place \in [heirs -> ToResign]
    BY <1>3
  <1> HIDE DEF heirs, Predecessor, place
  <1>6. /\ Created' = Created \cup heirs
        /\ \A b \in heirs : rows'[b] = Successor(place[b])
        /\ \A b \in Created : rows'[b] = SweptRow(b)
    BY <1>2, <1>4, <1>5 DEF Created
  <1>7. \A a \in Created : Turned(a)
    BY <1>6, SweptTurns DEF Turned, Created
  <1>8. /\ Lifecycle!Born = heirs /\ DOMAIN Contracts = Created
        /\ \A a \in Created : Contracts[a] = ContractOf(rows[a])
        /\ \A a \in Created' : Contracts'[a] = ContractOf(rows'[a])
    BY <1>4, <1>6, <1>7, TableMoves
  <1>9. \A b \in heirs : /\ Contracts'[b] = Lifecycle!At("inForce", rows[place[b]].terms)
                         /\ Lifecycle!Renews(b, place[b])
    <2> SUFFICES ASSUME NEW b \in heirs
                 PROVE  /\ Contracts'[b] = Lifecycle!At("inForce", rows[place[b]].terms)
                        /\ Lifecycle!Renews(b, place[b])
      OBVIOUS
    <2> DEFINE a == place[b]
    <2>1. a \in ToResign /\ a \in Created
      BY <1>4, <1>5
    <2>2. /\ Contracts'[b] = ContractOf(Successor(a)) /\ Contracts'[a] = ContractOf(SweptRow(a))
          /\ Contracts[a] = ContractOf(rows[a])
      BY <1>6, <1>8, <2>1
    <2> HIDE DEF a
    <2>3. /\ Successor(a) \in Row /\ Successor(a).terms = rows[a].terms
          /\ Successor(a).status = "active"
      BY <2>1, SuccessorOK DEF Successor, CreateAgreement
    <2>4. /\ rows[a] \in Row /\ rows[a].status = "suspended"
          /\ SweptRow(a) \in Row /\ SweptRow(a).status = "terminated"
          /\ SweptRow(a).activated /\ SweptRow(a).terms = rows[a].terms
      BY <2>1, SweptTurns, SweptRowOK DEF IInv, TypeOK
    <2>5. Contracts'[b] = Lifecycle!At("inForce", rows[a].terms)
      BY <2>2, <2>3, ContractOfRow DEF ContractOf, Lifecycle!At
    <2>6. Contracts[a].phase = "parked" /\ Contracts[a].terms = rows[a].terms
      BY <2>2, <2>4, ContractOfRow DEF ContractOf
    <2>7. Contracts'[a] = Lifecycle!At("over", rows[a].terms)
      BY <2>2, <2>4, ContractOfRow DEF ContractOf, Lifecycle!At
    <2>8. Lifecycle!Renews(b, a)
      BY <2>5, <2>6, <2>7 DEF Lifecycle!Renews, Lifecycle!Ended
    <2> QED
      BY <2>5, <2>8 DEF a
  <1>10. Lifecycle!BornInForce = heirs
    <2>1. \A b \in heirs : Contracts'[b].phase # "offered"
      BY <1>9, OfferPhase
    <2> QED
      BY <1>8, <2>1 DEF Lifecycle!BornInForce
  <1>11. place \in Lifecycle!Injection(heirs, Created)
    <2>1. \A b, c \in heirs : place[b] = place[c] => b = c
      BY <1>3, <1>5
    <2> QED
      BY <1>4, <1>5, <2>1 DEF Lifecycle!Injection, Lifecycle!IsInjective
  <1>12. \E p \in Lifecycle!Injection(Lifecycle!BornInForce, DOMAIN Contracts) :
            \A c \in Lifecycle!BornInForce : Lifecycle!Renews(c, p[c])
    BY <1>8, <1>9, <1>10, <1>11
  <1>13. /\ Contracts' \in [DOMAIN Contracts \cup Lifecycle!Born -> Lifecycle!Contract]
         /\ \A c \in DOMAIN Contracts : Lifecycle!Moves(Contracts[c], Contracts'[c])
    BY <1>6, <1>7, TableMoves
  <1> QED
    BY <1>8, <1>10, <1>12, <1>13 DEF Lifecycle!Next

\* Every step of Agreement is a step of the abstract specification.
LEMMA NextSimulates ==
    ASSUME IInv, IInv', [Next]_vars
    PROVE  Lifecycle!Next
  <1>1. CASE Sweep
    BY <1>1, SweepSimulates
  <1>2. CASE AllTurn
    BY <1>2, OfferingSimulates DEF AllTurn
  <1>3. ASSUME NEW a \in Ids, NEW s \in Services, NEW terms \in Terms,
               Propose(a, s, terms)
        PROVE  Lifecycle!Next
    <2>1. /\ rows' = [b \in Created \cup {a} |->
                        IF b = a THEN CreateAgreement(s, ProviderOf[s], terms, "explicit",
                                                      "proposed", None)
                                 ELSE rows[b]]
          /\ a \notin Created
      BY <1>3 DEF Propose
    <2>2. /\ Created' = Created \cup {a} /\ rows'[a].status = "proposed"
          /\ \A b \in Created : b \in DOMAIN rows' /\ rows'[b] = rows[b]
      BY <2>1 DEF Created, CreateAgreement
    <2>3. \A b \in Created : rows[b].status \in Statuses
      BY DEF IInv, TypeOK, Row
    <2>4. \A b \in Created : Turned(b)
      BY <2>2, <2>3, KeptTurns DEF Turned
    <2> QED
      BY <2>2, <2>4, OfferingSimulates
  <1>4. CASE Reads
    <2>1. PICK read : rows' = [a \in Created |-> IF a \in read THEN Settled(a) ELSE rows[a]]
      BY <1>4 DEF Reads, SettleOnRead
    <2>2. \A a \in Created : rows[a].status \in Statuses
      BY DEF IInv, TypeOK, Row
    <2>3. \A a \in Created : Turned(a)
      BY <2>1, <2>2, SettlingTurns, KeptTurns DEF Turned
    <2>4. AllTurn
      BY <2>1, <2>3 DEF AllTurn, Created
    <2> QED
      BY <1>2, <2>4
  <1>5. CASE rows' = rows
    <2>1. \A a \in Created : rows[a].status \in Statuses
      BY DEF IInv, TypeOK, Row
    <2>2. AllTurn
      BY <1>5, <2>1, KeptTurns DEF AllTurn, Turned, Created
    <2> QED
      BY <1>2, <2>2
  <1>6. Liveness \/ Tick \/ UNCHANGED vars => rows' = rows
    BY DEF Liveness, Heartbeat, FallSilent, LoseProbe, Tick, vars
  <1> QED
    BY <1>1, <1>2, <1>3, <1>4, <1>5, <1>6, NegotiateTurns, PerformTurns, WorldTurns DEF Next

\* Whatever the parties, the removals and reverts, the reads and the watchdog do,
\* every row leads the life of a contract (AgreementLifecycle): what is over or
\* was never concluded stays so, terms in force are those last offered, and a
\* contract is renewed one for one.
THEOREM ImplementsLifecycle == Spec => LivesAsContract
  <1>1. Init => Lifecycle!Init
    BY DEF Init, Lifecycle!Init, Contracts, Created
  <1>2. IInv /\ IInv' /\ [Next]_vars => [Lifecycle!Next]_Contracts
    BY NextSimulates
  <1>3. LivesAsContract <=> Lifecycle!Init /\ [][Lifecycle!Next]_Contracts
    BY DEF LivesAsContract, Lifecycle!Spec
  <1> QED
    BY <1>1, <1>2, <1>3, Invariance, PTL DEF Spec
=============================================================================
