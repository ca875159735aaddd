------------------------- MODULE CollaborationProofs -------------------------
(***************************************************************************)
(* Who executes consented, what is promised downstream is backed, what is  *)
(* metered is final, and what ended leaves no active row: for every set of *)
(* roots and agents, every ranking, batch size and cap.                    *)
(***************************************************************************)
EXTENDS Collaboration, TLAPS

\* Before a root starts nobody was asked.
Unstarted == \A c \in Roots : hs[c].phase = "idle" =>
    hs[c].accepted = {} /\ \A p \in Agents : resp[c][p] = "none"

\* Who is counted, or executes, accepted and knows of it.
Consent == \A c \in Roots :
    /\ \A p \in hs[c].accepted \cup hs[c].team : resp[c][p] = "accepted" /\ c \in active[p]
    /\ hs[c].phase \in {"idle", "handshake"} => hs[c].team = {}
    /\ hs[c].phase \in {"executing", "completed"} => hs[c].team # {}

\* Nobody is asked twice: whoever was asked is out of the ranking.
Asked == \A c \in Roots, p \in Agents :
    resp[c][p] # "none" => p \in hs[c].batch \/ p \notin hs[c].ranked

\* A delegation is opened once, on the way to an answer, and secured by an acceptance.
Covered == \A c \in Roots, p \in Agents :
    LET d == Child(c, p) IN
    /\ hs[d].phase # "idle" => resp[c][p] \in {"delegating", "accepted", "rejected"}
    /\ hs[d].phase = "secured" \/ (resp[c][p] = "accepted" /\ hs[d].phase # "idle")
         => \E t \in hs[d].batch : resp[d][t] = "accepted"

Talk == Unstarted /\ Consent /\ Asked /\ Covered

\* A metered row is final; a root that did not complete metered nothing.
Metered == \A c \in Collabs, p \in Agents : usage[c][p] > 0 =>
    /\ usage[c][p] = 1 /\ rows[c][p] # None
    /\ rows[c][p].status = "terminated" /\ rows[c][p].reason = AC_COMPLETED
Unbilled == \A c \in Roots : hs[c].phase # "completed" =>
    \A d \in {c} \cup Children(c), p \in Agents : usage[d][p] = 0

\* What ended is forgotten by the bridge: it takes no new rows.
Closed == \A c \in Roots : hs[c].phase \in Ended => c \notin remembered

Books == Metered /\ Unbilled /\ Closed

IInv == TypeOK /\ Talk /\ Books

----------------------------------------------------------------------------
(* Names *)

LEMMA ChildFacts ==
    /\ Roots \subseteq Collabs
    /\ \A c \in Roots, p \in Agents : Child(c, p) \in Collabs /\ Child(c, p) \notin Roots
    /\ \A c, d \in Roots, p, q \in Agents : Child(c, p) = Child(d, q) => c = d /\ p = q
    /\ \A d \in Collabs \ Roots : \E c \in Roots, p \in Agents : d = Child(c, p)
  <1>1. Roots \subseteq Collabs
    BY CollaborationAssumption
  <1>2. \A c \in Roots, p \in Agents : Child(c, p) \in Collabs /\ Child(c, p) \notin Roots
    <2> TAKE c \in Roots, p \in Agents
    <2>1. Child(c, p) \in Children(c)
      BY DEF Children
    <2> QED BY <2>1, CollaborationAssumption
  <1>3. \A c, d \in Roots, p, q \in Agents : Child(c, p) = Child(d, q) => c = d /\ p = q
    BY DEF Child
  <1>4. \A d \in Collabs \ Roots : \E c \in Roots, p \in Agents : d = Child(c, p)
    BY CollaborationAssumption DEF Children
  <1> QED BY <1>1, <1>2, <1>3, <1>4

LEMMA StartMeans ==
    ASSUME TypeOK, NEW c \in Roots, NEW accepted \in SUBSET Agents, accepted # {},
           NEW declined \in SUBSET Agents, Start(c, accepted, declined)
    PROVE  /\ hs' \in [Collabs -> Handshake]
           /\ \A d \in Collabs : d # c => hs'[d] = hs[d]
           /\ hs'[c].phase = "executing" /\ hs'[c].accepted = accepted
           /\ hs'[c].team # {} /\ hs'[c].team \subseteq accepted
           /\ hs'[c].batch = hs[c].batch /\ hs'[c].ranked = hs[c].ranked
  <1>1. c \in Collabs /\ hs \in [Collabs -> Handshake] /\ hs[c] \in Handshake
    BY ChildFacts DEF TypeOK
  <1> DEFINE net == Cardinality(accepted) > 1 /\ hs[c].ranked # {}
  <1>2. PICK team \in IF net THEN {{w} : w \in accepted} ELSE {accepted} :
          hs' = [hs EXCEPT ![c].phase = "executing", ![c].accepted = accepted,
                           ![c].declined = declined, ![c].team = team]
    BY DEF Start
  <1>4. team \in SUBSET accepted /\ team # {}
    <2>1. CASE net
      BY <1>2, <2>1
    <2>2. CASE ~net
      BY <1>2, <2>2
    <2> QED BY <2>1, <2>2
  <1>3. "executing" \in Phases
    BY DEF Phases
  <1> QED BY <1>1, <1>2, <1>3, <1>4 DEF Handshake

----------------------------------------------------------------------------
(* What a step may do to the talk about one root *)

\* An answer changes only between being asked and having accepted.
Leg(c, p) == \/ resp'[c][p] = resp[c][p]
             \/ resp[c][p] \notin {"none", "accepted"} /\ resp'[c][p] # "none"
Joined(c) == {p \in Agents : resp'[c][p] = "accepted" /\ c \in active'[p]}

GoesOn(c) ==
    /\ \A p \in Agents : Leg(c, p)
    /\ hs'[c].batch = hs[c].batch /\ hs'[c].ranked = hs[c].ranked
    /\ hs'[c].accepted \subseteq hs[c].accepted \cup Joined(c)
    /\ hs[c].phase = "idle" <=> hs'[c].phase = "idle"
    /\ hs[c].phase = "idle" => hs'[c].accepted = hs[c].accepted
    /\ \/ hs'[c].team = hs[c].team /\ hs'[c].phase = hs[c].phase
       \/ hs'[c].team = hs[c].team /\ hs[c].phase = "handshake" /\ hs'[c].phase = "cancelled"
       \/ hs'[c].team = hs[c].team /\ hs[c].phase = "executing" /\ hs'[c].phase = "completed"
       \/ /\ hs'[c].phase = "executing"
          /\ hs'[c].team # {} /\ hs'[c].team \subseteq hs'[c].accepted

\* Partners are asked for the first time.
Asks(c) ==
    /\ hs[c].phase \in {"idle", "handshake"} /\ hs'[c].phase = "handshake"
    /\ hs'[c].accepted = {} /\ hs'[c].team = hs[c].team
    /\ \A p \in hs'[c].batch : resp[c][p] = "none"
    /\ \A p \in Agents : /\ p \notin hs'[c].batch => Leg(c, p)
                         /\ p \in hs'[c].ranked => p \in hs[c].ranked \ hs[c].batch
                                                   \/ resp'[c][p] = "none"
                                                   \/ p \in hs'[c].batch

Keeps(d) == \A t \in Agents : resp[d][t] = "accepted" => resp'[d][t] = "accepted"

Covers(c, p) ==
    LET d == Child(c, p) IN
    \/ /\ hs'[d] = hs[d] /\ Keeps(d)
       /\ \/ resp'[c][p] = resp[c][p]
          \/ hs[d].phase = "idle"
          \/ resp'[c][p] = "rejected"
          \/ resp'[c][p] = "accepted" /\ hs[d].phase = "secured"
    \/ /\ hs'[d].phase = "refused" /\ hs[d].phase = "handshake"
       /\ hs'[d].batch = hs[d].batch /\ Keeps(d)
       /\ resp'[c][p] = resp[c][p]
    \/ /\ hs'[d].phase = "secured" /\ hs[d].phase = "handshake"
       /\ \E t \in hs'[d].batch : resp'[d][t] = "accepted"
       /\ resp'[c][p] = resp[c][p]
    \/ hs'[d].phase = "handshake" /\ resp'[c][p] = "delegating"

LEMMA TalkStep ==
    ASSUME TypeOK, TypeOK', Talk, \A p \in Agents : active[p] \subseteq active'[p],
           \A c \in Roots : GoesOn(c) \/ Asks(c),
           \A c \in Roots, p \in Agents : Covers(c, p)
    PROVE  Talk'
  <1>0. \A c \in Collabs : hs[c] \in Handshake /\ hs'[c] \in Handshake
    BY DEF TypeOK
  <1>1. Unstarted'
    BY DEF Talk, Unstarted, GoesOn, Asks, Leg
  <1>2. Consent'
    <2> SUFFICES ASSUME NEW c \in Roots
        PROVE  /\ \A p \in hs'[c].accepted \cup hs'[c].team : resp'[c][p] = "accepted" /\ c \in active'[p]
               /\ hs'[c].phase \in {"idle", "handshake"} => hs'[c].team = {}
               /\ hs'[c].phase \in {"executing", "completed"} => hs'[c].team # {}
      BY DEF Consent
    <2>0. /\ \A p \in hs[c].accepted \cup hs[c].team : resp[c][p] = "accepted" /\ c \in active[p]
          /\ hs[c].phase \in {"idle", "handshake"} => hs[c].team = {}
          /\ hs[c].phase \in {"executing", "completed"} => hs[c].team # {}
          /\ hs[c].accepted \in SUBSET Agents /\ hs[c].team \in SUBSET Agents
      BY <1>0, ChildFacts DEF Talk, Consent, Handshake
    <2>1. CASE GoesOn(c)
      <3>1. \A p \in hs[c].accepted \cup hs[c].team : resp'[c][p] = "accepted" /\ c \in active'[p]
        BY <2>0, <2>1 DEF GoesOn, Leg
      <3>2. \A p \in hs'[c].accepted : resp'[c][p] = "accepted" /\ c \in active'[p]
        BY <2>1, <3>1 DEF GoesOn, Joined
      <3> QED BY <2>0, <2>1, <3>1, <3>2 DEF GoesOn
    <2>2. CASE Asks(c)
      BY <2>0, <2>2 DEF Asks
    <2> QED BY <2>1, <2>2
  <1>3. Asked'
    <2> SUFFICES ASSUME NEW c \in Roots, NEW p \in Agents, resp'[c][p] # "none"
        PROVE  p \in hs'[c].batch \/ p \notin hs'[c].ranked
      BY DEF Asked
    <2>1. resp[c][p] # "none" => p \in hs[c].batch \/ p \notin hs[c].ranked
      BY DEF Talk, Asked
    <2> QED BY <2>1 DEF GoesOn, Asks, Leg
  <1>4. Covered'
    <2> SUFFICES ASSUME NEW c \in Roots, NEW p \in Agents, NEW d, d = Child(c, p)
        PROVE  /\ hs'[d].phase # "idle" => resp'[c][p] \in {"delegating", "accepted", "rejected"}
               /\ hs'[d].phase = "secured" \/ (resp'[c][p] = "accepted" /\ hs'[d].phase # "idle")
                    => \E t \in hs'[d].batch : resp'[d][t] = "accepted"
      BY DEF Covered
    <2>1. /\ hs[d].phase # "idle" => resp[c][p] \in {"delegating", "accepted", "rejected"}
          /\ hs[d].phase = "secured" \/ (resp[c][p] = "accepted" /\ hs[d].phase # "idle")
               => \E t \in hs[d].batch : resp[d][t] = "accepted"
      BY DEF Talk, Covered
    <2>2. hs[d].batch \in SUBSET Agents /\ hs'[d].batch \in SUBSET Agents
      BY <1>0, ChildFacts DEF Handshake
    <2>3. Covers(c, p)
      OBVIOUS
    <2> QED BY <2>1, <2>2, <2>3 DEF Covers, Keeps
  <1> QED BY <1>1, <1>2, <1>3, <1>4 DEF Talk

----------------------------------------------------------------------------
(* What a step may do to a row *)

LEMMA NoneIsNoRow == None \notin Row
  BY CollaborationAssumption

LEMMA RowWrites ==
    ASSUME NEW row \in Row
    PROVE  /\ \A s \in Statuses, reason \in Reasons :
                /\ SetStatus(row, s, reason) \in Row
                /\ SetStatus(row, s, reason).status = s /\ SetStatus(row, s, reason).reason = reason
           /\ HoldRow(row, HOLD_MAX_SEC) \in Row /\ HoldRow(row, HOLD_MAX_SEC).status = "held"
           /\ Resume(row) \in Row
  <1>1. ASSUME NEW st \in Statuses, NEW reason \in Reasons
        PROVE  /\ SetStatus(row, st, reason) \in Row
               /\ SetStatus(row, st, reason).status = st /\ SetStatus(row, st, reason).reason = reason
    BY DEF SetStatus, Row
  <1>2. HoldRow(row, HOLD_MAX_SEC) \in Row /\ HoldRow(row, HOLD_MAX_SEC).status = "held"
    BY ConstantsAssumption DEF HoldRow, Row, Statuses
  <1>3. Resume(row) \in Row
    BY DEF Resume, Row, Statuses
  <1> QED BY <1>1, <1>2, <1>3

Books1(c, p) ==
    \/ /\ usage'[c][p] = usage[c][p]
       /\ rows'[c][p] = rows[c][p] \/ rows[c][p] = None \/ rows[c][p].status # "terminated"
    \/ /\ IsActive(rows[c][p]) /\ usage'[c][p] = usage[c][p] + 1
       /\ rows'[c][p] # None
       /\ rows'[c][p].status = "terminated" /\ rows'[c][p].reason = AC_COMPLETED

Bills(c) == hs'[c].phase # "completed" =>
    /\ hs[c].phase # "completed"
    /\ \A d \in {c} \cup Children(c), p \in Agents : usage'[d][p] = usage[d][p]

Closes(c) == hs'[c].phase \in Ended =>
    \/ c \notin remembered'
    \/ hs[c].phase \in Ended /\ (c \in remembered' => c \in remembered)

LEMMA BooksStep ==
    ASSUME TypeOK, Books, \A c \in Collabs, p \in Agents : Books1(c, p),
           \A c \in Roots : Bills(c), \A c \in Roots : Closes(c)
    PROVE  Books'
  <1>1. Metered'
    <2> SUFFICES ASSUME NEW c \in Collabs, NEW p \in Agents, usage'[c][p] > 0
        PROVE  /\ usage'[c][p] = 1 /\ rows'[c][p] # None
               /\ rows'[c][p].status = "terminated" /\ rows'[c][p].reason = AC_COMPLETED
      BY DEF Metered
    <2>1. usage[c][p] > 0 => /\ usage[c][p] = 1 /\ rows[c][p] # None
             /\ rows[c][p].status = "terminated" /\ rows[c][p].reason = AC_COMPLETED
      BY DEF Books, Metered
    <2>2. usage[c][p] \in Nat /\ Books1(c, p)
      BY DEF TypeOK
    <2> QED BY <2>1, <2>2 DEF Books1, IsActive
  <1>2. Unbilled'
    BY DEF Books, Unbilled, Bills
  <1>3. Closed'
    BY DEF Books, Closed, Closes
  <1> QED BY <1>1, <1>2, <1>3 DEF Books

\* Only the books change.
LEMMA EndRowsShape ==
    ASSUME TypeOK, NEW family \in SUBSET Collabs, NEW reason \in Reasons
    PROVE  /\ EndRows(family, reason) \in [Collabs -> [Agents -> Row \cup {None}]]
           /\ \A d \in Collabs, p \in Agents :
                /\ d \notin family \/ ~IsActive(rows[d][p]) => EndRows(family, reason)[d][p] = rows[d][p]
                /\ d \in family /\ IsActive(rows[d][p]) =>
                     /\ EndRows(family, reason)[d][p] \in Row
                     /\ EndRows(family, reason)[d][p] # None
                     /\ EndRows(family, reason)[d][p].status = "terminated"
                     /\ EndRows(family, reason)[d][p].reason = reason
  <1> DEFINE E == EndRows(family, reason)
  <1>1. \A d \in Collabs, p \in Agents : rows[d][p] \in Row \cup {None}
    BY DEF TypeOK
  <1>2. \A d \in Collabs, p \in Agents : IsActive(rows[d][p]) =>
          /\ SetStatus(rows[d][p], "terminated", reason) \in Row
          /\ SetStatus(rows[d][p], "terminated", reason).status = "terminated"
          /\ SetStatus(rows[d][p], "terminated", reason).reason = reason
    BY <1>1, RowWrites DEF IsActive, Statuses
  <1>3. /\ E = [d \in Collabs |-> [p \in Agents |-> E[d][p]]]
        /\ \A d \in Collabs, p \in Agents :
             E[d][p] = IF d \in family /\ IsActive(rows[d][p])
                       THEN SetStatus(rows[d][p], "terminated", reason) ELSE rows[d][p]
    BY DEF EndRows
  <1> HIDE DEF E
  <1>4. \A d \in Collabs, p \in Agents : E[d][p] \in Row \cup {None}
    BY <1>1, <1>2, <1>3
  <1>5. E \in [Collabs -> [Agents -> Row \cup {None}]]
    BY <1>3, <1>4
  <1> QED BY <1>2, <1>3, <1>5, NoneIsNoRow DEF E

----------------------------------------------------------------------------
(* Answers *)

\* What a step that is about c leaves alone.
Others(c) == \A d \in Collabs : d # c => hs'[d] = hs[d]

LEMMA SameRoot ==
    ASSUME NEW c \in Roots, hs'[c] = hs[c], \A p \in Agents : Leg(c, p)
    PROVE  GoesOn(c)
  BY DEF GoesOn

LEMMA SameBooks ==
    ASSUME TypeOK, UNCHANGED <<rows, usage, remembered>>,
           \A c \in Roots : \/ hs'[c].phase = hs[c].phase
                            \/ hs'[c].phase \notin Ended
    PROVE  /\ \A c \in Collabs, p \in Agents : Books1(c, p)
           /\ \A c \in Roots : Closes(c)
           /\ (\A c \in Roots : hs[c].phase # "completed" \/ hs'[c].phase = "completed")
                => \A c \in Roots : Bills(c)
  BY DEF Books1, Bills, Closes, Ended

\* The handshake goes on, or ends in an execution.
Phase(c) == \/ hs'[c].phase = hs[c].phase
            \/ hs[c].phase = "handshake" /\ hs'[c].phase = "executing"

\* A delegation ends without an acceptance.
Refuses(c) == /\ hs'[c].phase = "refused" /\ hs[c].phase = "handshake"
              /\ hs'[c].batch = hs[c].batch

\* One answer in the talk about c.
LEMMA TalkAbout ==
    ASSUME IInv, TypeOK', \A q \in Agents : active[q] \subseteq active'[q],
           NEW c \in Collabs, NEW p \in Agents, Others(c), Leg(c, p),
           \A d \in Collabs, q \in Agents : d # c \/ q # p => resp'[d][q] = resp[d][q],
           c \in Roots => GoesOn(c),
           c \in Roots => \/ resp'[c][p] \in {resp[c][p], "rejected"}
                          \/ hs[Child(c, p)].phase = "idle"
                          \/ hs[Child(c, p)].phase = "secured" /\ resp'[c][p] = "accepted",
           c \notin Roots => \/ hs'[c] = hs[c] \/ Refuses(c)
                             \/ /\ hs'[c].phase = "secured" /\ hs[c].phase = "handshake"
                                /\ p \in hs'[c].batch /\ resp'[c][p] = "accepted"
    PROVE  Talk'
  <1>1. ASSUME NEW d \in Roots PROVE GoesOn(d)
    <2>1. CASE d = c
      BY <2>1 DEF GoesOn
    <2>2. CASE d # c
      <3>1. hs'[d] = hs[d] /\ \A q \in Agents : Leg(d, q)
        BY <2>2, ChildFacts DEF Others, Leg
      <3> QED BY <3>1, SameRoot
    <2> QED BY <2>1, <2>2
  <1>2. ASSUME NEW d \in Roots, NEW q \in Agents PROVE Covers(d, q)
    <2> DEFINE e == Child(d, q)
    <2>1. e \in Collabs /\ e \notin Roots
      BY ChildFacts
    <2>2. Keeps(e)
      BY <2>1 DEF Keeps, Leg
    <2>3. CASE e = c
      <3>1. resp'[d][q] = resp[d][q]
        BY <2>1, <2>3, ChildFacts
      <3> QED BY <2>1, <2>2, <2>3, <3>1 DEF Covers, Refuses
    <2>4. CASE e # c
      <3>1. hs'[e] = hs[e]
        BY <2>1, <2>4 DEF Others
      <3> QED BY <2>2, <3>1, ChildFacts DEF Covers
    <2> QED BY <2>3, <2>4
  <1> QED BY <1>1, <1>2, TalkStep DEF IInv

\* An acceptance, of a proposal whose downstream promise is idle or secured.
LEMMA AcceptStep ==
    ASSUME IInv, NEW c \in Collabs, NEW p \in Agents, AcceptProposal(c, p),
           resp[c][p] \notin {"none", "accepted"},
           c \in Roots => hs[Child(c, p)].phase \in {"idle", "secured"}
    PROVE  IInv'
  <1>1. /\ TypeOK /\ Talk /\ Books /\ hs \in [Collabs -> Handshake] /\ hs[c] \in Handshake
        /\ resp \in [Collabs -> [Agents -> Responses]]
    BY DEF IInv, TypeOK
  <1>2. /\ resp' \in [Collabs -> [Agents -> Responses]] /\ resp'[c][p] = "accepted"
        /\ \A d \in Collabs, q \in Agents : d # c \/ q # p => resp'[d][q] = resp[d][q]
    BY <1>1 DEF AcceptProposal, Responses
  <1>3. /\ active' \in [Agents -> SUBSET Collabs] /\ c \in active'[p]
        /\ \A q \in Agents : active[q] \subseteq active'[q]
    BY <1>1 DEF AcceptProposal, TypeOK
  <1>4. session' \in [Collabs -> [Agents -> {"none", "live", "ended"}]]
    BY <1>1 DEF AcceptProposal, TypeOK
  <1>5. /\ rows' \in [Collabs -> [Agents -> Row \cup {None}]]
        /\ \A d \in Collabs, q \in Agents : rows'[d][q] = rows[d][q] \/ rows[d][q] = None
        /\ c \notin remembered => rows' = rows
        /\ \A d \in Collabs, q \in Agents : d # c => rows'[d][q] = rows[d][q]
    <2>1. rows \in [Collabs -> [Agents -> Row \cup {None}]]
      BY <1>1 DEF TypeOK
    <2>2. CASE UNCHANGED rows
      BY <2>1, <2>2
    <2>3. CASE /\ c \in remembered /\ rows[c][p] = None
               /\ \E t \in Terms :
                    rows' = [rows EXCEPT ![c][p] = CreateAgreement(None, p, t, "ac", "active", c)]
      <3>1. PICK t \in Terms :
              rows' = [rows EXCEPT ![c][p] = CreateAgreement(None, p, t, "ac", "active", c)]
        BY <2>3
      <3>2. CreateAgreement(None, p, t, "ac", "active", c) \in Row
        BY DEF CreateAgreement, Row, Statuses, Sources, Reasons
      <3> QED BY <2>1, <2>3, <3>1, <3>2
    <2> QED BY <2>2, <2>3 DEF AcceptProposal
  <1>6. UNCHANGED <<usage, remembered, up>>
    BY DEF AcceptProposal
  <1> DEFINE accepted == hs[c].accepted \cup {p}
  <1>7. \/ c \notin Roots /\ Open(c, p) /\ hs' = [hs EXCEPT ![c].phase = "secured"]
        \/ c \in Roots /\ Open(c, p) /\ Start(c, accepted, hs[c].declined)
        \/ c \in Roots /\ Open(c, p) /\ hs' = [hs EXCEPT ![c].accepted = accepted]
        \/ UNCHANGED hs
    BY DEF AcceptProposal
  <1>8. /\ hs' \in [Collabs -> Handshake] /\ Others(c)
        /\ c \in Roots => GoesOn(c) /\ Phase(c)
        /\ c \notin Roots => \/ hs'[c] = hs[c]
                             \/ /\ hs'[c].phase = "secured" /\ hs[c].phase = "handshake"
                                /\ p \in hs'[c].batch
    <2>0. \A q \in Agents : Leg(c, q)
      BY <1>2 DEF Leg
    <2>1. CASE c \notin Roots /\ Open(c, p) /\ hs' = [hs EXCEPT ![c].phase = "secured"]
      BY <1>1, <2>1 DEF Open, Others, Handshake, Phases
    <2>2. CASE c \in Roots /\ Open(c, p) /\ Start(c, accepted, hs[c].declined)
      <3>1. accepted \in SUBSET Agents /\ accepted # {} /\ hs[c].declined \in SUBSET Agents
        BY <1>1 DEF Handshake
      <3>2. /\ hs' \in [Collabs -> Handshake]
            /\ \A d \in Collabs : d # c => hs'[d] = hs[d]
            /\ hs'[c].phase = "executing" /\ hs'[c].accepted = accepted
            /\ hs'[c].team # {} /\ hs'[c].team \subseteq accepted
            /\ hs'[c].batch = hs[c].batch /\ hs'[c].ranked = hs[c].ranked
        BY <1>1, <2>2, <3>1, StartMeans
      <3>3. p \in Joined(c) /\ hs[c].phase = "handshake"
        BY <1>2, <1>3, <2>2 DEF Joined, Open
      <3> QED BY <2>0, <2>2, <3>2, <3>3 DEF GoesOn, Others, Phase
    <2>3. CASE c \in Roots /\ Open(c, p) /\ hs' = [hs EXCEPT ![c].accepted = accepted]
      <3>1. p \in Joined(c) /\ hs[c].phase = "handshake"
        BY <1>2, <1>3, <2>3 DEF Joined, Open
      <3>2. /\ hs' \in [Collabs -> Handshake] /\ hs'[c].accepted = accepted
            /\ hs'[c].phase = hs[c].phase /\ hs'[c].batch = hs[c].batch
            /\ hs'[c].ranked = hs[c].ranked /\ hs'[c].team = hs[c].team
        BY <1>1, <2>3 DEF Handshake
      <3>3. Others(c)
        BY <1>1, <2>3 DEF Others
      <3>4. hs'[c].accepted \subseteq hs[c].accepted \cup Joined(c)
        BY <3>1, <3>2
      <3>5. GoesOn(c)
        BY <2>0, <3>1, <3>2, <3>4 DEF GoesOn
      <3> QED BY <2>3, <3>2, <3>3, <3>5 DEF Phase
    <2>4. CASE UNCHANGED hs
      <3>1. hs'[c] = hs[c] /\ Others(c) /\ hs' \in [Collabs -> Handshake]
        BY <1>1, <2>4 DEF Others
      <3>2. c \in Roots => GoesOn(c)
        BY <2>0, <3>1, SameRoot
      <3> QED BY <3>1, <3>2 DEF Phase
    <2> QED BY <1>7, <2>1, <2>2, <2>3, <2>4
  <1>9. TypeOK'
    BY <1>1, <1>2, <1>3, <1>4, <1>5, <1>6, <1>8 DEF TypeOK
  <1>12. Talk'
    <2>1. \A d \in Collabs, q \in Agents : d # c \/ q # p => resp'[d][q] = resp[d][q]
      BY <1>2
    <2> QED BY <1>2, <1>3, <1>8, <1>9, <2>1, TalkAbout DEF Leg, Refuses
  <1>13. Books'
    <2>1. \A d \in Collabs, q \in Agents : Books1(d, q)
      BY <1>5, <1>6 DEF Books1
    <2>0. \A d \in Roots : Phase(d)
      BY <1>8, ChildFacts DEF Others, Phase
    <2>2. \A d \in Roots : Bills(d)
      BY <1>6, <2>0 DEF Bills, Phase
    <2>3. \A d \in Roots : Closes(d)
      BY <1>6, <2>0 DEF Closes, Ended, Phase
    <2> QED BY <1>1, <2>1, <2>2, <2>3, BooksStep
  <1> QED BY <1>9, <1>12, <1>13 DEF IInv

\* The rows of a family end with the roots that ended.
LEMMA CancelBooks ==
    ASSUME TypeOK, Books, NEW cs \in SUBSET Roots, NEW family \in SUBSET Collabs,
           cs \subseteq family, rows' = EndRows(family, AC_CANCELLED),
           remembered' \subseteq remembered \ cs, UNCHANGED usage,
           \A d \in Roots \ cs : hs'[d].phase = hs[d].phase,
           \A d \in cs : hs[d].phase = "handshake" /\ hs'[d].phase = "cancelled"
    PROVE  Books' /\ rows' \in [Collabs -> [Agents -> Row \cup {None}]]
  <1>1. AC_CANCELLED \in Reasons
    BY DEF Reasons, PlatformReasons
  <1>2. /\ rows' \in [Collabs -> [Agents -> Row \cup {None}]]
        /\ \A d \in Collabs, p \in Agents :
             /\ d \notin family \/ ~IsActive(rows[d][p]) => rows'[d][p] = rows[d][p]
             /\ d \in family /\ IsActive(rows[d][p]) =>
                  rows'[d][p] # None /\ rows'[d][p].status = "terminated"
    <2>1. /\ EndRows(family, AC_CANCELLED) \in [Collabs -> [Agents -> Row \cup {None}]]
          /\ \A d \in Collabs, p \in Agents :
               /\ d \notin family \/ ~IsActive(rows[d][p]) =>
                    EndRows(family, AC_CANCELLED)[d][p] = rows[d][p]
               /\ d \in family /\ IsActive(rows[d][p]) =>
                    /\ EndRows(family, AC_CANCELLED)[d][p] \in Row
                    /\ EndRows(family, AC_CANCELLED)[d][p] # None
                    /\ EndRows(family, AC_CANCELLED)[d][p].status = "terminated"
                    /\ EndRows(family, AC_CANCELLED)[d][p].reason = AC_CANCELLED
      BY <1>1, EndRowsShape
    <2> QED BY <2>1
  <1>3. \A d \in Collabs, p \in Agents : Books1(d, p)
    BY <1>2 DEF Books1, IsActive
  <1>4. \A d \in Roots : Bills(d)
    BY DEF Bills
  <1>5. \A d \in Roots : Closes(d)
    BY DEF Closes, Ended
  <1> QED BY <1>2, <1>3, <1>4, <1>5, BooksStep

LEMMA EndSessionsTyped ==
    ASSUME TypeOK, NEW cs
    PROVE  EndSessions(cs) \in [Collabs -> [Agents -> {"none", "live", "ended"}]]
  BY DEF TypeOK, EndSessions

LEMMA FamilyTyped ==
    ASSUME TypeOK, NEW c \in Roots
    PROVE  Family(c) \in SUBSET Collabs /\ c \in Family(c) /\ Family(c) \subseteq {c} \cup Children(c)
  BY ChildFacts DEF Family, TypeOK

\* Nobody accepted: the next round, or the end.
LEMMA GiveUpStep ==
    ASSUME IInv, NEW c \in Roots, hs[c].phase = "handshake", hs[c].accepted = {},
           NEW answered \in [Collabs -> [Agents -> Responses]],
           \A d \in Collabs, q \in Agents :
             \/ answered[d][q] = resp[d][q]
             \/ d = c /\ answered[d][q] = "rejected" /\ resp[d][q] \notin {"none", "accepted"},
           NEW declined \in SUBSET Agents, GiveUp(c, answered, declined),
           UNCHANGED <<active, usage, up>>
    PROVE  IInv'
  <1>1. /\ TypeOK /\ Talk /\ Books /\ hs \in [Collabs -> Handshake] /\ hs[c] \in Handshake
        /\ c \in Collabs
    BY ChildFacts DEF IInv, TypeOK
  <1> DEFINE batch == NextBatch(c)
  <1>2. CASE /\ batch # {}
             /\ hs' = [hs EXCEPT ![c].batch = batch, ![c].accepted = {},
                         ![c].declined = {}, ![c].fallback = TRUE,
                         ![c].ranked = Untried(c) \ batch]
             /\ resp' = [answered EXCEPT ![c] = [p \in Agents |->
                           IF p \in batch THEN Received(p, "evaluating") ELSE @[p]]]
             /\ UNCHANGED <<session, rows, remembered>>
    <2>1. batch \in SUBSET Untried(c) /\ Untried(c) \in SUBSET Agents
      BY <1>1 DEF NextBatch, Untried, Handshake
    <2>2. /\ hs' \in [Collabs -> Handshake] /\ Others(c)
          /\ hs'[c].phase = "handshake" /\ hs'[c].batch = batch /\ hs'[c].accepted = {}
          /\ hs'[c].team = hs[c].team /\ hs'[c].ranked = Untried(c) \ batch
      <3> DEFINE rest == Untried(c) \ batch
      <3>1. batch \in SUBSET Agents /\ rest \in SUBSET Agents
        BY <2>1
      <3>2. hs' = [hs EXCEPT ![c] = [hs[c] EXCEPT !.batch = batch, !.accepted = {},
                      !.declined = {}, !.fallback = TRUE, !.ranked = rest]]
        BY <1>2
      <3> HIDE DEF batch, rest
      <3>3. [hs[c] EXCEPT !.batch = batch, !.accepted = {}, !.declined = {},
               !.fallback = TRUE, !.ranked = rest] \in Handshake
        BY <1>1, <3>1 DEF Handshake
      <3>4. hs' \in [Collabs -> Handshake] /\ Others(c)
        BY <1>1, <3>2, <3>3 DEF Others
      <3>5. /\ hs'[c].phase = hs[c].phase /\ hs'[c].batch = batch /\ hs'[c].accepted = {}
            /\ hs'[c].team = hs[c].team /\ hs'[c].ranked = rest
        BY <1>1, <3>2 DEF Handshake
      <3> QED BY <3>4, <3>5 DEF rest
    <2>3. \A p \in Agents : Received(p, "evaluating") \in Responses \ {"none", "accepted"}
      BY DEF Received, Responses
    <2>4. /\ resp' \in [Collabs -> [Agents -> Responses]]
          /\ \A d \in Collabs, q \in Agents : d # c \/ q \notin batch => resp'[d][q] = answered[d][q]
      <3> HIDE DEF batch
      <3> QED BY <1>1, <1>2, <2>3
    <2>5. TypeOK'
      BY <1>1, <1>2, <2>2, <2>4 DEF TypeOK
    <2>6. \A p \in batch : resp[c][p] = "none" /\ hs[Child(c, p)].phase = "idle"
      <3> SUFFICES ASSUME NEW p \in batch PROVE resp[c][p] = "none" /\ hs[Child(c, p)].phase = "idle"
        OBVIOUS
      <3>1. p \in Agents /\ p \in hs[c].ranked \ hs[c].batch
        BY <2>1 DEF Untried
      <3>2. resp[c][p] = "none"
        BY <1>1, <3>1 DEF Talk, Asked
      <3> QED BY <1>1, <3>1, <3>2 DEF Talk, Covered
    <2>7. \A p \in Agents \ batch : Leg(c, p)
      BY <1>1, <2>4 DEF Leg
    <2>8. Asks(c)
      BY <2>1, <2>2, <2>6, <2>7 DEF Asks, Untried
    <2>9. ASSUME NEW d \in Roots, d # c PROVE GoesOn(d)
      <3>1. d \in Collabs /\ hs'[d] = hs[d]
        BY <2>2, <2>9, ChildFacts DEF Others
      <3>2. \A q \in Agents : Leg(d, q)
        BY <2>4, <2>9, <3>1 DEF Leg
      <3> QED BY <3>1, <3>2, SameRoot
    <2>10. ASSUME NEW d \in Roots, NEW q \in Agents PROVE Covers(d, q)
      <3>1. Child(d, q) \in Collabs /\ Child(d, q) # c /\ d \in Collabs
        BY ChildFacts
      <3>2. hs'[Child(d, q)] = hs[Child(d, q)] /\ Keeps(Child(d, q))
        BY <2>2, <2>4, <3>1 DEF Others, Keeps
      <3>3. resp'[d][q] = resp[d][q] \/ hs[Child(d, q)].phase = "idle" \/ resp'[d][q] = "rejected"
        BY <2>4, <2>6, <3>1
      <3> QED BY <3>2, <3>3 DEF Covers
    <2>11. \A d \in Roots : GoesOn(d) \/ Asks(d)
      <3> TAKE d \in Roots
      <3>1. CASE d = c
        BY <2>8, <3>1 DEF Asks
      <3>2. CASE d # c
        BY <2>9, <3>2
      <3> QED BY <3>1, <3>2
    <2>12. Talk'
      BY <1>1, <2>5, <2>10, <2>11, TalkStep
    <2>13. \A d \in Roots : hs'[d].phase = hs[d].phase
      BY <2>2, ChildFacts DEF Others
    <2>14. Books'
      BY <1>1, <1>2, <2>13, SameBooks, BooksStep
    <2> QED BY <2>5, <2>12, <2>14 DEF IInv
  <1>3. CASE /\ hs' = [hs EXCEPT ![c].phase = "cancelled", ![c].declined = declined]
             /\ resp' = answered
             /\ CancelEffects({c})
    <2>1. /\ hs' \in [Collabs -> Handshake] /\ Others(c) /\ hs'[c].phase = "cancelled"
          /\ hs'[c].batch = hs[c].batch /\ hs'[c].accepted = hs[c].accepted
          /\ hs'[c].team = hs[c].team /\ hs'[c].ranked = hs[c].ranked
      BY <1>1, <1>3 DEF Handshake, Others, Phases
    <2>2. /\ rows' = EndRows(Family(c), AC_CANCELLED) /\ session' = EndSessions({c})
          /\ remembered' = remembered \ Family(c)
      <3>1. UNION {Family(d) : d \in {c}} = Family(c)
        OBVIOUS
      <3> QED BY <1>3, <3>1 DEF CancelEffects
    <2>3. Books' /\ rows' \in [Collabs -> [Agents -> Row \cup {None}]]
      <3>1. {c} \in SUBSET Roots /\ {c} \subseteq Family(c) /\ remembered' \subseteq remembered \ {c}
        BY <1>1, <2>2, FamilyTyped
      <3>2. \A d \in Roots \ {c} : hs'[d].phase = hs[d].phase
        BY <2>1, ChildFacts DEF Others
      <3> QED BY <1>1, <2>1, <2>2, <3>1, <3>2, FamilyTyped, CancelBooks
    <2>4. TypeOK'
      BY <1>1, <1>3, <2>1, <2>2, <2>3, EndSessionsTyped DEF TypeOK
    <2>5. ASSUME NEW d \in Roots PROVE GoesOn(d)
      <3>1. d \in Collabs /\ \A q \in Agents : Leg(d, q)
        BY <1>3, ChildFacts DEF Leg
      <3>2. CASE d = c
        BY <2>1, <3>1, <3>2 DEF GoesOn
      <3>3. CASE d # c
        BY <2>1, <3>1, <3>3, SameRoot DEF Others
      <3> QED BY <3>2, <3>3
    <2>6. ASSUME NEW d \in Roots, NEW q \in Agents PROVE Covers(d, q)
      <3>1. Child(d, q) \in Collabs /\ Child(d, q) # c /\ d \in Collabs
        BY ChildFacts
      <3>2. hs'[Child(d, q)] = hs[Child(d, q)] /\ Keeps(Child(d, q))
        BY <1>3, <2>1, <3>1 DEF Others, Keeps
      <3> QED BY <1>3, <3>1, <3>2 DEF Covers
    <2>7. Talk'
      BY <1>1, <2>4, <2>5, <2>6, TalkStep
    <2> QED BY <2>3, <2>4, <2>7 DEF IInv
  <1> QED BY <1>2, <1>3 DEF GiveUp

\* A step in the talk about c that touches no row, session or count.
LEMMA QuietStep ==
    ASSUME IInv, NEW c \in Collabs, NEW p \in Agents, hs' \in [Collabs -> Handshake],
           resp' \in [Collabs -> [Agents -> Responses]],
           UNCHANGED <<active, session, rows, usage, remembered, up>>, Others(c), Leg(c, p),
           \A d \in Collabs, q \in Agents : d # c \/ q # p => resp'[d][q] = resp[d][q],
           c \in Roots => GoesOn(c) /\ Phase(c),
           c \in Roots => resp'[c][p] \in {resp[c][p], "rejected"} \/ hs[Child(c, p)].phase = "idle",
           c \notin Roots => hs'[c] = hs[c] \/ Refuses(c)
    PROVE  IInv'
  <1>1. TypeOK'
    BY DEF IInv, TypeOK
  <1>2. Talk'
    BY <1>1, TalkAbout
  <1>3. \A d \in Roots : Phase(d)
    BY ChildFacts DEF Others, Phase
  <1>4. \A d \in Roots : /\ hs'[d].phase = hs[d].phase \/ hs'[d].phase \notin Ended
                         /\ hs[d].phase # "completed" \/ hs'[d].phase = "completed"
    BY <1>3 DEF Phase, Ended
  <1>5. Books'
    BY <1>4, SameBooks, BooksStep DEF IInv
  <1> QED BY <1>1, <1>2, <1>5 DEF IInv

LEMMA DeclineStep ==
    ASSUME IInv, NEW c \in Collabs, NEW p \in Agents, Decline(c, p),
           resp[c][p] \notin {"none", "accepted"}
    PROVE  IInv'
  <1> DEFINE answered == [resp EXCEPT ![c][p] = "rejected"]
             declined == hs[c].declined \cup {p}
  <1>1. /\ hs \in [Collabs -> Handshake] /\ hs[c] \in Handshake /\ declined \in SUBSET Agents
        /\ resp \in [Collabs -> [Agents -> Responses]]
    BY DEF IInv, TypeOK, Handshake
  <1>2. /\ answered \in [Collabs -> [Agents -> Responses]] /\ answered[c][p] = "rejected"
        /\ \A d \in Collabs, q \in Agents : d # c \/ q # p => answered[d][q] = resp[d][q]
    BY <1>1 DEF Responses
  <1>3. UNCHANGED <<active, usage, up>>
    BY DEF Decline
  <1>4. CASE Open(c, p) /\ c \in Roots /\ hs[c].accepted = {} /\ GiveUp(c, answered, declined)
    <2>1. hs[c].phase = "handshake"
      BY <1>4 DEF Open
    <2>2. \A d \in Collabs, q \in Agents :
            \/ answered[d][q] = resp[d][q]
            \/ d = c /\ answered[d][q] = "rejected" /\ resp[d][q] \notin {"none", "accepted"}
      BY <1>2
    <2> HIDE DEF answered, declined
    <2> QED BY <1>1, <1>2, <1>3, <1>4, <2>1, <2>2, GiveUpStep
  <1>5. CASE /\ resp' = answered /\ UNCHANGED <<session, rows, remembered>>
             /\ \/ UNCHANGED hs
                \/ /\ Open(c, p) /\ c \notin Roots
                   /\ hs' = [hs EXCEPT ![c].phase = "refused"]
                \/ /\ Open(c, p) /\ c \in Roots
                   /\ hs' = [hs EXCEPT ![c].declined = declined]
                \/ /\ Open(c, p) /\ c \in Roots /\ hs[c].accepted # {}
                   /\ Start(c, hs[c].accepted, declined)
    <2>0. \A q \in Agents : Leg(c, q)
      BY <1>2, <1>5 DEF Leg
    <2>1. /\ hs' \in [Collabs -> Handshake] /\ Others(c)
          /\ c \in Roots => GoesOn(c) /\ Phase(c)
          /\ c \notin Roots => hs'[c] = hs[c] \/ Refuses(c)
      <3>1. CASE UNCHANGED hs
        <4>1. hs'[c] = hs[c] /\ Others(c) /\ hs' \in [Collabs -> Handshake]
          BY <1>1, <3>1 DEF Others
        <4> QED BY <2>0, <4>1, SameRoot DEF Phase
      <3>2. CASE /\ Open(c, p) /\ c \notin Roots /\ hs' = [hs EXCEPT ![c].phase = "refused"]
        BY <1>1, <3>2 DEF Open, Others, Refuses, Handshake, Phases
      <3>3. CASE /\ Open(c, p) /\ c \in Roots /\ hs' = [hs EXCEPT ![c].declined = declined]
        <4>1. /\ hs' \in [Collabs -> Handshake] /\ hs'[c].accepted = hs[c].accepted
              /\ hs'[c].phase = hs[c].phase /\ hs'[c].batch = hs[c].batch
              /\ hs'[c].ranked = hs[c].ranked /\ hs'[c].team = hs[c].team
          BY <1>1, <3>3 DEF Handshake
        <4>2. Others(c)
          BY <1>1, <3>3 DEF Others
        <4> QED BY <2>0, <3>3, <4>1, <4>2 DEF GoesOn, Phase
      <3>4. CASE /\ Open(c, p) /\ c \in Roots /\ hs[c].accepted # {}
                 /\ Start(c, hs[c].accepted, declined)
        <4>0. hs[c].accepted \in SUBSET Agents
          BY <1>1 DEF Handshake
        <4>1. /\ hs' \in [Collabs -> Handshake]
              /\ \A d \in Collabs : d # c => hs'[d] = hs[d]
              /\ hs'[c].phase = "executing" /\ hs'[c].accepted = hs[c].accepted
              /\ hs'[c].team # {} /\ hs'[c].team \subseteq hs[c].accepted
              /\ hs'[c].batch = hs[c].batch /\ hs'[c].ranked = hs[c].ranked
          <5> HIDE DEF declined
          <5> QED BY <1>1, <3>4, <4>0, StartMeans DEF IInv
        <4>2. hs[c].phase = "handshake"
          BY <3>4 DEF Open
        <4> QED BY <2>0, <3>4, <4>1, <4>2 DEF GoesOn, Others, Phase
      <3> QED BY <1>5, <3>1, <3>2, <3>3, <3>4
    <2>2. resp' \in [Collabs -> [Agents -> Responses]] /\ resp'[c][p] = "rejected"
          /\ \A d \in Collabs, q \in Agents : d # c \/ q # p => resp'[d][q] = resp[d][q]
      BY <1>2, <1>5
    <2> HIDE DEF answered, declined
    <2> QED BY <1>3, <1>5, <2>0, <2>1, <2>2, QuietStep
  <1> QED BY <1>4, <1>5 DEF Decline

\* A partner that thinks, defers, counters: only its own answer moves.
LEMMA ThinkStep ==
    ASSUME IInv, NEW c \in Collabs, NEW p \in Agents,
           Defer(c, p) \/ Reevaluate(c, p) \/ Counter(c, p)
    PROVE  IInv'
  <1>1. /\ hs \in [Collabs -> Handshake] /\ hs[c] \in Handshake
        /\ resp \in [Collabs -> [Agents -> Responses]]
    BY DEF IInv, TypeOK
  <1>2. PICK a \in Responses \ {"none", "accepted"} : resp' = [resp EXCEPT ![c][p] = a]
    <2>1. Received(p, "reevaluating") \in Responses \ {"none", "accepted"}
      BY DEF Received, Responses
    <2>2. "deferred" \in Responses \ {"none", "accepted"} /\ "countered" \in Responses \ {"none", "accepted"}
      BY DEF Responses
    <2> QED BY <2>1, <2>2 DEF Defer, Reevaluate, Counter
  <1>3. /\ resp' \in [Collabs -> [Agents -> Responses]] /\ resp'[c][p] = a
        /\ \A d \in Collabs, q \in Agents : d # c \/ q # p => resp'[d][q] = resp[d][q]
    BY <1>1, <1>2
  <1>4. resp[c][p] \in {"evaluating", "reevaluating", "deferred"}
    BY DEF Defer, Reevaluate, Counter, InEvaluation
  <1>5. \A q \in Agents : Leg(c, q)
    BY <1>3, <1>4 DEF Leg
  <1>6. UNCHANGED <<active, session, rows, usage, remembered, up>>
    BY DEF Defer, Reevaluate, Counter
  <1>7. hs' = hs \/ (c \notin Roots /\ Open(c, p) /\ hs' = [hs EXCEPT ![c].phase = "refused"])
    BY DEF Defer, Reevaluate, Counter
  <1>8. /\ hs' \in [Collabs -> Handshake] /\ Others(c)
        /\ hs'[c] = hs[c] \/ (c \notin Roots /\ Refuses(c))
    <2>1. CASE hs' = hs
      BY <1>1, <2>1 DEF Others
    <2>2. CASE c \notin Roots /\ Open(c, p) /\ hs' = [hs EXCEPT ![c].phase = "refused"]
      BY <1>1, <2>2 DEF Open, Others, Refuses, Handshake, Phases
    <2> QED BY <1>7, <2>1, <2>2
  <1>9. c \in Roots => GoesOn(c) /\ Phase(c)
    BY <1>5, <1>8, SameRoot DEF Phase
  <1>10. c \in Roots => hs[Child(c, p)].phase = "idle"
    BY <1>4 DEF IInv, Talk, Covered
  <1> QED BY <1>3, <1>5, <1>6, <1>8, <1>9, <1>10, QuietStep

LEMMA TimeoutStep ==
    ASSUME IInv, NEW c \in Roots, Timeout(c)
    PROVE  IInv'
  <1>1. /\ hs \in [Collabs -> Handshake] /\ hs[c] \in Handshake /\ c \in Collabs
        /\ resp \in [Collabs -> [Agents -> Responses]]
        /\ hs[c].accepted \in SUBSET Agents /\ hs[c].declined \in SUBSET Agents
    BY ChildFacts DEF IInv, TypeOK, Handshake
  <1>2. hs[c].phase = "handshake" /\ UNCHANGED <<active, usage, up>>
    BY DEF Timeout
  <1>3. CASE /\ hs[c].accepted # {} /\ Start(c, hs[c].accepted, hs[c].declined)
             /\ UNCHANGED <<resp, session, rows, remembered>>
    <2>1. PICK p \in Agents : p \in hs[c].accepted
      BY <1>1, <1>3
    <2>2. /\ hs' \in [Collabs -> Handshake]
          /\ \A d \in Collabs : d # c => hs'[d] = hs[d]
          /\ hs'[c].phase = "executing" /\ hs'[c].accepted = hs[c].accepted
          /\ hs'[c].team # {} /\ hs'[c].team \subseteq hs[c].accepted
          /\ hs'[c].batch = hs[c].batch /\ hs'[c].ranked = hs[c].ranked
      BY <1>1, <1>3, StartMeans DEF IInv
    <2>3. \A q \in Agents : Leg(c, q)
      BY <1>3 DEF Leg
    <2>4. GoesOn(c) /\ Phase(c) /\ Others(c)
      BY <1>2, <2>2, <2>3 DEF GoesOn, Phase, Others
    <2>5. /\ \A d \in Collabs, q \in Agents : d # c \/ q # p => resp'[d][q] = resp[d][q]
          /\ resp' \in [Collabs -> [Agents -> Responses]] /\ resp'[c][p] = resp[c][p]
      BY <1>1, <1>3
    <2> QED BY <1>1, <1>2, <1>3, <2>2, <2>3, <2>4, <2>5, QuietStep
  <1>4. CASE hs[c].accepted = {} /\ GiveUp(c, resp, hs[c].declined)
    BY <1>1, <1>2, <1>4, GiveUpStep
  <1> QED BY <1>3, <1>4 DEF Timeout

LEMMA DelegationTimeoutStep ==
    ASSUME IInv, NEW c \in Roots, NEW p \in Agents, DelegationTimeout(c, p)
    PROVE  IInv'
  <1> DEFINE d == Child(c, p)
  <1>1. /\ hs \in [Collabs -> Handshake] /\ d \in Collabs /\ d \notin Roots /\ hs[d] \in Handshake
        /\ resp \in [Collabs -> [Agents -> Responses]]
    BY ChildFacts DEF IInv, TypeOK
  <1>2. /\ hs[d].phase = "handshake" /\ hs' = [hs EXCEPT ![d].phase = "refused"]
        /\ UNCHANGED <<resp, active, session, rows, usage, remembered, up>>
    BY DEF DelegationTimeout
  <1>3. hs' \in [Collabs -> Handshake] /\ Others(d) /\ Refuses(d)
    BY <1>1, <1>2 DEF Others, Refuses, Handshake, Phases
  <1>4. Leg(d, p) /\ \A e \in Collabs, q \in Agents : e # d \/ q # p => resp'[e][q] = resp[e][q]
    BY <1>2 DEF Leg
  <1>5. resp' \in [Collabs -> [Agents -> Responses]]
    BY <1>1, <1>2
  <1> HIDE DEF d
  <1> QED BY <1>1, <1>2, <1>3, <1>4, <1>5, QuietStep

LEMMA AfterDelegationStep ==
    ASSUME IInv, NEW c \in Roots, NEW p \in Agents, AfterDelegation(c, p)
    PROVE  IInv'
  <1>1. c \in Collabs /\ resp[c][p] \notin {"none", "accepted"}
    BY ChildFacts DEF AfterDelegation
  <1>2. CASE hs[Child(c, p)].phase = "secured" /\ AcceptProposal(c, p)
    BY <1>1, <1>2, AcceptStep
  <1>3. CASE hs[Child(c, p)].phase = "refused" /\ Decline(c, p)
    BY <1>1, <1>3, DeclineStep
  <1> QED BY <1>2, <1>3 DEF AfterDelegation

----------------------------------------------------------------------------
(* Proposals *)

LEMMA InitiateStep ==
    ASSUME IInv, NEW c \in Roots, Initiate(c)
    PROVE  IInv'
  <1>1. /\ TypeOK /\ Talk /\ Books /\ hs \in [Collabs -> Handshake] /\ hs[c] \in Handshake
        /\ c \in Collabs /\ resp \in [Collabs -> [Agents -> Responses]]
        /\ Primary[c] \in SUBSET Agents /\ Initiator[c] \in Agents
    BY ChildFacts, CollaborationAssumption DEF IInv, TypeOK
  <1>2. /\ hs[c].phase = "idle" /\ UNCHANGED <<active, rows, usage, up>>
        /\ hs' = [hs EXCEPT ![c].phase = "handshake", ![c].batch = Primary[c]]
        /\ remembered' = remembered \cup {c}
    BY DEF Initiate
  <1>3. /\ hs' \in [Collabs -> Handshake] /\ Others(c) /\ hs'[c].phase = "handshake"
        /\ hs'[c].batch = Primary[c] /\ hs'[c].accepted = hs[c].accepted
        /\ hs'[c].team = hs[c].team /\ hs'[c].ranked = hs[c].ranked
    BY <1>1, <1>2 DEF Handshake, Others, Phases
  <1>4. \A p \in Agents : Received(p, "evaluating") \in Responses \ {"none", "accepted"}
    BY DEF Received, Responses
  <1>5. /\ resp' \in [Collabs -> [Agents -> Responses]]
        /\ \A d \in Collabs, q \in Agents : d # c \/ q \notin Primary[c] => resp'[d][q] = resp[d][q]
    BY <1>1, <1>4 DEF Initiate
  <1>6. session' \in [Collabs -> [Agents -> {"none", "live", "ended"}]]
    BY <1>1 DEF Initiate, TypeOK
  <1>7. TypeOK'
    BY <1>1, <1>2, <1>3, <1>5, <1>6 DEF TypeOK
  <1>8. hs[c].accepted = {} /\ \A p \in Agents : resp[c][p] = "none"
    BY <1>1, <1>2 DEF Talk, Unstarted
  <1>9. Asks(c)
    BY <1>1, <1>2, <1>3, <1>5, <1>8 DEF Asks, Leg
  <1>10. ASSUME NEW d \in Roots, d # c PROVE GoesOn(d)
    <2>1. d \in Collabs /\ hs'[d] = hs[d]
      BY <1>3, <1>10, ChildFacts DEF Others
    <2>2. \A q \in Agents : Leg(d, q)
      BY <1>5, <1>10, <2>1 DEF Leg
    <2> QED BY <2>1, <2>2, SameRoot
  <1>11. ASSUME NEW d \in Roots, NEW q \in Agents PROVE Covers(d, q)
    <2>1. Child(d, q) \in Collabs /\ Child(d, q) # c /\ d \in Collabs
      BY ChildFacts
    <2>2. hs'[Child(d, q)] = hs[Child(d, q)] /\ Keeps(Child(d, q))
      BY <1>3, <1>5, <2>1 DEF Others, Keeps
    <2>3. resp'[d][q] = resp[d][q] \/ hs[Child(d, q)].phase = "idle"
      BY <1>1, <1>5, <1>8, <2>1 DEF Talk, Covered
    <2> QED BY <2>2, <2>3 DEF Covers
  <1>12. \A d \in Roots : GoesOn(d) \/ Asks(d)
    <2> TAKE d \in Roots
    <2>1. CASE d = c
      BY <1>9, <2>1 DEF Asks
    <2>2. CASE d # c
      BY <1>10, <2>2
    <2> QED BY <2>1, <2>2
  <1>13. Talk'
    BY <1>1, <1>2, <1>7, <1>11, <1>12, TalkStep
  <1>14. Books'
    <2>1. \A d \in Collabs, q \in Agents : Books1(d, q)
      BY <1>2 DEF Books1
    <2>2. \A d \in Roots : d # c => hs'[d] = hs[d]
      BY <1>3, ChildFacts DEF Others
    <2>3. \A d \in Roots : Bills(d)
      BY <1>2, <1>3, <2>2 DEF Bills
    <2>4. \A d \in Roots : Closes(d)
      BY <1>2, <1>3, <2>2 DEF Closes, Ended
    <2> QED BY <1>1, <2>1, <2>3, <2>4, BooksStep
  <1> QED BY <1>7, <1>13, <1>14 DEF IInv

LEMMA DelegateStep ==
    ASSUME IInv, NEW c \in Collabs, NEW p \in Agents, NEW t \in Agents, Delegate(c, p, t)
    PROVE  IInv'
  <1> DEFINE d == Child(c, p)
  <1>1. /\ TypeOK /\ Talk /\ Books /\ hs \in [Collabs -> Handshake] /\ c \in Roots
        /\ d \in Collabs /\ d \notin Roots /\ d # c /\ hs[d] \in Handshake
        /\ resp \in [Collabs -> [Agents -> Responses]]
    BY ChildFacts DEF IInv, TypeOK, Delegate
  <1>2. /\ resp[c][p] \in InEvaluation /\ UNCHANGED <<active, session, rows, usage, up>>
        /\ hs' = [hs EXCEPT ![d].phase = "handshake", ![d].batch = {t}]
        /\ remembered' = remembered \cup {d}
        /\ resp' = [resp EXCEPT ![c][p] = "delegating", ![d][t] = Received(t, "evaluating")]
    BY DEF Delegate
  <1>3. Received(t, "evaluating") \in Responses /\ "delegating" \in Responses
    BY DEF Received, Responses
  <1>4. hs' \in [Collabs -> Handshake] /\ Others(d) /\ hs'[d].phase = "handshake"
    BY <1>1, <1>2 DEF Handshake, Others, Phases
  <1>5. /\ resp' \in [Collabs -> [Agents -> Responses]] /\ resp'[c][p] = "delegating"
        /\ \A e \in Collabs, q \in Agents :
             e # d /\ (e # c \/ q # p) => resp'[e][q] = resp[e][q]
    <2> HIDE DEF d
    <2> QED BY <1>1, <1>2, <1>3
  <1>6. TypeOK'
    BY <1>1, <1>2, <1>4, <1>5 DEF TypeOK
  <1>7. ASSUME NEW e \in Roots PROVE GoesOn(e)
    <2>1. e \in Collabs /\ hs'[e] = hs[e] /\ e # d
      BY <1>1, <1>4, ChildFacts DEF Others
    <2>2. \A q \in Agents : Leg(e, q)
      BY <1>2, <1>5, <2>1 DEF Leg, InEvaluation
    <2> QED BY <2>1, <2>2, SameRoot
  <1>8. ASSUME NEW e \in Roots, NEW q \in Agents PROVE Covers(e, q)
    <2> DEFINE f == Child(e, q)
    <2>1. f \in Collabs /\ f \notin Roots /\ f # c /\ e \in Collabs /\ e # d
      BY <1>1, ChildFacts
    <2>2. CASE e = c /\ q = p
      BY <1>4, <1>5, <2>2 DEF Covers
    <2>3. CASE e # c \/ q # p
      <3>1. f # d
        BY <1>1, <2>3, ChildFacts
      <3>2. hs'[f] = hs[f] /\ Keeps(f)
        BY <1>4, <1>5, <2>1, <3>1 DEF Others, Keeps
      <3>3. resp'[e][q] = resp[e][q]
        BY <1>5, <2>1, <2>3
      <3> QED BY <3>2, <3>3 DEF Covers
    <2> QED BY <2>2, <2>3
  <1>9. Talk'
    BY <1>1, <1>2, <1>6, <1>7, <1>8, TalkStep
  <1>10. Books'
    <2>1. \A e \in Collabs, q \in Agents : Books1(e, q)
      BY <1>2 DEF Books1
    <2>2. \A e \in Roots : hs'[e] = hs[e] /\ (e \in remembered' <=> e \in remembered)
      BY <1>1, <1>2, <1>4, ChildFacts DEF Others
    <2>3. \A e \in Roots : Bills(e)
      BY <1>2, <2>2 DEF Bills
    <2>4. \A e \in Roots : Closes(e)
      BY <1>2, <2>2 DEF Closes
    <2> QED BY <1>1, <2>1, <2>3, <2>4, BooksStep
  <1> QED BY <1>6, <1>9, <1>10 DEF IInv

LEMMA AnswerStep ==
    ASSUME IInv, NEW c \in Collabs, NEW p \in Agents,
           Answer(c, p) \/ Reevaluate(c, p) \/ AnswerCounter(c, p)
    PROVE  IInv'
  <1>1. c \in Roots /\ resp[c][p] \notin {"delegating", "accepted", "rejected"}
          => hs[Child(c, p)].phase = "idle"
    BY DEF IInv, Talk, Covered
  <1>2. CASE Accept(c, p) \/ (AnswerCounter(c, p) /\ AcceptProposal(c, p))
    <2>1. AcceptProposal(c, p) /\ resp[c][p] \in InEvaluation \cup {"countered"}
      BY <1>2 DEF Accept, AnswerCounter
    <2> QED BY <1>1, <2>1, AcceptStep DEF InEvaluation
  <1>3. CASE Reject(c, p) \/ (AnswerCounter(c, p) /\ Decline(c, p))
    <2>1. Decline(c, p) /\ resp[c][p] \in InEvaluation \cup {"overloaded", "countered"}
      BY <1>3 DEF Reject, AnswerCounter
    <2> QED BY <2>1, DeclineStep DEF InEvaluation
  <1>4. CASE Defer(c, p) \/ Reevaluate(c, p) \/ Counter(c, p)
    BY <1>4, ThinkStep
  <1>5. ASSUME NEW t \in Agents, Delegate(c, p, t) PROVE IInv'
    BY <1>5, DelegateStep
  <1> QED BY <1>2, <1>3, <1>4, <1>5 DEF Answer, AnswerCounter

----------------------------------------------------------------------------
(* The end *)

\* A step that is about no answer: a phase ends, the talk stays.
LEMMA EndsTalk ==
    ASSUME IInv, TypeOK', UNCHANGED <<resp, active>>, NEW cs \in SUBSET Roots,
           NEW from, NEW to, \/ from = "handshake" /\ to = "cancelled"
                             \/ from = "executing" /\ to = "completed",
           \A d \in Collabs : d \notin cs => hs'[d] = hs[d],
           \A d \in cs : /\ hs[d].phase = from /\ hs'[d].phase = to
                         /\ hs'[d].batch = hs[d].batch /\ hs'[d].ranked = hs[d].ranked
                         /\ hs'[d].accepted = hs[d].accepted /\ hs'[d].team = hs[d].team
    PROVE  Talk'
  <1>1. ASSUME NEW d \in Roots PROVE GoesOn(d)
    <2>1. d \in Collabs /\ \A q \in Agents : Leg(d, q)
      BY ChildFacts DEF Leg
    <2>2. CASE d \in cs
      BY <2>1, <2>2 DEF GoesOn
    <2>3. CASE d \notin cs
      BY <2>1, <2>3, SameRoot
    <2> QED BY <2>2, <2>3
  <1>2. ASSUME NEW d \in Roots, NEW q \in Agents PROVE Covers(d, q)
    <2>1. Child(d, q) \in Collabs /\ Child(d, q) \notin cs
      BY ChildFacts
    <2> QED BY <2>1 DEF Covers, Keeps
  <1> QED BY <1>1, <1>2, TalkStep DEF IInv

LEMMA StopStep ==
    ASSUME IInv, Stop
    PROVE  IInv'
  <1> DEFINE pending == {c \in Roots : hs[c].phase = "handshake"}
             family == UNION {Family(c) : c \in pending}
  <1>1. /\ TypeOK /\ Books /\ hs \in [Collabs -> Handshake]
    BY DEF IInv, TypeOK
  <1>2. /\ rows' = EndRows(family, AC_CANCELLED) /\ session' = EndSessions(pending)
        /\ remembered' = {} /\ up' = FALSE /\ UNCHANGED <<resp, active, usage>>
        /\ hs' = [c \in Collabs |-> IF c \in pending THEN [hs[c] EXCEPT !.phase = "cancelled"]
                                    ELSE hs[c]]
    BY DEF Stop
  <1>3. /\ \A d \in Collabs : d \notin pending => hs'[d] = hs[d]
        /\ \A d \in pending :
             /\ hs[d].phase = "handshake" /\ hs'[d].phase = "cancelled"
             /\ hs'[d].batch = hs[d].batch /\ hs'[d].ranked = hs[d].ranked
             /\ hs'[d].accepted = hs[d].accepted /\ hs'[d].team = hs[d].team
        /\ hs' \in [Collabs -> Handshake]
    <2>1. \A d \in pending : d \in Collabs /\ hs[d].phase = "handshake"
      BY ChildFacts
    <2>2. \A d \in Collabs : /\ [hs[d] EXCEPT !.phase = "cancelled"] \in Handshake
                             /\ hs[d] \in Handshake
      BY <1>1 DEF Handshake, Phases
    <2> HIDE DEF pending
    <2>3. \A d \in Collabs : hs'[d] = IF d \in pending THEN [hs[d] EXCEPT !.phase = "cancelled"]
                                      ELSE hs[d]
      BY <1>2
    <2>4. hs' \in [Collabs -> Handshake]
      BY <1>2, <2>2
    <2>5. \A d \in Collabs : d \notin pending => hs'[d] = hs[d]
      BY <2>3
    <2>6. ASSUME NEW d \in pending
          PROVE  /\ hs[d].phase = "handshake" /\ hs'[d].phase = "cancelled"
                 /\ hs'[d].batch = hs[d].batch /\ hs'[d].ranked = hs[d].ranked
                 /\ hs'[d].accepted = hs[d].accepted /\ hs'[d].team = hs[d].team
      <3>1. hs'[d] = [hs[d] EXCEPT !.phase = "cancelled"] /\ hs[d] \in Handshake
        BY <2>1, <2>2, <2>3
      <3> QED BY <2>1, <3>1 DEF Handshake
    <2> QED BY <2>4, <2>5, <2>6
  <1>4. /\ pending \in SUBSET Roots /\ family \in SUBSET Collabs /\ pending \subseteq family
    BY <1>1, FamilyTyped
  <1>5. \A d \in Roots \ pending : hs'[d].phase = hs[d].phase
    BY <1>3, ChildFacts
  <1> HIDE DEF pending, family
  <1>6. Books' /\ rows' \in [Collabs -> [Agents -> Row \cup {None}]]
    BY <1>1, <1>2, <1>3, <1>4, <1>5, CancelBooks
  <1>7. TypeOK'
    BY <1>1, <1>2, <1>3, <1>6, EndSessionsTyped DEF TypeOK
  <1>8. Talk'
    BY <1>2, <1>3, <1>4, <1>7, EndsTalk
  <1> QED BY <1>6, <1>7, <1>8 DEF IInv

LEMMA CompleteStep ==
    ASSUME IInv, NEW c \in Roots, Complete(c)
    PROVE  IInv'
  <1>1. /\ TypeOK /\ Books /\ hs \in [Collabs -> Handshake] /\ hs[c] \in Handshake /\ c \in Collabs
        /\ Family(c) \in SUBSET Collabs /\ c \in Family(c) /\ Family(c) \subseteq {c} \cup Children(c)
    BY ChildFacts, FamilyTyped DEF IInv, TypeOK
  <1>2. /\ rows' = EndRows(Family(c), AC_COMPLETED) /\ session' = EndSessions({c})
        /\ usage' = MeterRows(Family(c)) /\ remembered' = remembered \ Family(c)
        /\ hs[c].phase = "executing" /\ hs' = [hs EXCEPT ![c].phase = "completed"]
        /\ UNCHANGED <<resp, active, up>>
    BY DEF Complete
  <1>3. /\ hs' \in [Collabs -> Handshake] /\ Others(c) /\ hs'[c].phase = "completed"
        /\ hs'[c].batch = hs[c].batch /\ hs'[c].accepted = hs[c].accepted
        /\ hs'[c].team = hs[c].team /\ hs'[c].ranked = hs[c].ranked
    BY <1>1, <1>2 DEF Handshake, Others, Phases
  <1>4. AC_COMPLETED \in Reasons
    BY DEF Reasons, PlatformReasons
  <1>5. /\ EndRows(Family(c), AC_COMPLETED) \in [Collabs -> [Agents -> Row \cup {None}]]
        /\ \A d \in Collabs, p \in Agents :
             /\ d \notin Family(c) \/ ~IsActive(rows[d][p]) =>
                  EndRows(Family(c), AC_COMPLETED)[d][p] = rows[d][p]
             /\ d \in Family(c) /\ IsActive(rows[d][p]) =>
                  /\ EndRows(Family(c), AC_COMPLETED)[d][p] \in Row
                  /\ EndRows(Family(c), AC_COMPLETED)[d][p] # None
                  /\ EndRows(Family(c), AC_COMPLETED)[d][p].status = "terminated"
                  /\ EndRows(Family(c), AC_COMPLETED)[d][p].reason = AC_COMPLETED
    BY <1>1, <1>4, EndRowsShape
  <1>6. /\ usage' \in [Collabs -> [Agents -> Nat]]
        /\ \A d \in Collabs, p \in Agents :
             /\ d \notin Family(c) \/ ~IsActive(rows[d][p]) => usage'[d][p] = usage[d][p]
             /\ d \in Family(c) /\ IsActive(rows[d][p]) => usage'[d][p] = usage[d][p] + 1
    <2>1. \A d \in Collabs, p \in Agents : usage[d][p] \in Nat /\ usage[d][p] + 1 \in Nat
      BY <1>1 DEF TypeOK
    <2>2. \A d \in Collabs, p \in Agents :
            usage'[d][p] = IF d \in Family(c) /\ IsActive(rows[d][p])
                           THEN usage[d][p] + 1 ELSE usage[d][p]
      BY <1>2 DEF MeterRows
    <2>3. usage' = [d \in Collabs |-> [p \in Agents |-> usage'[d][p]]]
      BY <1>2 DEF MeterRows
    <2>4. \A d \in Collabs, p \in Agents : usage'[d][p] \in Nat
      BY <2>1, <2>2
    <2>5. usage' \in [Collabs -> [Agents -> Nat]]
      BY <2>3, <2>4
    <2> QED BY <2>2, <2>5
  <1>7. TypeOK'
    BY <1>1, <1>2, <1>3, <1>5, <1>6, EndSessionsTyped DEF TypeOK
  <1>8. Talk'
    BY <1>1, <1>2, <1>3, <1>7, EndsTalk DEF Others
  <1>9. Books'
    <2>1. \A d \in Collabs, p \in Agents : Books1(d, p)
      BY <1>2, <1>5, <1>6 DEF Books1
    <2>2. ASSUME NEW d \in Roots PROVE Bills(d)
      <3>1. CASE d = c
        BY <1>3, <3>1 DEF Bills
      <3>2. CASE d # c
        <4>1. d \in Collabs /\ hs'[d] = hs[d]
          BY <1>3, <3>2, ChildFacts DEF Others
        <4>2. \A e \in {d} \cup Children(d) : e \in Collabs /\ e \notin Family(c)
          BY <1>1, <3>2, <4>1, ChildFacts DEF Children
        <4> QED BY <1>6, <4>1, <4>2 DEF Bills
      <3> QED BY <3>1, <3>2
    <2>3. \A d \in Roots : d # c => hs'[d] = hs[d]
      BY <1>3, ChildFacts DEF Others
    <2>4. \A d \in Roots : Closes(d)
      BY <1>1, <1>2, <2>3 DEF Closes
    <2> QED BY <1>1, <2>1, <2>2, <2>4, BooksStep
  <1> QED BY <1>7, <1>8, <1>9 DEF IInv

LEMMA PartyStep ==
    ASSUME IInv, NEW c \in Collabs, NEW p \in Agents, Party(c, p)
    PROVE  IInv'
  <1>1. /\ TypeOK /\ Talk /\ Books /\ rows[c][p] \in Row
        /\ rows \in [Collabs -> [Agents -> Row \cup {None}]]
    BY DEF IInv, TypeOK, Party
  <1>2. PICK op \in PartyOps : /\ PartyMay(rows[c][p], op)
                               /\ rows' = [rows EXCEPT ![c][p] = PartyWrite(@, op)]
    BY DEF Party
  <1>3. UNCHANGED <<hs, resp, active, session, usage, remembered, up>>
    BY DEF Party
  <1> DEFINE w == PartyWrite(rows[c][p], op)
  <1>4. w \in Row /\ rows[c][p].status # "terminated"
    <2>1. op \in {"hold", "release", "suspend", "terminate"}
      BY CollaborationAssumption
    <2>2. None \in Reasons /\ "suspended" \in Statuses /\ "terminated" \in Statuses
      BY DEF Reasons, Statuses
    <2>3. CASE op = "hold"
      BY <1>1, <1>2, <2>3, RowWrites DEF PartyWrite, PartyMay
    <2>4. CASE op = "release"
      BY <1>1, <1>2, <2>4, RowWrites DEF PartyWrite, PartyMay
    <2>5. CASE op = "suspend"
      <3>1. /\ SetStatus(rows[c][p], "suspended", None) \in Row
            /\ SetStatus(rows[c][p], "suspended", None).status = "suspended"
        BY <1>1, <2>2 DEF SetStatus, Row
      <3>2. w = SetStatus(rows[c][p], "suspended", None)
        BY <2>5 DEF PartyWrite
      <3> QED BY <1>2, <2>5, <3>1, <3>2 DEF PartyMay
    <2>6. CASE op = "terminate"
      <3>1. /\ SetStatus(rows[c][p], "terminated", None) \in Row
            /\ SetStatus(rows[c][p], "terminated", None).status = "terminated"
        BY <1>1, <2>2 DEF SetStatus, Row
      <3>2. w = SetStatus(rows[c][p], "terminated", None)
        BY <2>6 DEF PartyWrite
      <3> QED BY <1>2, <2>6, <3>1, <3>2 DEF PartyMay, Terminal
    <2> QED BY <2>1, <2>3, <2>4, <2>5, <2>6
  <1>5. rows' = [rows EXCEPT ![c][p] = w]
    BY <1>2
  <1> HIDE DEF w
  <1>6. /\ rows' \in [Collabs -> [Agents -> Row \cup {None}]] /\ rows'[c][p] = w
        /\ \A d \in Collabs, q \in Agents : d # c \/ q # p => rows'[d][q] = rows[d][q]
    BY <1>1, <1>4, <1>5
  <1>7. TypeOK'
    BY <1>1, <1>3, <1>6 DEF TypeOK
  <1>8. Talk'
    BY <1>1, <1>3 DEF Talk, Unstarted, Consent, Asked, Covered
  <1>9. Books'
    <2>1. \A d \in Collabs, q \in Agents : Books1(d, q)
      BY <1>3, <1>4, <1>6 DEF Books1
    <2>2. \A d \in Roots : Bills(d)
      BY <1>3 DEF Bills
    <2>3. \A d \in Roots : Closes(d)
      BY <1>3 DEF Closes
    <2> QED BY <1>1, <2>1, <2>2, <2>3, BooksStep
  <1> QED BY <1>7, <1>8, <1>9 DEF IInv

----------------------------------------------------------------------------
(* The invariant *)

LEMMA IInvInit == Init => IInv
  <1> SUFFICES ASSUME Init PROVE IInv
    OBVIOUS
  <1>1. TypeOK
    <2>1. \A c \in Roots : Candidates(c) \in SUBSET Agents
      <3> TAKE c \in Roots
      <3>1. Ranked[c] \in Seq(Agents)
        BY CollaborationAssumption
      <3> QED BY <3>1 DEF Candidates
    <2>2. hs \in [Collabs -> Handshake]
      BY <2>1 DEF Init, Handshake, Phases
    <2>3. rows \in [Collabs -> [Agents -> Row \cup {None}]]
      BY DEF Init
    <2>4. resp \in [Collabs -> [Agents -> Responses]]
      BY DEF Init, Responses
    <2> QED BY <2>2, <2>3, <2>4 DEF Init, TypeOK
  <1>2. Talk
    BY ChildFacts DEF Init, Talk, Unstarted, Consent, Asked, Covered
  <1>3. Books
    <2>1. \A c \in Roots, p \in Agents : c \in Collabs /\ \A d \in Children(c) : d \in Collabs
      BY ChildFacts DEF Children
    <2> QED BY <2>1 DEF Init, Books, Metered, Unbilled, Closed, Ended
  <1> QED BY <1>1, <1>2, <1>3 DEF IInv

LEMMA IInvStep == IInv /\ [Next]_vars => IInv'
  <1> SUFFICES ASSUME IInv, [Next]_vars PROVE IInv'
    OBVIOUS
  <1>1. CASE UNCHANGED vars
    BY <1>1 DEF vars, IInv, TypeOK, Talk, Unstarted, Consent, Asked, Covered, Books, Metered,
                Unbilled, Closed
  <1>2. ASSUME NEW c \in Roots, Initiate(c) PROVE IInv'
    BY <1>2, InitiateStep
  <1>3. ASSUME NEW c \in Roots, Timeout(c) PROVE IInv'
    BY <1>3, TimeoutStep
  <1>4. ASSUME NEW c \in Roots, Complete(c) PROVE IInv'
    BY <1>4, CompleteStep
  <1>5. ASSUME NEW c \in Collabs, NEW p \in Agents,
               Answer(c, p) \/ Reevaluate(c, p) \/ AnswerCounter(c, p)
        PROVE  IInv'
    BY <1>5, AnswerStep
  <1>6. ASSUME NEW c \in Collabs, NEW p \in Agents, Party(c, p) PROVE IInv'
    BY <1>6, PartyStep
  <1>7. ASSUME NEW c \in Roots, NEW p \in Agents, DelegationTimeout(c, p) PROVE IInv'
    BY <1>7, DelegationTimeoutStep
  <1>8. ASSUME NEW c \in Roots, NEW p \in Agents, AfterDelegation(c, p) PROVE IInv'
    BY <1>8, AfterDelegationStep
  <1>9. CASE Stop
    BY <1>9, StopStep
  <1> QED BY <1>1, <1>2, <1>3, <1>4, <1>5, <1>6, <1>7, <1>8, <1>9 DEF Next

LEMMA Invariance == Spec => []IInv
  BY IInvInit, IInvStep, PTL DEF Spec

----------------------------------------------------------------------------
\* TypesHold: whatever the ranking, the caps and the parties do, handshakes,
\* answers, sessions, rows and counts stay within what the code declares.
THEOREM TypesHold == Spec => []TypeOK
  <1>1. IInv => TypeOK
    BY DEF IInv
  <1> QED BY <1>1, Invariance, PTL

\* OnlyAcceptorsExecuteHolds: no round of fallback, late answer or closing
\* window of the coordinator puts a partner into a team it did not accept.
THEOREM OnlyAcceptorsExecuteHolds == Spec => []OnlyAcceptorsExecute
  <1>1. IInv => OnlyAcceptorsExecute
    BY DEF IInv, Talk, Consent, OnlyAcceptorsExecute
  <1> QED BY <1>1, Invariance, PTL

\* MeteredOnceHolds: the bridge meters an agreement at most once, finally, and
\* never for a collaboration that was cancelled.
THEOREM MeteredOnceHolds == Spec => []MeteredOnce
  <1>1. IInv => MeteredOnce
    BY DEF IInv, Books, Metered, Unbilled, MeteredOnce
  <1> QED BY <1>1, Invariance, PTL

\* PromiseBackedHolds: the fulfillment gate signs upstream only what a
\* downstream provider accepted.
THEOREM PromiseBackedHolds == Spec => []PromiseBacked
  <1>1. IInv => PromiseBacked
    BY DEF IInv, Talk, Covered, PromiseBacked
  <1> QED BY <1>1, Invariance, PTL

----------------------------------------------------------------------------
(* What has ended stays without active rows, but for the end of a pause *)

Lasts(c) == \A p \in Agents :
    hs'[c].phase \in Ended /\ IsActive(rows'[c][p]) =>
        /\ hs[c].phase \in Ended
        /\ IsActive(rows[c][p]) \/ IsHeld(rows[c][p])

Last == \A c \in Roots : Lasts(c)

LEMMA QuietLasts ==
    ASSUME UNCHANGED rows, \A c \in Roots : hs'[c].phase \in Ended => hs[c].phase \in Ended
    PROVE  Last
  BY DEF Last, Lasts

\* The end closes the active rows of every root that ends.
LEMMA EndLasts ==
    ASSUME TypeOK, NEW family \in SUBSET Collabs, NEW reason \in Reasons,
           rows' = EndRows(family, reason),
           \A c \in Roots : c \in family \/ hs'[c].phase = hs[c].phase
    PROVE  Last
  <1>1. \A d \in Collabs, p \in Agents :
          /\ d \notin family \/ ~IsActive(rows[d][p]) => EndRows(family, reason)[d][p] = rows[d][p]
          /\ d \in family /\ IsActive(rows[d][p]) =>
               /\ EndRows(family, reason)[d][p] \in Row
               /\ EndRows(family, reason)[d][p] # None
               /\ EndRows(family, reason)[d][p].status = "terminated"
               /\ EndRows(family, reason)[d][p].reason = reason
    BY EndRowsShape, Zenon
  <1>2. \A c \in Roots, p \in Agents :
          /\ c \notin family => rows'[c][p] = rows[c][p]
          /\ c \in family => ~IsActive(rows'[c][p])
    BY <1>1, ChildFacts DEF IsActive
  <1> QED BY <1>2 DEF Last, Lasts

\* A row lands only while the bridge remembers the proposal: before the end.
LEMMA AcceptLasts ==
    ASSUME IInv, NEW c \in Collabs, NEW p \in Agents, AcceptProposal(c, p)
    PROVE  Last
  <1>1. /\ TypeOK /\ Closed /\ hs \in [Collabs -> Handshake] /\ hs[c] \in Handshake
        /\ rows \in [Collabs -> [Agents -> Row \cup {None}]]
    BY DEF IInv, Books, TypeOK
  <1>2. \A d \in Roots : hs'[d].phase \in Ended => hs[d].phase \in Ended
    <2>1. CASE UNCHANGED hs
      BY <2>1
    <2>2. CASE c \notin Roots /\ hs' = [hs EXCEPT ![c].phase = "secured"]
      BY <1>1, <2>2, ChildFacts
    <2>3. CASE c \in Roots /\ Open(c, p) /\ hs' = [hs EXCEPT ![c].accepted = @ \cup {p}]
      BY <1>1, <2>3, ChildFacts DEF Handshake
    <2>4. CASE c \in Roots /\ Start(c, hs[c].accepted \cup {p}, hs[c].declined)
      <3> DEFINE accepted == hs[c].accepted \cup {p}
      <3>1. /\ accepted \in SUBSET Agents /\ accepted # {}
            /\ hs[c].declined \in SUBSET Agents /\ Start(c, accepted, hs[c].declined)
        BY <1>1, <2>4 DEF Handshake
      <3> HIDE DEF accepted
      <3>2. /\ \A d \in Collabs : d # c => hs'[d] = hs[d]
            /\ hs'[c].phase = "executing"
        BY <1>1, <2>4, <3>1, StartMeans
      <3> QED BY <3>2, ChildFacts DEF Ended
    <2> QED BY <2>1, <2>2, <2>3, <2>4 DEF AcceptProposal
  <1>3. CASE UNCHANGED rows
    BY <1>2, <1>3, QuietLasts
  <1>4. CASE c \in remembered /\ \E r : rows' = [rows EXCEPT ![c][p] = r]
    <2>1. \A d \in Roots, q \in Agents : d # c => rows'[d][q] = rows[d][q]
      BY <1>1, <1>4, ChildFacts
    <2>2. c \in Roots => hs[c].phase \notin Ended
      BY <1>1, <1>4 DEF Closed
    <2> QED BY <1>2, <2>1, <2>2 DEF Last, Lasts
  <1> QED BY <1>3, <1>4 DEF AcceptProposal

LEMMA GiveUpLasts ==
    ASSUME IInv, NEW c \in Roots, NEW answered, NEW declined, GiveUp(c, answered, declined)
    PROVE  Last
  <1>1. /\ TypeOK /\ hs \in [Collabs -> Handshake] /\ c \in Collabs /\ hs[c] \in Handshake
    BY ChildFacts DEF IInv, TypeOK
  <1>2. CASE UNCHANGED rows /\ hs'[c].phase = hs[c].phase /\ Others(c)
    BY <1>2, QuietLasts, ChildFacts DEF Others
  <1>3. CASE hs' = [hs EXCEPT ![c].phase = "cancelled", ![c].declined = declined]
             /\ CancelEffects({c})
    <2>1. rows' = EndRows(Family(c), AC_CANCELLED)
      <3>1. UNION {Family(d) : d \in {c}} = Family(c)
        OBVIOUS
      <3> QED BY <1>3, <3>1 DEF CancelEffects
    <2>2. AC_CANCELLED \in Reasons
      BY DEF Reasons, PlatformReasons
    <2>3. \A d \in Roots : d \in Family(c) \/ hs'[d].phase = hs[d].phase
      BY <1>1, <1>3, ChildFacts, FamilyTyped
    <2> QED BY <1>1, <2>1, <2>2, <2>3, FamilyTyped, EndLasts
  <1> DEFINE batch == NextBatch(c)
             rest == Untried(c) \ batch
  <1>4. CASE /\ hs' = [hs EXCEPT ![c].batch = batch, ![c].accepted = {},
                         ![c].declined = {}, ![c].fallback = TRUE, ![c].ranked = rest]
             /\ UNCHANGED rows
    <2> HIDE DEF batch, rest
    <2>1. hs' = [hs EXCEPT ![c] = [hs[c] EXCEPT !.batch = batch, !.accepted = {},
                    !.declined = {}, !.fallback = TRUE, !.ranked = rest]]
      BY <1>4
    <2>2. hs'[c].phase = hs[c].phase /\ Others(c)
      BY <1>1, <2>1 DEF Handshake, Others
    <2> QED BY <1>2, <1>4, <2>2
  <1> QED BY <1>3, <1>4 DEF GiveUp

LEMMA DeclineLasts ==
    ASSUME IInv, NEW c \in Collabs, NEW p \in Agents, Decline(c, p)
    PROVE  Last
  <1> DEFINE declined == hs[c].declined \cup {p}
  <1>1. /\ TypeOK /\ hs \in [Collabs -> Handshake] /\ hs[c] \in Handshake
        /\ declined \in SUBSET Agents /\ hs[c].accepted \in SUBSET Agents
    BY DEF IInv, TypeOK, Handshake
  <1>2. CASE c \in Roots /\ \E answered : GiveUp(c, answered, declined)
    BY <1>2, GiveUpLasts
  <1>3. CASE UNCHANGED hs /\ UNCHANGED rows
    BY <1>3, QuietLasts
  <1>4. CASE UNCHANGED rows /\ c \notin Roots /\ hs' = [hs EXCEPT ![c].phase = "refused"]
    <2>1. \A d \in Roots : hs'[d].phase = hs[d].phase
      BY <1>1, <1>4, ChildFacts
    <2> QED BY <1>4, <2>1, QuietLasts
  <1>5. CASE UNCHANGED rows /\ c \in Roots /\ hs' = [hs EXCEPT ![c].declined = declined]
    <2>1. \A d \in Roots : hs'[d].phase = hs[d].phase
      BY <1>1, <1>5, ChildFacts DEF Handshake
    <2> QED BY <1>5, <2>1, QuietLasts
  <1>6. CASE UNCHANGED rows /\ c \in Roots /\ hs[c].accepted # {}
             /\ Start(c, hs[c].accepted, declined)
    <2> HIDE DEF declined
    <2>1. /\ \A d \in Collabs : d # c => hs'[d] = hs[d]
          /\ hs'[c].phase = "executing"
      BY <1>1, <1>6, StartMeans
    <2>2. \A d \in Roots : hs'[d].phase \in Ended => hs[d].phase \in Ended
      BY <2>1, ChildFacts DEF Ended
    <2> QED BY <1>6, <2>2, QuietLasts
  <1> QED BY <1>2, <1>3, <1>4, <1>5, <1>6 DEF Decline

\* The partners' answers.
LEMMA AnswerLasts ==
    ASSUME IInv, NEW c \in Collabs, NEW p \in Agents,
           Answer(c, p) \/ Reevaluate(c, p) \/ AnswerCounter(c, p)
    PROVE  Last
  <1>1. hs \in [Collabs -> Handshake]
    BY DEF IInv, TypeOK
  <1>2. CASE AcceptProposal(c, p)
    BY <1>2, AcceptLasts
  <1>3. CASE Decline(c, p)
    BY <1>3, DeclineLasts
  <1>4. CASE Defer(c, p) \/ Reevaluate(c, p) \/ Counter(c, p)
    <2>1. /\ UNCHANGED rows
          /\ hs' = hs \/ (c \notin Roots /\ hs' = [hs EXCEPT ![c].phase = "refused"])
      BY <1>4 DEF Defer, Reevaluate, Counter
    <2>2. \A d \in Roots : hs'[d].phase = hs[d].phase
      BY <1>1, <2>1, ChildFacts
    <2> QED BY <2>1, <2>2, QuietLasts
  <1>5. ASSUME NEW t \in Agents, Delegate(c, p, t) PROVE Last
    <2>1. /\ UNCHANGED rows /\ c \in Roots
          /\ hs' = [hs EXCEPT ![Child(c, p)].phase = "handshake", ![Child(c, p)].batch = {t}]
      BY <1>5 DEF Delegate
    <2>2. \A d \in Roots : hs'[d].phase = hs[d].phase
      BY <1>1, <2>1, ChildFacts
    <2> QED BY <2>1, <2>2, QuietLasts
  <1> QED BY <1>2, <1>3, <1>4, <1>5 DEF Answer, AnswerCounter, Accept, Reject

\* Completion and stop end the rows of what they end.
LEMMA CompleteLasts ==
    ASSUME IInv, NEW c \in Roots, Complete(c)
    PROVE  Last
  <1>1. /\ TypeOK /\ hs \in [Collabs -> Handshake] /\ c \in Collabs /\ hs[c] \in Handshake
    BY ChildFacts DEF IInv, TypeOK
  <1>2. AC_COMPLETED \in Reasons
    BY DEF Reasons, PlatformReasons
  <1>3. \A d \in Roots : d \in Family(c) \/ hs'[d].phase = hs[d].phase
    BY <1>1, ChildFacts, FamilyTyped DEF Complete
  <1> QED BY <1>1, <1>2, <1>3, FamilyTyped, EndLasts DEF Complete

LEMMA StopLasts ==
    ASSUME IInv, Stop
    PROVE  Last
  <1> DEFINE pending == {c \in Roots : hs[c].phase = "handshake"}
             family == UNION {Family(c) : c \in pending}
  <1>1. TypeOK
    BY DEF IInv
  <1>2. AC_CANCELLED \in Reasons
    BY DEF Reasons, PlatformReasons
  <1>3. /\ rows' = EndRows(family, AC_CANCELLED)
        /\ hs' = [c \in Collabs |-> IF c \in pending THEN [hs[c] EXCEPT !.phase = "cancelled"]
                                    ELSE hs[c]]
    BY DEF Stop
  <1>4. family \in SUBSET Collabs /\ pending \subseteq family
    BY <1>1, FamilyTyped
  <1>5. \A d \in Roots : d \in family \/ hs'[d].phase = hs[d].phase
    BY <1>3, <1>4, ChildFacts
  <1> HIDE DEF family
  <1> QED BY <1>1, <1>2, <1>3, <1>4, <1>5, EndLasts

\* A party makes active only what was held.
LEMMA PartyLasts ==
    ASSUME IInv, NEW c \in Collabs, NEW p \in Agents, Party(c, p)
    PROVE  Last
  <1>1. UNCHANGED hs /\ rows[c][p] # None /\ rows[c][p] \in Row
        /\ rows \in [Collabs -> [Agents -> Row \cup {None}]]
    BY DEF IInv, TypeOK, Party
  <1>2. PICK op \in PartyOps : /\ PartyMay(rows[c][p], op)
                               /\ rows' = [rows EXCEPT ![c][p] = PartyWrite(@, op)]
    BY DEF Party
  <1>3. PartyWrite(rows[c][p], op).status = "active" => IsHeld(rows[c][p])
    <2>1. op \in {"hold", "release", "suspend", "terminate"}
      BY CollaborationAssumption
    <2>2. None \in Reasons /\ "suspended" \in Statuses /\ "terminated" \in Statuses
      BY DEF Reasons, Statuses
    <2>3. CASE op = "hold"
      BY <1>1, <2>3, RowWrites DEF PartyWrite
    <2>4. CASE op = "release"
      BY <1>1, <1>2, <2>4 DEF PartyMay, IsHeld
    <2>5. CASE op = "suspend"
      BY <1>1, <2>2, <2>5 DEF PartyWrite, SetStatus, Row
    <2>6. CASE op = "terminate"
      BY <1>1, <2>2, <2>6 DEF PartyWrite, SetStatus, Row
    <2> QED BY <2>1, <2>3, <2>4, <2>5, <2>6
  <1> DEFINE w == PartyWrite(rows[c][p], op)
  <1>4. /\ rows'[c][p] = w
        /\ \A d \in Collabs, q \in Agents : d # c \/ q # p => rows'[d][q] = rows[d][q]
    BY <1>1, <1>2
  <1>5. IsActive(rows'[c][p]) => IsHeld(rows[c][p])
    BY <1>3, <1>4 DEF IsActive
  <1> HIDE DEF w
  <1> QED BY <1>1, <1>4, <1>5, ChildFacts DEF Last, Lasts

LEMMA NextLasts == IInv /\ [Next]_vars => Last
  <1> SUFFICES ASSUME IInv, [Next]_vars PROVE Last
    OBVIOUS
  <1>0. hs \in [Collabs -> Handshake]
    BY DEF IInv, TypeOK
  <1>1. CASE UNCHANGED vars
    BY <1>1, QuietLasts DEF vars
  <1>2. ASSUME NEW c \in Roots, Initiate(c) PROVE Last
    <2>1. UNCHANGED rows /\ hs' = [hs EXCEPT ![c].phase = "handshake", ![c].batch = Primary[c]]
      BY <1>2 DEF Initiate
    <2>2. \A d \in Roots : hs'[d].phase \in Ended => hs[d].phase \in Ended
      <3>1. hs[c] \in Handshake /\ c \in Collabs
        BY <1>0, ChildFacts
      <3> QED BY <1>0, <2>1, <3>1, ChildFacts DEF Ended, Handshake
    <2> QED BY <2>1, <2>2, QuietLasts
  <1>3. ASSUME NEW c \in Roots, Timeout(c) PROVE Last
    <2>1. CASE hs[c].accepted # {} /\ Start(c, hs[c].accepted, hs[c].declined) /\ UNCHANGED rows
      <3>1. hs[c].accepted \in SUBSET Agents /\ hs[c].declined \in SUBSET Agents
        BY <1>0, ChildFacts DEF Handshake
      <3>2. /\ \A d \in Collabs : d # c => hs'[d] = hs[d]
            /\ hs'[c].phase = "executing"
        BY <2>1, <3>1, StartMeans DEF IInv
      <3>3. \A d \in Roots : hs'[d].phase \in Ended => hs[d].phase \in Ended
        BY <3>2, ChildFacts DEF Ended
      <3> QED BY <2>1, <3>3, QuietLasts
    <2>2. CASE GiveUp(c, resp, hs[c].declined)
      BY <2>2, GiveUpLasts
    <2> QED BY <1>3, <2>1, <2>2 DEF Timeout
  <1>4. ASSUME NEW c \in Collabs, NEW p \in Agents,
               Answer(c, p) \/ Reevaluate(c, p) \/ AnswerCounter(c, p)
        PROVE  Last
    BY <1>4, AnswerLasts
  <1>5. ASSUME NEW c \in Roots, NEW p \in Agents, DelegationTimeout(c, p) PROVE Last
    <2>1. UNCHANGED rows /\ hs' = [hs EXCEPT ![Child(c, p)].phase = "refused"]
      BY <1>5 DEF DelegationTimeout
    <2>2. \A d \in Roots : hs'[d].phase = hs[d].phase
      BY <1>0, <2>1, ChildFacts
    <2> QED BY <2>1, <2>2, QuietLasts
  <1>6. ASSUME NEW c \in Roots, NEW p \in Agents, AfterDelegation(c, p) PROVE Last
    BY <1>6, AcceptLasts, DeclineLasts, ChildFacts DEF AfterDelegation
  <1> QED BY <1>1, <1>2, <1>3, <1>4, <1>5, <1>6, CompleteLasts, PartyLasts, StopLasts DEF Next

\* RowsEndWithCollaborationHolds: no end of a collaboration leaves one of its
\* agreements active, and none becomes active afterwards but by the end of a
\* pause, whatever the parties, late accepts and the stop of the runtime do.
THEOREM RowsEndWithCollaborationHolds == Spec => RowsEndWithCollaboration
  <1>1. ASSUME IInv, [Next]_vars
        PROVE  \A c \in Roots, p \in Agents :
                 hs'[c].phase \in Ended /\ IsActive(rows'[c][p]) =>
                    /\ hs[c].phase \in Ended
                    /\ IsActive(rows[c][p]) \/ IsHeld(rows[c][p])
    BY <1>1, NextLasts DEF Last, Lasts
  <1> QED BY <1>1, Invariance, PTL DEF Spec, RowsEndWithCollaboration
=============================================================================
