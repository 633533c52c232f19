---------------------------- MODULE ElectionProofs ----------------------------
(***************************************************************************)
(* The safety of the coordinator election, for every number of nodes, ttl  *)
(* and bound on the terms.                                                 *)
(***************************************************************************)
EXTENDS Election, TLAPS

\* An abdicated term was seen by the node that abdicated it; StartClaim goes
\* beyond everything seen, which is what makes a yield final.
YieldsAreSeen == \A m \in yields : m.term <= seen_term[m.from]

\* The inductive invariant.
IInv == TypeOK /\ LeadersAreElected /\ TermsAreSeen /\ YieldIsFinal /\ YieldsAreSeen

\* A lease just taken has the whole ttl left and is a proper lease.
LEMMA FreshIsHeld ==
    ASSUME NEW n \in Node, NEW t \in Term
    PROVE  /\ Fresh(n, t) \in Held
           /\ Fresh(n, t) # None
           /\ Fresh(n, t).holder = n
           /\ Fresh(n, t).term = t
           /\ Fresh(n, t).left = Ttl
BY ElectionAssumption DEF Fresh, Held, Term

\* What a node has seen only grows, and covers the term just observed.
LEMMA ObservesGrows ==
    ASSUME NEW n \in Node, NEW t \in Term, seen_term \in [Node -> Term], Observes(n, t)
    PROVE  /\ seen_term' \in [Node -> Term]
           /\ \A k \in Node : seen_term'[k] >= seen_term[k]
           /\ seen_term'[n] >= t
BY ElectionAssumption DEF Observes, HigherOf, Term

\* Types: every step of every operation keeps leases, terms and announcements
\* well formed.
LEMMA TypeStep == TypeOK /\ [Next]_vars => TypeOK'
<1> SUFFICES ASSUME TypeOK, [Next]_vars PROVE TypeOK'
  OBVIOUS
<1> USE DEF TypeOK
<1>1. ASSUME NEW n \in Node, StartClaim(n) PROVE TypeOK'
  <2>1. seen_term[n] + 1 \in Term /\ seen_term'[n] = seen_term[n] + 1
    BY <1>1, ElectionAssumption DEF StartClaim, Term
  <2>2. seen_term' \in [Node -> Term]
    BY <1>1, <2>1 DEF StartClaim
  <2>3. held' \in [Node -> Held \union {None}]
    BY <1>1, <2>1, FreshIsHeld DEF StartClaim
  <2>4. Announce(n, seen_term'[n]) \in Announcement
    BY <2>1 DEF Announce, Announcement
  <2> QED BY <1>1, <2>2, <2>3, <2>4 DEF StartClaim
<1>2. ASSUME NEW n \in Node, NEW m \in leases, OnLease(n, m) PROVE TypeOK'
  <2>1. m.from \in Node /\ m.term \in Term
    BY DEF Announcement
  <2>2. seen_term' \in [Node -> Term]
    BY <1>2, <2>1, ObservesGrows DEF OnLease
  <2>3. held' \in [Node -> Held \union {None}]
    BY <1>2, <2>1, FreshIsHeld DEF OnLease
  <2>4. IsCoordinator(n) => Announce(n, held[n].term) \in Announcement
    BY DEF IsCoordinator, Held, Announce, Announcement
  <2> QED BY <1>2, <2>2, <2>3, <2>4 DEF OnLease
<1>3. ASSUME NEW n \in Node, NEW m \in claims, OnClaim(n, m) PROVE TypeOK'
  <2>1. m.from \in Node /\ m.term \in Term
    BY DEF Announcement
  <2>2. seen_term' \in [Node -> Term]
    BY <1>3, <2>1, ObservesGrows DEF OnClaim
  <2>3. held' \in [Node -> Held \union {None}]
    BY <1>3 DEF OnClaim
  <2>4. IsCoordinator(n) => Announce(n, held[n].term) \in Announcement
    BY DEF IsCoordinator, Held, Announce, Announcement
  <2> QED BY <1>3, <2>2, <2>3, <2>4 DEF OnClaim
<1>4. ASSUME NEW n \in Node, NEW m \in yields, OnYield(n, m) PROVE TypeOK'
  <2>1. m.from \in Node /\ m.term \in Term
    BY DEF Announcement
  <2>2. seen_term' \in [Node -> Term]
    BY <1>4, <2>1, ObservesGrows DEF OnYield
  <2> QED BY <1>4, <2>2 DEF OnYield, msgs
<1>5. ASSUME NEW n \in Node, Tick(n) PROVE TypeOK'
  <2>1. held[n] \in Held
    BY <1>5 DEF Tick
  <2>2. Fresh(n, held[n].term) \in Held
    BY <2>1, FreshIsHeld DEF Held
  <2>3. held' \in [Node -> Held \union {None}]
    BY <1>5, <2>1, <2>2 DEF Tick
  <2>4. Announce(n, held[n].term) \in Announcement
    BY <2>1 DEF Held, Announce, Announcement
  <2> QED BY <1>5, <2>3, <2>4 DEF Tick
<1>6. ASSUME NEW n \in Node, AdvanceClock(n) PROVE TypeOK'
  <2>1. held[n] \in Held
    BY <1>6 DEF AdvanceClock
  <2>2. [held[n] EXCEPT !.left = @ - 1] \in Held
    BY <1>6, <2>1, ElectionAssumption DEF AdvanceClock, Held
  <2> QED BY <1>6, <2>2 DEF AdvanceClock, msgs
<1>7. CASE UNCHANGED vars
  BY <1>7 DEF vars, msgs
<1> QED BY <1>1, <1>2, <1>3, <1>4, <1>5, <1>6, <1>7 DEF Next
\* Announcements are never taken back.
LEMMA MsgsGrow ==
    [Next]_vars => leases \subseteq leases' /\ claims \subseteq claims'
                   /\ yields \subseteq yields'
BY DEF Next, vars, msgs, StartClaim, OnLease, OnClaim, OnYield, Tick, AdvanceClock

\* What a node has seen only grows.
LEMMA SeenGrows ==
    ASSUME TypeOK, [Next]_vars, NEW k \in Node
    PROVE  seen_term'[k] >= seen_term[k]
<1> USE DEF TypeOK
<1>0. seen_term[k] \in Nat
  BY ElectionAssumption DEF Term
<1>1. ASSUME NEW n \in Node, NEW t \in Term, Observes(n, t)
      PROVE  seen_term'[k] >= seen_term[k]
  BY <1>1, ObservesGrows
<1>2. \A m \in leases \union claims \union yields : m.term \in Term
  BY DEF Announcement
<1>3. ASSUME NEW n \in Node, StartClaim(n) PROVE seen_term'[k] >= seen_term[k]
  BY <1>0, <1>3 DEF StartClaim
<1>4. CASE UNCHANGED seen_term
  BY <1>0, <1>4
<1>5. ASSUME NEW n \in Node, Tick(n) \/ AdvanceClock(n) PROVE UNCHANGED seen_term
  BY <1>5 DEF Tick, AdvanceClock
<1>6. UNCHANGED vars => UNCHANGED seen_term
  BY DEF vars
<1> QED BY <1>1, <1>2, <1>3, <1>4, <1>5, <1>6 DEF Next, OnLease, OnClaim, OnYield

\* What the belief of node n may become in one step: what it was, up to its
\* clock; nothing; a lease somebody announced; or a campaign of its own beyond
\* every term it has seen.
Keeps(n) == /\ held[n] # None /\ held'[n] # None
            /\ held'[n].holder = held[n].holder /\ held'[n].term = held[n].term
Adopts(n) == \E m \in leases : /\ m.from # n
                               /\ held'[n] = Fresh(m.from, m.term)
                               /\ seen_term'[n] >= m.term
Campaigns(n) == /\ held'[n] = Fresh(n, seen_term'[n])
                /\ seen_term'[n] > seen_term[n]
                /\ Announce(n, seen_term'[n]) \in claims'

\* Every step moves every node's belief in one of these ways.
LEMMA BeliefStep ==
    ASSUME TypeOK, [Next]_vars, NEW k \in Node
    PROVE  held'[k] = None \/ Keeps(k) \/ Adopts(k) \/ Campaigns(k)
<1> USE DEF TypeOK
<1>0. CASE held'[k] = held[k]
  BY <1>0 DEF Keeps
<1>1. ASSUME NEW n \in Node, StartClaim(n)
      PROVE  held'[k] = held[k] \/ Campaigns(k)
  <2>1. CASE n = k
    <3>1. seen_term'[k] = seen_term[k] + 1 /\ seen_term[k] \in Nat
      BY <1>1, <2>1, ElectionAssumption DEF StartClaim, Term
    <3>2. held'[k] = Fresh(k, seen_term'[k])
      BY <1>1, <2>1 DEF StartClaim
    <3> QED BY <1>1, <2>1, <3>1, <3>2 DEF Campaigns, StartClaim
  <2>2. CASE n # k
    BY <1>1, <2>2 DEF StartClaim
  <2> QED BY <2>1, <2>2
<1>2. ASSUME NEW n \in Node, NEW m \in leases, OnLease(n, m)
      PROVE  held'[k] = held[k] \/ Adopts(k)
  <2>1. m.from \in Node /\ m.term \in Term
    BY DEF Announcement
  <2>2. seen_term'[n] >= m.term
    BY <1>2, <2>1, ObservesGrows DEF OnLease
  <2> QED BY <1>2, <2>2 DEF OnLease, Adopts
<1>3. ASSUME NEW n \in Node, NEW m \in claims, OnClaim(n, m)
      PROVE  held'[k] = held[k] \/ held'[k] = None
  BY <1>3 DEF OnClaim
<1>4. ASSUME NEW n \in Node, NEW m \in yields, OnYield(n, m)
      PROVE  held'[k] = held[k] \/ held'[k] = None
  BY <1>4 DEF OnYield
<1>5. ASSUME NEW n \in Node, Tick(n)
      PROVE  held'[k] = held[k] \/ held'[k] = None \/ Keeps(k)
  <2>1. CASE n = k
    <3>1. held[k] # None /\ held[k] \in Held /\ held[k].term \in Term
      BY <1>5, <2>1 DEF Tick, Held
    <3>2. \/ held'[k] = None \/ held'[k] = held[k]
          \/ held[k].holder = k /\ held'[k] = Fresh(k, held[k].term)
      BY <1>5, <2>1, <3>1 DEF Tick
    <3> QED BY <3>1, <3>2, FreshIsHeld DEF Keeps
  <2>2. CASE n # k
    BY <1>5, <2>2 DEF Tick
  <2> QED BY <2>1, <2>2
<1>6. ASSUME NEW n \in Node, AdvanceClock(n)
      PROVE  held'[k] = held[k] \/ Keeps(k)
  <2>1. CASE n = k
    <3>1. held[k] # None /\ held[k] \in Held
      BY <1>6, <2>1 DEF AdvanceClock
    <3>2. held'[k] = [held[k] EXCEPT !.left = @ - 1]
      BY <1>6, <2>1 DEF AdvanceClock
    <3>3. held'[k] \in Held
      BY <1>6, <2>1, <3>1, <3>2, ElectionAssumption DEF AdvanceClock, Held
    <3>4. held'[k].holder = held[k].holder /\ held'[k].term = held[k].term
      BY <3>1, <3>2 DEF Held
    <3>5. held'[k] # None
      BY <3>3, ElectionAssumption DEF Held, Term
    <3> QED BY <3>1, <3>4, <3>5 DEF Keeps
  <2>2. CASE n # k
    BY <1>6, <2>2 DEF AdvanceClock
  <2> QED BY <2>1, <2>2
<1>7. CASE UNCHANGED vars
  BY <1>0, <1>7 DEF vars
<1> QED BY <1>0, <1>1, <1>2, <1>3, <1>4, <1>5, <1>6, <1>7 DEF Next

\* Only a leader announces a lease, and it announces its own.
LEMMA NewLease ==
    ASSUME TypeOK, [Next]_vars, NEW m \in leases'
    PROVE  \/ m \in leases
           \/ \E n \in Node : IsCoordinator(n) /\ m = Announce(n, held[n].term)
BY DEF Next, vars, msgs, StartClaim, OnLease, OnClaim, OnYield, Tick,
       AdvanceClock, IsCoordinator

\* Only a leader yields, it yields the term it leads, and it stops leading in
\* the same step.
LEMMA NewYield ==
    ASSUME TypeOK, [Next]_vars, NEW m \in yields'
    PROVE  \/ m \in yields
           \/ \E n \in Node : /\ IsCoordinator(n)
                              /\ m = Announce(n, held[n].term)
                              /\ held'[n] = None \/ held'[n].holder # n
<1> USE DEF TypeOK
<1>1. ASSUME NEW n \in Node, NEW l \in leases, OnLease(n, l), m \notin yields
      PROVE  /\ IsCoordinator(n) /\ m = Announce(n, held[n].term)
             /\ held'[n].holder # n
  <2>1. IsCoordinator(n) /\ TakesLease(n, l) /\ m = Announce(n, held[n].term)
    BY <1>1 DEF OnLease
  <2>2. held'[n] = Fresh(l.from, l.term) /\ l.from # n
    BY <1>1, <2>1 DEF OnLease
  <2> QED BY <2>1, <2>2 DEF Fresh
<1>2. ASSUME NEW n \in Node, NEW c \in claims, OnClaim(n, c), m \notin yields
      PROVE  /\ IsCoordinator(n) /\ m = Announce(n, held[n].term)
             /\ held'[n] = None
  BY <1>2 DEF OnClaim
<1>3. ASSUME NEW n \in Node,
             \/ StartClaim(n) \/ Tick(n) \/ AdvanceClock(n)
             \/ \E y \in yields : OnYield(n, y)
      PROVE  m \in yields
  BY <1>3 DEF StartClaim, Tick, AdvanceClock, OnYield, msgs
<1>4. UNCHANGED vars => m \in yields
  BY DEF vars, msgs
<1> QED BY <1>1, <1>2, <1>3, <1>4 DEF Next

\* The invariant is inductive.
LEMMA InvStep == IInv /\ [Next]_vars => IInv'
<1> SUFFICES ASSUME IInv, [Next]_vars PROVE IInv'
  OBVIOUS
<1> USE DEF IInv
<1>1. TypeOK'
  BY TypeStep
<1>2. leases \subseteq leases' /\ claims \subseteq claims' /\ yields \subseteq yields'
  BY MsgsGrow
<1>3. \A n \in Node : seen_term[n] \in Nat /\ seen_term'[n] \in Nat
                      /\ seen_term'[n] >= seen_term[n]
  BY <1>1, SeenGrows, ElectionAssumption DEF TypeOK, Term
<1>4. \A n \in Node : held[n] # None =>
          held[n].holder \in Node /\ held[n].term \in Term /\ held[n].term \in Nat
  BY ElectionAssumption DEF TypeOK, Held, Term
<1>5. \A n \in Node : held'[n] # None => held'[n].term \in Nat
  BY <1>1, ElectionAssumption DEF TypeOK, Held, Term
<1>6. \A m \in leases \union yields :
          m.from \in Node /\ m.term \in Term /\ m.term \in Nat
  BY ElectionAssumption DEF TypeOK, Announcement, Term
<1>7. LeadersAreElected'
  <2>1. ASSUME NEW n \in Node, held'[n] # None
        PROVE  Announce(held'[n].holder, held'[n].term) \in
                   IF held'[n].holder = n THEN claims' ELSE leases'
    <3>1. CASE Keeps(n)
      BY <1>2, <3>1 DEF Keeps, LeadersAreElected
    <3>2. CASE Adopts(n)
      <4>1. PICK m \in leases : m.from # n /\ held'[n] = Fresh(m.from, m.term)
        BY <3>2 DEF Adopts
      <4>2. held'[n].holder = m.from /\ held'[n].term = m.term
        BY <4>1 DEF Fresh
      <4>3. Announce(m.from, m.term) = m
        BY DEF TypeOK, Announcement, Announce
      <4> QED BY <1>2, <4>1, <4>2, <4>3
    <3>3. CASE Campaigns(n)
      BY <3>3 DEF Campaigns, Fresh
    <3> QED BY <2>1, <3>1, <3>2, <3>3, BeliefStep
  <2>2. ASSUME NEW m \in leases' PROVE m \in claims'
    <3>1. \A n \in Node : IsCoordinator(n) => Announce(n, held[n].term) \in claims
      BY DEF LeadersAreElected, IsCoordinator
    <3> QED BY <1>2, <3>1, NewLease DEF LeadersAreElected
  <2> QED BY <2>1, <2>2 DEF LeadersAreElected
<1>8. TermsAreSeen'
  <2> SUFFICES ASSUME NEW n \in Node, held'[n] # None
               PROVE  held'[n].term <= seen_term'[n]
    BY DEF TermsAreSeen
  <2>1. CASE Keeps(n)
    BY <1>3, <1>4, <2>1 DEF Keeps, TermsAreSeen
  <2>2. CASE Adopts(n)
    BY <1>3, <1>6, <2>2 DEF Adopts, Fresh
  <2>3. CASE Campaigns(n)
    BY <1>3, <2>3 DEF Campaigns, Fresh
  <2> QED BY <2>1, <2>2, <2>3, BeliefStep
<1>9. YieldsAreSeen'
  <2> SUFFICES ASSUME NEW m \in yields' PROVE m.term <= seen_term'[m.from]
    BY DEF YieldsAreSeen
  <2>1. CASE m \in yields
    BY <1>3, <1>6, <2>1 DEF YieldsAreSeen
  <2>2. ASSUME NEW n \in Node, IsCoordinator(n), m = Announce(n, held[n].term)
        PROVE  m.term <= seen_term'[m.from]
    <3>1. held[n] # None /\ m.term = held[n].term /\ m.from = n
      BY <2>2 DEF IsCoordinator, Announce
    <3> QED BY <1>3, <1>4, <3>1 DEF TermsAreSeen
  <2> QED BY <2>1, <2>2, NewYield
<1>10. YieldIsFinal'
  <2> SUFFICES ASSUME NEW m \in yields'
               PROVE  \/ held'[m.from] = None
                      \/ held'[m.from].holder # m.from
                      \/ held'[m.from].term > m.term
    BY DEF YieldIsFinal
  <2>1. CASE m \in yields
    <3> DEFINE n == m.from
    <3>0. n \in Node /\ m.term \in Nat /\ m.term <= seen_term[n]
      BY <1>6, <2>1 DEF YieldsAreSeen
    <3> HIDE DEF n
    <3>1. CASE Keeps(n)
      BY <2>1, <3>1 DEF Keeps, YieldIsFinal, n
    <3>2. CASE Adopts(n)
      BY <3>2 DEF Adopts, Fresh, n
    <3>3. CASE Campaigns(n)
      BY <1>3, <3>0, <3>3 DEF Campaigns, Fresh, n
    <3> QED BY <3>0, <3>1, <3>2, <3>3, BeliefStep DEF n
  <2>2. ASSUME NEW n \in Node, m = Announce(n, held[n].term),
               held'[n] = None \/ held'[n].holder # n
        PROVE  held'[m.from] = None \/ held'[m.from].holder # m.from
    BY <2>2 DEF Announce
  <2> QED BY <2>1, <2>2, NewYield
<1> QED BY <1>1, <1>7, <1>8, <1>9, <1>10

\* It holds of the boot state, in which nobody leads and nothing was said.
LEMMA InvInit == Init => IInv
BY ElectionAssumption DEF Init, IInv, TypeOK, LeadersAreElected, TermsAreSeen,
                          YieldIsFinal, YieldsAreSeen, Term, Held

\* The inductive invariant holds throughout.
THEOREM Invariance == Spec => []IInv
BY InvInit, InvStep, PTL DEF Spec

\* Types, for any cluster.
THEOREM TypeCorrect == Spec => []TypeOK
<1>1. IInv => TypeOK
  BY DEF IInv
<1> QED BY <1>1, Invariance, PTL

\* No claim, yield or replay makes a leader: a believed coordinator announced
\* its lease at that term, a leader campaigned for it.
THEOREM Elected == Spec => []LeadersAreElected
<1>1. IInv => LeadersAreElected
  BY DEF IInv
<1> QED BY <1>1, Invariance, PTL

\* A node never believes in a term above what it has seen.
THEOREM Seen == Spec => []TermsAreSeen
<1>1. IInv => TermsAreSeen
  BY DEF IInv
<1> QED BY <1>1, Invariance, PTL

\* A term that was abdicated is never led again by the node that did.
THEOREM Final == Spec => []YieldIsFinal
<1>1. IInv => YieldIsFinal
  BY DEF IInv
<1> QED BY <1>1, Invariance, PTL

\* Whoever leads was elected, to a term that is known, until it abdicates.
THEOREM Genuine == Spec => []LeadershipIsGenuine
<1>1. IInv => LeadershipIsGenuine
  BY DEF IInv, LeadershipIsGenuine
<1> QED BY <1>1, Invariance, PTL

\* No two leaders survive a meeting: of two announced leases one supersedes the
\* other, whatever the terms and ids.
THEOREM Heals == Spec => []PartitionHeals
<1>1. TypeOK => PartitionHeals
  <2> SUFFICES ASSUME TypeOK, Healed, NEW n \in Node, NEW k \in Node,
                      IsCoordinator(n), IsCoordinator(k), n # k
               PROVE  FALSE
    BY DEF PartitionHeals
  <2>1. /\ held[n].term \in Nat /\ held[k].term \in Nat
        /\ n \in Nat /\ k \in Nat
    BY ElectionAssumption DEF TypeOK, IsCoordinator, Held, Term
  <2>2. ~TakesLease(n, Announce(k, held[k].term))
    BY DEF Healed, Announce
  <2>3. ~TakesLease(k, Announce(n, held[n].term))
    BY DEF Healed, Announce
  <2> QED BY <2>1, <2>2, <2>3 DEF TakesLease, Supersedes, Announce, IsCoordinator
<1> QED BY <1>1, TypeCorrect, PTL

\* A yield, however late, spares the coordinator that still leads at that term.
THEOREM LiveLeaderSpared == Spec => YieldSparesLiveLeader
<1> DEFINE Deposed(n) == held[n] # None /\ held'[n] = None /\ held[n].left > 0
           Excused(n) ==
              \/ held[n].holder = n
              \/ held[held[n].holder] = None
              \/ held[held[n].holder].holder # held[n].holder
              \/ held[held[n].holder].term # held[n].term
<1>1. ASSUME IInv, [Next]_vars, NEW n \in Node, Deposed(n) PROVE Excused(n)
  <2> USE DEF IInv
  <2>0. held[n] \in Held /\ held[n].left \in Nat
    BY <1>1 DEF TypeOK, Held
  <2>1. ASSUME NEW k \in Node, StartClaim(k) PROVE FALSE
    <3>1. seen_term'[k] \in Term
      BY <1>1, TypeStep DEF TypeOK
    <3> QED BY <1>1, <2>1, <3>1, FreshIsHeld DEF StartClaim, TypeOK
  <2>2. ASSUME NEW k \in Node, NEW m \in leases, OnLease(k, m) PROVE FALSE
    <3>1. m.from \in Node /\ m.term \in Term
      BY <1>1 DEF TypeOK, Announcement
    <3> QED BY <1>1, <2>2, <3>1, FreshIsHeld DEF OnLease, TypeOK
  <2>3. ASSUME NEW k \in Node, NEW m \in claims, OnClaim(k, m) PROVE Excused(n)
    BY <1>1, <2>3 DEF OnClaim, IsCoordinator, TypeOK
  <2>4. ASSUME NEW k \in Node, NEW m \in yields, OnYield(k, m) PROVE Excused(n)
    <3>1. held[n].holder = m.from /\ held[n].term = m.term
      BY <1>1, <2>4 DEF OnYield, TypeOK
    <3>2. m.term \in Nat
      BY <1>1, ElectionAssumption DEF TypeOK, Announcement, Term
    <3> QED BY <1>1, <3>1, <3>2 DEF YieldIsFinal
  <2>5. ASSUME NEW k \in Node, Tick(k) PROVE FALSE
    <3>1. held'[n] # held[n] /\ k = n
      BY <1>1, <2>5 DEF Tick, TypeOK
    <3>2. held[n].left # 0
      BY <1>1, <2>0
    <3>3. held'[n] = held[n] \/ held'[n] = Fresh(n, held[n].term)
      BY <1>1, <2>5, <3>1, <3>2 DEF Tick, TypeOK
    <3> QED BY <1>1, <2>0, <3>1, <3>3, FreshIsHeld DEF Held
  <2>6. ASSUME NEW k \in Node, AdvanceClock(k) PROVE FALSE
    <3>1. k = n /\ held'[n] = [held[n] EXCEPT !.left = @ - 1]
      BY <1>1, <2>6 DEF AdvanceClock, TypeOK
    <3>2. held'[n] \in Held
      BY <1>1, <2>0, <3>1, ElectionAssumption DEF Held
    <3> QED BY <1>1, <3>2, ElectionAssumption DEF Held, Term
  <2>7. CASE UNCHANGED vars
    BY <1>1, <2>7 DEF vars
  <2> QED BY <1>1, <2>1, <2>2, <2>3, <2>4, <2>5, <2>6, <2>7 DEF Next
<1>2. IInv /\ [Next]_vars => [\A n \in Node : Deposed(n) => Excused(n)]_vars
  BY <1>1
<1> QED BY <1>2, Invariance, PTL DEF Spec, YieldSparesLiveLeader
=============================================================================
