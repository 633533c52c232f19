------------------------------ MODULE Election ------------------------------
(***************************************************************************)
(* The lease-based coordinator election of mouser-core/src/election.rs.    *)
(* Every node runs its own monotonic clock, so a held lease is kept with   *)
(* the time it has left on that clock, and clocks advance independently.   *)
(* What a node announces reaches every other node any number of times, in  *)
(* any order and arbitrarily late.  All leases have the default ttl; the   *)
(* library has no caller in this repository, so any operation may be       *)
(* called at any time.                                                     *)
(***************************************************************************)
EXTENDS Naturals, FiniteSets

CONSTANTS
    Node,       \* device ids, ordered
    Ttl,        \* DEFAULT_TTL in clock units
    MaxTerm,    \* bound: campaigns stop at this term,
    MaxClaims,  \* bound: and after this many of them
    None        \* no believed coordinator

ASSUME ElectionAssumption ==
    /\ Node \subseteq Nat
    /\ Ttl \in Nat \ {0}
    /\ MaxTerm \in Nat /\ MaxClaims \in Nat
    /\ None \notin [holder: Node, term: 0 .. MaxTerm, left: 0 .. Ttl]

Term == 0 .. MaxTerm
Held == [holder: Node, term: Term, left: 0 .. Ttl]
Announcement == [from: Node, term: Term]

VARIABLES
    held,       \* held[n]: the lease n believes in, or None
    seen_term,  \* seen_term[n]: the highest term n issued or observed
    leases,     \* CoordinatorLease announcements so far
    claims,     \* CoordinatorClaim announcements so far
    yields      \* CoordinatorYield announcements so far

msgs == <<leases, claims, yields>>
vars == <<held, seen_term, msgs>>

Init ==
    /\ held = [n \in Node |-> None]
    /\ seen_term = [n \in Node |-> 0]
    /\ leases = {} /\ claims = {} /\ yields = {}

HigherOf(a, b) == IF a < b THEN b ELSE a
Fresh(holder, term) == [holder |-> holder, term |-> term, left |-> Ttl]
Announce(n, term) == [from |-> n, term |-> term]
IsCoordinator(n) == held[n] # None /\ held[n].holder = n
Observes(n, term) == seen_term' = [seen_term EXCEPT ![n] = HigherOf(@, term)]

\* Mutant: equal terms are not told apart.
SupersedesByTerm(term, holder, other_term, other_holder) == term > other_term

\* Higher term wins; equal terms go to the lower id.
Supersedes(term, holder, other_term, other_holder) ==
    \/ term > other_term
    \/ term = other_term /\ holder < other_holder
-----------------------------------------------------------------------------
\* may_campaign: nobody is believed to lead, or the lease has run out, or we
\* lead, or our id beats the holder's.
MayCampaign(n) ==
    \/ held[n] = None
    \/ /\ held[n] # None
       /\ held[n].left = 0 \/ n <= held[n].holder

StartClaim(n) ==
    /\ MayCampaign(n)
    /\ seen_term[n] < MaxTerm /\ Cardinality(claims) < MaxClaims
    /\ seen_term' = [seen_term EXCEPT ![n] = @ + 1]
    /\ held' = [held EXCEPT ![n] = Fresh(n, seen_term'[n])]
    /\ claims' = claims \union {Announce(n, seen_term'[n])}
    /\ UNCHANGED <<leases, yields>>

\* A lease n takes over: a renewal of its own holder, a superior one, or, with
\* none believed in, one whose term is not below what n has already seen.
TakesLease(n, m) ==
    IF held[n] = None THEN m.term >= seen_term[n]
    ELSE \/ held[n].holder = m.from /\ m.term >= held[n].term
         \/ Supersedes(m.term, m.from, held[n].term, held[n].holder)

\* on_lease.  A holder that gives way announces the term it gives up.
OnLease(n, m) ==
    /\ n # m.from
    /\ Observes(n, m.term)
    /\ held' = IF TakesLease(n, m)
               THEN [held EXCEPT ![n] = Fresh(m.from, m.term)] ELSE held
    /\ yields' = IF TakesLease(n, m) /\ IsCoordinator(n)
                 THEN yields \union {Announce(n, held[n].term)} ELSE yields
    /\ UNCHANGED <<leases, claims>>

\* Mutant: the claim of a superior candidate is taken for its lease.
OnClaimInstalls(n, m) ==
    /\ n # m.from
    /\ Observes(n, m.term)
    /\ held' = IF held[n] = None \/ ~IsCoordinator(n) THEN
                    [held EXCEPT ![n] = Fresh(m.from, m.term)]
               ELSE held
    /\ UNCHANGED msgs

\* on_claim.  Only a holder reacts: it abdicates to a superior candidate and
\* otherwise repeats its lease.
OnClaim(n, m) ==
    LET beaten == Supersedes(m.term, m.from, held[n].term, n)
    IN  /\ n # m.from
        /\ Observes(n, m.term)
        /\ IF IsCoordinator(n)
           THEN /\ held' = IF beaten THEN [held EXCEPT ![n] = None] ELSE held
                /\ yields' = IF beaten
                             THEN yields \union {Announce(n, held[n].term)}
                             ELSE yields
                /\ leases' = IF beaten THEN leases
                             ELSE leases \union {Announce(n, held[n].term)}
           ELSE UNCHANGED <<held, leases, yields>>
        /\ UNCHANGED claims

\* Mutant: a yield of any term ends the lease of its sender.
OnYieldAnyTerm(n, m) ==
    /\ n # m.from
    /\ Observes(n, m.term)
    /\ held' = IF held[n] # None /\ held[n].holder = m.from
               THEN [held EXCEPT ![n] = None] ELSE held
    /\ UNCHANGED msgs

\* on_yield: only the exact term ends the lease.
OnYield(n, m) ==
    /\ n # m.from
    /\ Observes(n, m.term)
    /\ held' = IF held[n] # None /\ held[n].holder = m.from /\ held[n].term = m.term
               THEN [held EXCEPT ![n] = None] ELSE held
    /\ UNCHANGED msgs

\* tick: an expired lease is dropped; a holder re-announces once a third of the
\* ttl has gone by.
Tick(n) ==
    /\ held[n] # None
    /\ LET h == held[n]
           renews == h.left > 0 /\ h.holder = n /\ 3 * (Ttl - h.left) >= Ttl
       IN  /\ held' = [held EXCEPT ![n] = CASE h.left = 0 -> None
                                            [] renews -> Fresh(n, h.term)
                                            [] OTHER -> h]
           /\ leases' = IF renews THEN leases \union {Announce(n, h.term)} ELSE leases
    /\ UNCHANGED <<seen_term, claims, yields>>

\* The local clock of n goes on.
AdvanceClock(n) ==
    /\ held[n] # None
    /\ held[n].left > 0
    /\ held' = [held EXCEPT ![n].left = @ - 1]
    /\ UNCHANGED <<seen_term, msgs>>

Next ==
    \E n \in Node :
        \/ StartClaim(n)
        \/ \E m \in leases : OnLease(n, m)
        \/ \E m \in claims : OnClaim(n, m)
        \/ \E m \in yields : OnYield(n, m)
        \/ Tick(n)
        \/ AdvanceClock(n)

Spec == Init /\ [][Next]_vars
-----------------------------------------------------------------------------
(* Properties.                                                             *)

\* Leases, terms and announcements are well formed.
TypeOK ==
    /\ held \in [Node -> Held \union {None}]
    /\ seen_term \in [Node -> Term]
    /\ leases \subseteq Announcement
    /\ claims \subseteq Announcement
    /\ yields \subseteq Announcement

\* A coordinator is never invented: who believes in somebody else got that
\* lease from it, at that term, and who leads campaigned for that term.  Claims,
\* yields and replays cannot make a leader ("never installs candidate as the
\* believed coordinator from a claim").
LeadersAreElected ==
    /\ \A n \in Node : held[n] # None =>
          Announce(held[n].holder, held[n].term) \in
              IF held[n].holder = n THEN claims ELSE leases
    /\ leases \subseteq claims

\* The term rules never let a node believe in a term above what it has seen.
TermsAreSeen ==
    \A n \in Node : held[n] # None => held[n].term <= seen_term[n]

\* Somebody who abdicated a term never leads it again: a yield is final.
YieldIsFinal ==
    \A m \in yields : held[m.from] = None
                      \/ held[m.from].holder # m.from
                      \/ held[m.from].term > m.term

\* Together: whoever leads was elected to a term everyone it leads has seen, and
\* gives it up once.
LeadershipIsGenuine == TypeOK /\ LeadersAreElected /\ TermsAreSeen /\ YieldIsFinal

\* A late, replayed or reordered yield cannot end the unexpired lease of a
\* coordinator that still leads at that term.
YieldSparesLiveLeader ==
    [][\A n \in Node :
          held[n] # None /\ held'[n] = None /\ held[n].left > 0 =>
              \/ held[n].holder = n
              \/ held[held[n].holder] = None
              \/ held[held[n].holder].holder # held[n].holder
              \/ held[held[n].holder].term # held[n].term]_vars

\* Every leader has announced its lease and every node has heard all of them.
Healed ==
    /\ \A n \in Node : IsCoordinator(n) => Announce(n, held[n].term) \in leases
    /\ \A n \in Node, m \in leases : n # m.from =>
          /\ seen_term[n] >= m.term
          /\ ~(IsCoordinator(n) /\ TakesLease(n, m))

\* "These rules give a defined partition-heal" (election.rs:21): leaders that
\* met are one leader.
PartitionHeals ==
    Healed => \A n, k \in Node : IsCoordinator(n) /\ IsCoordinator(k) => n = k
=============================================================================
