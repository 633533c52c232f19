------------------------------ MODULE Discovery ------------------------------
(***************************************************************************)
(* mDNS discovery: which addresses a machine advertises, the browse that   *)
(* reports machines in pieces (one address family at a time, departures by *)
(* goodbye or by expiry), the one nudge for the missing family, and the    *)
(* registry that folds the events and feeds the dialers and the snapshot.  *)
(* A machine is one DNS-SD instance: its display name does not change.     *)
(***************************************************************************)
EXTENDS Naturals, Sequences, FiniteSets, SequencesExt

CONSTANTS
    Peer,        \* the other machines on the network
    HostIfaces   \* the sets of network interfaces a machine may have

VARIABLES
    host,        \* host[p]: the machine itself: [up, ifaces, port, v4only]
    cached,      \* the machines whose records the mDNS daemon holds
    mdns,        \* browse events not yet consumed
    asked,       \* the machines whose other family is being re-queried
    nudged,      \* the machines nudged once already
    registry,    \* registry[p]: [known, addrs, port]
    changed,     \* the registry changed since the republish loop looked
    told,        \* told[p]: addresses reported since the machine last changed
    again        \* machines that came back or moved after their nudge

networkVars == <<host, cached, mdns, asked, nudged, told, again>>
discoveryVars == <<networkVars, registry, changed>>

-----------------------------------------------------------------------------
(* Interfaces. An interface stands for its address; the order of the tuple *)
(* is the registry's sort order, IPv4 first.                               *)

Iface == {"apipa", "lan4", "moved4", "virtual4", "awdl6", "lan6", "linklocal6"}
AddrOrder == <<"apipa", "lan4", "moved4", "virtual4", "awdl6", "lan6", "linklocal6">>
IsIpv6(a) == a \in {"awdl6", "lan6", "linklocal6"}
IsUnusableV4(a) == a = "apipa"
IsVirtualIface(a) == a = "virtual4"

\* The addresses the mDNS daemon of a machine publishes. Dead and host-only
\* adapters are pruned only while a real IPv4 interface remains.
Advertised(ifaces) ==
    LET enabled == ifaces \ {"awdl6"}
        hasRealLan == \E i \in ifaces :
                        ~IsVirtualIface(i) /\ ~IsIpv6(i) /\ ~IsUnusableV4(i)
    IN  IF hasRealLan
        THEN {i \in enabled : ~IsVirtualIface(i) /\ ~IsUnusableV4(i)}
        ELSE enabled

\* Where a dial from another machine on the network gets an answer.
Answers(h) == {a \in h.ifaces \cap {"lan4", "moved4", "lan6"} : h.v4only => ~IsIpv6(a)}

\* Candidates in dial order: routable IPv4, then routable IPv6.
Candidate(a, addrs) == IF a \in addrs THEN <<a>> ELSE <<>>
OrderedDialableIps(addrs) ==
    Candidate("lan4", addrs) \o Candidate("moved4", addrs) \o Candidate("virtual4", addrs)
        \o Candidate("awdl6", addrs) \o Candidate("lan6", addrs)

PeerSocketAddrs(advert) ==
    IF advert.port = 0 THEN <<>> ELSE OrderedDialableIps(advert.addrs)

ASSUME IfacesAreKnown == HostIfaces \subseteq SUBSET Iface

-----------------------------------------------------------------------------
(* The registry.                                                           *)

Unknown == [known |-> FALSE, addrs |-> {}, port |-> 0]

\* The entry replaced by each event, one family at a time.
Replaced(p, event) == [known |-> TRUE, addrs |-> event.addrs, port |-> event.port]

\* Found keeps the latest port and the union of the addresses.
Merged(p, event) ==
    [known |-> TRUE, addrs |-> event.addrs \cup registry[p].addrs, port |-> event.port]

\* A re-announce that only changes address or port goes unnoticed.
AppliesQuietly(event) ==
    LET p == event.peer
        entry == IF event.kind = "found" THEN Merged(p, event) ELSE Unknown
    IN  /\ registry' = [registry EXCEPT ![p] = entry]
        /\ changed' = (changed \/ entry.known # registry[p].known)

Apply(event) ==
    LET p == event.peer
        entry == IF event.kind = "found" THEN Merged(p, event) ELSE Unknown
    IN  /\ registry' = [registry EXCEPT ![p] = entry]
        /\ changed' = (changed \/ entry # registry[p])

IsSingleFamily(addrs) == (\E a \in addrs : IsIpv6(a)) # (\E a \in addrs : ~IsIpv6(a))

NudgeOtherFamily(event) ==
    LET p == event.peer
    IN  IF event.kind = "found" /\ IsSingleFamily(event.addrs) /\ p \notin nudged
        THEN nudged' = nudged \cup {p} /\ asked' = asked \cup {p}
        ELSE UNCHANGED <<nudged, asked>>

\* One turn of run_registry: next_event, then apply. A resolution without an
\* address is skipped.
RunRegistry ==
    /\ mdns # <<>>
    /\ mdns' = Tail(mdns)
    /\ LET event == Head(mdns)
       IN  IF event.kind = "found" /\ event.addrs = {}
           THEN UNCHANGED <<nudged, asked, registry, changed>>
           ELSE Apply(event) /\ NudgeOtherFamily(event)
    /\ UNCHANGED <<host, cached, told, again>>

-----------------------------------------------------------------------------
(* The machines and the mDNS daemon (external).                            *)

Found(p, addrs) == [kind |-> "found", peer |-> p, addrs |-> addrs, port |-> host[p].port]
Removed(p)      == [kind |-> "removed", peer |-> p, addrs |-> {}, port |-> 0]

Family(addrs, six) == {a \in addrs : IsIpv6(a) = six}

Report(p, addrs) ==
    /\ mdns' = Append(mdns, Found(p, addrs))
    /\ cached' = cached \cup {p}
    /\ told' = [told EXCEPT ![p] = @ \cup addrs]
    /\ UNCHANGED <<host, nudged, registry, changed, again>>

\* The browse resolves a machine on one family, on both, or on none yet.
Resolve(p, sixes) ==
    /\ host[p].up
    /\ Report(p, UNION {Family(Advertised(host[p].ifaces), six) : six \in sixes})
    /\ UNCHANGED asked

\* The re-query keeps asking for both families.
NudgeAnswered(p) ==
    /\ p \in asked
    /\ IF host[p].up THEN Report(p, Advertised(host[p].ifaces))
                     ELSE UNCHANGED <<mdns, cached, told, host, nudged, registry, changed, again>>
    /\ asked' = asked \ {p}

\* What is known of p is about an earlier p, and its nudge is spent.
Changes(p) ==
    /\ told' = [told EXCEPT ![p] = {}]
    /\ again' = IF p \in nudged \ asked THEN again \cup {p} ELSE again

HostStarts(p, ifaces, v4only) ==
    /\ ~host[p].up
    /\ host' = [host EXCEPT ![p] = [up |-> TRUE, ifaces |-> ifaces,
                                    port |-> @.port + 1, v4only |-> v4only]]
    /\ Changes(p)
    /\ UNCHANGED <<cached, mdns, asked, nudged, registry, changed>>

\* DHCP renewal or another network: auto-addr republishes what there is now.
HostMoves(p) ==
    /\ host[p].up /\ "lan4" \in host[p].ifaces
    /\ host' = [host EXCEPT ![p].ifaces = (@ \ {"lan4"}) \cup {"moved4"}]
    /\ Changes(p)
    /\ UNCHANGED <<cached, mdns, asked, nudged, registry, changed>>

\* Dropping Discovery says goodbye for every registration before it exits.
HostLeaves(p) ==
    /\ host[p].up
    /\ host' = [host EXCEPT ![p].up = FALSE]
    /\ mdns' = IF p \in cached THEN Append(mdns, Removed(p)) ELSE mdns
    /\ cached' = cached \ {p}
    /\ Changes(p)
    /\ UNCHANGED <<asked, nudged, registry, changed>>

HostCrashes(p) ==
    /\ host[p].up
    /\ host' = [host EXCEPT ![p].up = FALSE]
    /\ Changes(p)
    /\ UNCHANGED <<cached, mdns, asked, nudged, registry, changed>>

\* Records nobody refreshed expire in the daemon's cache.
Expire(p) ==
    /\ p \in cached /\ told[p] = {}
    /\ cached' = cached \ {p}
    /\ mdns' = Append(mdns, Removed(p))
    /\ UNCHANGED <<host, asked, nudged, registry, changed, told, again>>

\* `visible` are the machines found before the daemon's bridge started.
DiscoveryInit(visible) ==
    /\ host = [p \in Peer |-> [up |-> TRUE, ifaces |-> {"lan4"}, port |-> 1, v4only |-> FALSE]]
    /\ cached = visible /\ nudged = visible
    /\ told = [p \in Peer |-> IF p \in visible THEN {"lan4"} ELSE {}]
    /\ registry = [p \in Peer |-> IF p \in visible
                     THEN [known |-> TRUE, addrs |-> {"lan4"}, port |-> 1] ELSE Unknown]
    /\ mdns = <<>> /\ asked = {} /\ changed = FALSE /\ again = {}

\* A daemon that restarts browses from nothing.
BrowseAnew ==
    /\ cached' = {} /\ nudged' = {} /\ asked' = {} /\ again' = {}
    /\ mdns' = <<>>
    /\ registry' = [p \in Peer |-> Unknown] /\ changed' = FALSE
    /\ told' = [p \in Peer |-> {}]
    /\ UNCHANGED host

NetEvent(p) ==
    \/ \E sixes \in SUBSET BOOLEAN : Resolve(p, sixes)
    \/ \E ifaces \in HostIfaces, v4only \in BOOLEAN : HostStarts(p, ifaces, v4only)
    \/ HostMoves(p)
    \/ HostLeaves(p)
    \/ HostCrashes(p)

-----------------------------------------------------------------------------
(* Properties.                                                             *)

Quiet(p) == p \notin asked /\ \A i \in DOMAIN mdns : mdns[i].peer # p

(* Once nothing about a machine is on its way, the dialers' candidates     *)
(* for it hold every address at which it answers, at its current port,     *)
(* however its records arrived (apply's union, nudge_other_family); a      *)
(* machine that left and whose records are gone is not offered at all.     *)
(* The nudge is spent once per browse: a machine that came back or moved   *)
(* since is owed only what was reported of it.                             *)
RegistryTracksNetwork ==
    \A p \in Peer : Quiet(p) =>
        /\ host[p].up /\ told[p] # {} =>
            /\ registry[p].port = host[p].port
            /\ LET owed == Answers(host[p]) \cap
                             (IF p \in again THEN told[p] ELSE Advertised(host[p].ifaces))
               IN  owed \subseteq ToSet(PeerSocketAddrs(registry[p]))
        /\ ~host[p].up /\ p \notin cached => ~registry[p].known
=============================================================================
