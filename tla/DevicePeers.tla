----------------------------- MODULE DevicePeers ----------------------------
(***************************************************************************)
(* The WebRTC peers of the devices: offers and candidates of handle_signal *)
(* (daemon.rs), the table of peers and its poll (webrtc_manager.rs), the   *)
(* accounting of relayed bytes (webrtc_peer.rs) and the cache of TURN      *)
(* credentials (daemon/turn.rs).                                           *)
(*                                                                         *)
(* A peer is named by the number of the offer that created it.  All of     *)
(* this runs in the daemon's one loop; the connection states, the bytes    *)
(* and the candidates come from the WebRTC stack at any time.  The         *)
(* timeouts that cut a call of the loop short happen Faults times.         *)
(***************************************************************************)
EXTENDS Integers, SequencesExt

CONSTANTS
    Keys,       \* peer keys of a device: "session", "stats", "files", "agent"
    OfferMax, ByteMax, Faults,
    Grace,      \* DISCONNECTED_GRACE
    Ttls,       \* lifetimes that the backend gives to credentials
    MinTtl,     \* TURN_CACHE_MIN_TTL_SECS
    Margin      \* TURN_CACHE_SAFETY_MARGIN_SECS

PeersAssumption ==
    /\ Keys \subseteq {"session", "stats", "files", "agent"}
    /\ OfferMax \in Nat /\ ByteMax \in Nat /\ Faults \in Nat /\ Grace \in Nat
    /\ Ttls \subseteq Nat /\ MinTtl \in Nat /\ Margin \in 0..MinTtl

VARIABLES
    offers, faults,
    peers,      \* key -> the peer, or NoPeer
    since,      \* disconnected_since: key -> how long ago, or Never
    labels,     \* files_peer_offer_ids, agent_peer_offer_ids
    queue,      \* IceCandidate events between the poll and the loop
    sent,       \* <<candidate's peer, label>> of the candidates sent
    cache,      \* TurnCredsCache: how long they are served, and valid; their ttl
    relayed, pending, flight, billed, lost  \* bytes

bytes == <<relayed, pending, flight, billed, lost>>
vars == <<offers, faults, peers, since, labels, queue, sent, cache, bytes>>

\* Offers that force a new peer; keys whose candidates carry the id of an offer.
Fresh == {"stats", "files"}
Labelled == Keys \cap {"files", "agent"}

NoPeer == [gen |-> 0]
NoCreds == [served |-> 0, valid |-> 0, ttl |-> 0]
Never == -1
Dead == {"failed", "closed"}
Live == {k \in Keys : peers[k] # NoPeer}

Init ==
    /\ offers = 0 /\ faults = 0
    /\ peers = [k \in Keys |-> NoPeer]
    /\ since = [k \in Keys |-> Never]
    /\ labels = [k \in Labelled |-> 0]
    /\ queue = <<>> /\ sent = {}
    /\ cache = NoCreds
    /\ relayed = 0 /\ pending = 0 /\ flight = <<>> /\ billed = 0 /\ lost = 0

-----------------------------------------------------------------------------
(* The WebRTC stack and the clock                                          *)

Tick ==
    /\ since' = [k \in Keys |-> IF since[k] \in {Never, Grace} THEN since[k] ELSE since[k] + 1]
    /\ cache' = [cache EXCEPT !.served = Max({@ - 1, 0}), !.valid = Max({@ - 1, 0})]
    /\ UNCHANGED <<offers, faults, peers, labels, queue, sent, bytes>>

StateChanges(k, to) ==
    /\ k \in Live
    /\ <<peers[k].state, to>> \in
         {<<"connecting", "connected">>, <<"connected", "disconnected">>,
          <<"disconnected", "connected">>, <<"connecting", "failed">>,
          <<"disconnected", "failed">>, <<"connected", "closed">>}
    /\ peers' = [peers EXCEPT ![k].state = to]
    /\ UNCHANGED <<offers, faults, since, labels, queue, sent, cache, bytes>>

Relays(k) ==
    /\ k \in Live /\ peers[k].state = "connected" /\ relayed < ByteMax
    /\ relayed' = relayed + 1
    /\ peers' = [peers EXCEPT ![k].total = @ + 1]
    /\ UNCHANGED <<offers, faults, since, labels, queue, sent, cache,
                   pending, flight, billed, lost>>

\* ICE moves to another pair: the counters of the old one leave the report.
PairLeaves(k) ==
    /\ k \in Live /\ peers[k].total > 0 /\ faults < Faults
    /\ faults' = faults + 1
    /\ lost' = lost + peers[k].total - peers[k].counted
    /\ peers' = [peers EXCEPT ![k].total = 0, ![k].counted = 0]
    /\ UNCHANGED <<offers, since, labels, queue, sent, cache,
                   relayed, pending, flight, billed>>

Gathers(k) ==
    /\ k \in Live /\ peers[k].state = "connecting" /\ peers[k].gathered = 0
    /\ peers' = [peers EXCEPT ![k].gathered = 1]
    /\ UNCHANGED <<offers, faults, since, labels, queue, sent, cache, bytes>>

-----------------------------------------------------------------------------
(* webrtc_peer.rs: collect_relay_delta; webrtc_manager.rs: close_peer      *)

\* What the snapshot of the peer of k adds to the previous one, if k is in K.
Delta(k, K) == IF k \in K \cap Live THEN peers[k].total - peers[k].counted ELSE 0

\* The same for all the peers in K.
RelayDelta(K) == Delta("session", K) + Delta("stats", K) + Delta("files", K) + Delta("agent", K)

\* Mutant: the tail of a closed peer is forgotten.
ClosePeersForgets(K, slow) ==
    /\ lost' = lost + RelayDelta(slow)
    /\ UNCHANGED <<relayed, pending, flight, billed>>

\* The tail of a closed peer is kept for the next report, unless its
\* snapshot takes too long.
ClosePeers(K, slow) ==
    /\ pending' = pending + RelayDelta(K \ slow)
    /\ lost' = lost + RelayDelta(slow)
    /\ UNCHANGED <<relayed, flight, billed>>

\* The slow ones among the peers in K.
Slow(K) == IF faults < Faults THEN SUBSET K ELSE {{}}
Slowed(slow) == faults' = IF slow = {} THEN faults ELSE faults + 1

-----------------------------------------------------------------------------
(* daemon/turn.rs: TurnCredsCache::get                                     *)

Lifetime(ttl) == Max({ttl, MinTtl}) - Margin

TurnCreds(ttl) ==
    cache' = IF cache.served > 0 THEN cache
             ELSE [served |-> Lifetime(ttl), valid |-> ttl, ttl |-> ttl]

-----------------------------------------------------------------------------
(* webrtc_manager.rs: handle_offer, as the offer handlers call it          *)

NewPeer(n, state) == [gen |-> n, state |-> state, total |-> 0, counted |-> 0, gathered |-> 0]

\* Mutant: the id of the first offer of a key is kept.
NotedFirst(k, n) ==
    /\ offers' = n
    /\ labels' = IF k \in Labelled /\ labels[k] = 0 THEN [labels EXCEPT ![k] = n] ELSE labels

\* The id of the offer is kept before anything else.
Noted(k, n) ==
    /\ offers' = n
    /\ labels' = IF k \in Labelled THEN [labels EXCEPT ![k] = n] ELSE labels

\* No token, or no credentials.
OfferFails(k) ==
    /\ offers < OfferMax /\ Noted(k, offers + 1)
    /\ UNCHANGED <<faults, peers, since, queue, sent, cache, bytes>>

\* The peer is still connecting: no answer is sent.
OfferSkipped(k, ttl) ==
    /\ offers < OfferMax /\ k \in Live \ Fresh /\ peers[k].state = "connecting"
    /\ Noted(k, offers + 1) /\ TurnCreds(ttl)
    /\ UNCHANGED <<faults, peers, since, queue, sent, bytes>>

ShouldCreate(k) ==
    k \notin Live \/ k \in Fresh \/ peers[k].state \in Dead \cup {"disconnected"}

\* The peer that the offer is for: a new one, or the one that is there.
Accepted(k, state) ==
    IF ShouldCreate(k) THEN NewPeer(offers + 1, state)
    ELSE [peers[k] EXCEPT !.state = IF @ = "new" THEN state ELSE @]

\* An offer that is applied starts the connection; one that fails leaves
\* the peer in the table; one that takes too long closes it.
OfferTaken(k, ttl, outcome) ==
    /\ offers < OfferMax /\ ~(k \in Live \ Fresh /\ peers[k].state = "connecting")
    /\ Noted(k, offers + 1) /\ TurnCreds(ttl)
    /\ peers' = [peers EXCEPT ![k] =
                    CASE outcome = "answered" -> Accepted(k, "connecting")
                      [] outcome = "refused" -> Accepted(k, "new")
                      [] outcome = "timeout" -> NoPeer]
    /\ since' = IF ShouldCreate(k) \/ outcome = "timeout" THEN [since EXCEPT ![k] = Never] ELSE since
    /\ \E slow \in Slow({k} \cap Live) :
          /\ Slowed(slow)
          /\ IF ShouldCreate(k) \/ outcome = "timeout"
               THEN ClosePeers({k}, slow)
               ELSE UNCHANGED bytes
    /\ UNCHANGED <<queue, sent>>

Offer(k) ==
    /\ k \in Keys
    /\ \/ OfferFails(k)
       \/ \E ttl \in Ttls :
             \/ OfferSkipped(k, ttl)
             \/ \E o \in {"answered", "refused", "timeout"} : OfferTaken(k, ttl, o)

SessionOffer == Offer("session")
StatsOffer == Offer("stats")
FilesOffer == Offer("files")
AgentOffer == Offer("agent")

-----------------------------------------------------------------------------
(* webrtc_manager.rs: poll_events                                          *)

Since(k) == IF since[k] = Never THEN 0 ELSE since[k]

Expired(k) ==
    \/ peers[k].state \in Dead
    \/ peers[k].state = "disconnected" /\ Since(k) >= Grace

Pending == {k \in Live : ~Expired(k) /\ peers[k].gathered = 1}

\* Candidates go to the queue of events, in any order of the keys.
Queued == SetToSeqs(Pending)

\* One poll.  The deadline of the poll may cut it while it closes the peers:
\* then only some are closed, and the one it was at loses its tail.
Poll ==
    \E gone \in SUBSET {k \in Live : Expired(k)} :
    \E slow \in Slow(gone) :
    \E q \in Queued :
      /\ gone = {k \in Live : Expired(k)} \/ slow # {}
      /\ Slowed(slow)
      /\ peers' = [k \in Keys |->
                     IF k \in gone THEN NoPeer
                     ELSE IF k \in Pending THEN [peers[k] EXCEPT !.gathered = 2]
                     ELSE peers[k]]
      /\ since' = [k \in Keys |->
                     IF k \in Live \ gone /\ peers[k].state = "disconnected" THEN Since(k)
                     ELSE IF k \in Live THEN Never ELSE since[k]]
      /\ ClosePeers(gone, slow)
      /\ queue' = queue \o [i \in DOMAIN q |-> [key |-> q[i], gen |-> peers[q[i]].gen]]
      /\ UNCHANGED <<offers, labels, sent, cache>>

-----------------------------------------------------------------------------
(* daemon.rs: candidates, usage reports, and the end of a connection       *)

\* The label is the one that the key has when the event is handled.
SendCandidate ==
    /\ queue # <<>>
    /\ queue' = Tail(queue)
    /\ sent' = IF queue[1].key \in Labelled
                 THEN sent \cup {[gen |-> queue[1].gen, label |-> labels[queue[1].key]]} ELSE sent
    /\ UNCHANGED <<offers, faults, peers, since, labels, cache, bytes>>

\* The snapshots of the peers in K are taken; those that are slow add nothing.
Counted(K) ==
    [k \in Keys |-> IF k \in K \cap Live THEN [peers[k] EXCEPT !.counted = peers[k].total] ELSE peers[k]]

\* Without a token the bytes are dropped.
UsageTick ==
    \E slow \in Slow(Live) : \E token \in {TRUE, faults >= Faults} :
      LET delta == pending + RelayDelta(Live \ slow) IN
      /\ faults' = IF slow = {} /\ token THEN faults ELSE faults + 1
      /\ peers' = Counted(Live \ slow)
      /\ pending' = 0
      /\ flight' = IF token /\ delta > 0 THEN Append(flight, delta) ELSE flight
      /\ lost' = IF token THEN lost ELSE lost + delta
      /\ UNCHANGED <<offers, since, labels, queue, sent, cache, relayed, billed>>

\* The deadline of the whole collection passes after some of the snapshots
\* were taken.
UsageTimeout(done) ==
    /\ faults < Faults /\ faults' = faults + 1
    /\ done # Live
    /\ peers' = Counted(done)
    /\ lost' = lost + RelayDelta(done)
    /\ UNCHANGED <<offers, since, labels, queue, sent, cache, relayed, pending, flight, billed>>

Reported(ok) ==
    /\ flight # <<>> /\ (ok \/ faults < Faults)
    /\ faults' = IF ok THEN faults ELSE faults + 1
    /\ flight' = Tail(flight)
    /\ billed' = IF ok THEN billed + flight[1] ELSE billed
    /\ lost' = IF ok THEN lost ELSE lost + flight[1]
    /\ UNCHANGED <<offers, peers, since, labels, queue, sent, cache, relayed, pending>>

\* The control plane connection ends: close_all.
ConnectionEnds ==
    /\ Live # {}
    /\ \E slow \in Slow(Live) : Slowed(slow) /\ ClosePeers(Live, slow)
    /\ peers' = [k \in Keys |-> NoPeer]
    /\ since' = [k \in Keys |-> Never]
    /\ UNCHANGED <<offers, labels, queue, sent, cache>>

Next ==
    \/ Tick \/ Poll \/ SendCandidate \/ UsageTick \/ ConnectionEnds
    \/ \E k \in Keys :
          \/ \E to \in {"connected", "disconnected", "failed", "closed"} : StateChanges(k, to)
          \/ Relays(k) \/ PairLeaves(k) \/ Gathers(k)
    \/ SessionOffer \/ StatsOffer \/ FilesOffer \/ AgentOffer
    \/ \E done \in SUBSET Live : UsageTimeout(done)
    \/ \E ok \in BOOLEAN : Reported(ok)

\* The timer of the loop ticks, and its two turns come round.
Fairness == WF_vars(Tick) /\ WF_vars(Poll) /\ WF_vars(SendCandidate)

Spec == Init /\ [][Next]_vars /\ Fairness

-----------------------------------------------------------------------------
(* Properties                                                              *)

\* Every relayed byte is billed, on its way, not counted yet, or lost to one
\* of the timeouts and failures above: closing a peer, replacing it, or
\* counting it twice never changes the sum.  The reports on their way are added
\* up by their running total.
BytesAccounted ==
    \E sum \in [0..Len(flight) -> 0..relayed] :
      /\ sum[0] = 0 /\ \A i \in 1..Len(flight) : sum[i] = sum[i - 1] + flight[i]
      /\ relayed = billed + pending + lost + RelayDelta(Keys) + sum[Len(flight)]

\* A candidate never goes out under the id of an offer older than the one
\* its peer was made for.
LabelNotStale == \A c \in sent : c.label >= c.gen

\* While the backend's credentials last MinTtl, those that the cache still
\* serves outlive the margin.
CredsOutliveMargin == cache.ttl >= MinTtl /\ cache.served > 0 => cache.valid > Margin

Dying(k) == k \in Live /\ peers[k].state \in Dead \cup {"disconnected"}

\* A peer that failed, or that stays disconnected, leaves the table
\* (webrtc_manager.rs 401-440).
DeadPeerLeaves == \A k \in Keys : Dying(k) ~> ~Dying(k)

=============================================================================
