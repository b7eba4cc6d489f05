------------------------------- MODULE WsAuth -------------------------------
(***************************************************************************)
(* Signed messages of the devices that reach the host through the backend: *)
(* the check at the head of handle_signal (daemon.rs) and                  *)
(* verify_ws_message_auth (daemon/auth.rs), with its cache of nonces.      *)
(*                                                                         *)
(* Time is counted in half seconds.  Timestamps are whole seconds of the   *)
(* wall clock, the age of a nonce is measured by the monotonic clock.  The *)
(* network delays a message, and may deliver it again.  That a signature   *)
(* covers the message is taken from the cryptography.                      *)
(***************************************************************************)
EXTENDS Integers, FiniteSets, Functions

CONSTANTS
    Devices,
    Nonces,
    Types,      \* the kinds of message that need a signature, and their permission
    Skew,       \* WS_AUTH_MAX_SKEW_SECS
    Ttl,        \* WS_AUTH_NONCE_TTL, in seconds
    SweepAt,    \* NONCE_SWEEP_THRESHOLD
    Drift,      \* seconds by which the clock of a device may differ
    Horizon     \* half seconds that are modelled

\* A nonce is kept for longer than the skew (120 s and 60 s).
WsAuthAssumption ==
    /\ Skew \in Nat /\ Ttl \in Nat /\ Skew < Ttl
    /\ Drift \in Nat /\ Horizon \in Nat

VARIABLES
    now,        \* half seconds
    grants,     \* the permissions that each device has; none: it is not trusted
    sent,       \* messages that were signed: [device, nonce, ts, type]
    cache,      \* ws_auth_nonces: <<device, nonce>> -> when it was seen
    accepted    \* <<message, when>> of the messages that went to their handler

vars == <<now, grants, sent, cache, accepted>>

Wall == now \div 2

Abs(n) == IF n < 0 THEN -n ELSE n

Init ==
    /\ now = 2 * Drift
    /\ grants = [d \in Devices |-> Range(Types)]
    /\ sent = {} /\ cache = [k \in {} |-> 0] /\ accepted = {}

Tick ==
    /\ now < Horizon /\ now' = now + 1
    /\ UNCHANGED <<grants, sent, cache, accepted>>

\* A device signs with its own clock, and a nonce of its own.
Sign(d, n, t) ==
    /\ \A m \in sent : ~(m.device = d /\ m.nonce = n)
    /\ \E off \in -Drift..Drift :
          sent' = sent \cup {[device |-> d, nonce |-> n, ts |-> Wall + off, type |-> t]}
    /\ UNCHANGED <<now, grants, cache, accepted>>

\* Permissions are taken away, the last one with the trust.
Revoke(d, p) ==
    /\ p \in grants[d]
    /\ grants' = [grants EXCEPT ![d] = @ \ {p}]
    /\ UNCHANGED <<now, sent, cache, accepted>>

-----------------------------------------------------------------------------
(* verify_ws_message_auth                                                  *)

Key(m) == <<m.device, m.nonce>>
Trusted(m) == grants[m.device] # {}
Timely(m) == Abs(Wall - m.ts) <= Skew

\* How long a nonce is remembered, in half seconds.
Remembered(k) == now - cache[k] <= 2 * Ttl

\* Mutant: the sweep keeps the nonces of one skew.
SweptShort ==
    IF Cardinality(DOMAIN cache) >= SweepAt
    THEN Restrict(cache, {k \in DOMAIN cache : now - cache[k] <= Skew})
    ELSE cache

\* The cache is swept only once it has grown.
Swept ==
    IF Cardinality(DOMAIN cache) >= SweepAt
    THEN Restrict(cache, {k \in DOMAIN cache : Remembered(k)})
    ELSE cache

Replayed(m) == Key(m) \in DOMAIN Swept /\ Remembered(Key(m))

\* Not trusted, too old or too new: nothing is remembered.
Rejected(m) ==
    /\ m \in sent /\ ~(Trusted(m) /\ Timely(m))
    /\ UNCHANGED vars

\* A nonce that is known: the sweep has been done.
RejectedReplay(m) ==
    /\ m \in sent /\ Trusted(m) /\ Timely(m) /\ Replayed(m)
    /\ cache' = Swept
    /\ UNCHANGED <<now, grants, sent, accepted>>

\* The nonce is used up even if the permission is missing.
Verified(m) ==
    /\ m \in sent /\ Trusted(m) /\ Timely(m) /\ ~Replayed(m)
    /\ cache' = [k \in DOMAIN Swept \cup {Key(m)} |-> IF k = Key(m) THEN now ELSE Swept[k]]
    /\ accepted' = IF Types[m.type] \in grants[m.device] THEN accepted \cup {<<m, now>>} ELSE accepted
    /\ UNCHANGED <<now, grants, sent>>

-----------------------------------------------------------------------------

Next ==
    \/ Tick
    \/ \E d \in Devices, n \in Nonces, t \in DOMAIN Types : Sign(d, n, t)
    \/ \E d \in Devices, p \in Range(Types) : Revoke(d, p)
    \/ \E m \in sent : Rejected(m) \/ RejectedReplay(m) \/ Verified(m)

Spec == Init /\ [][Next]_vars

-----------------------------------------------------------------------------
(* Properties                                                              *)

\* A message that was not ahead of the host's clock when it was first accepted
\* is handled once, however often and late it is delivered again, and whenever
\* the cache is swept (auth.rs 502-506, 560-581).  One that was ahead by the
\* whole skew may come back in the last second, since the wall clock is cut to
\* seconds and the age of the nonce is not.
HandledOnce ==
    \A a, b \in accepted :
        (a[1] = b[1] /\ a[2] < b[2]) => a[1].ts > a[2] \div 2

=============================================================================
