---------------------------- MODULE SessionCipher ----------------------------
(***************************************************************************)
(* Encrypted file requests of a device through the backend: the            *)
(* x25519_public_key and encrypted_file_payload handlers (daemon.rs) and   *)
(* SessionCipher with its counters (signaling_crypto.rs), which both sides *)
(* use.  There is one session.  A key stands for what an exchange derives; *)
(* a message is read only with its own key.  The backend loses, reorders   *)
(* and repeats messages.                                                   *)
(***************************************************************************)
EXTENDS Integers, Sequences, FiniteSets

CONSTANTS
    KeyMax,     \* bound on key exchanges
    ReqMax,     \* bound on requests under one key
    Frames      \* frames of a response

CipherAssumption == KeyMax \in Nat /\ ReqMax \in Nat /\ Frames \in Nat

VARIABLES
    host,       \* the cipher in session_ciphers, or NoCipher
    mobile,     \* the cipher of the device
    keys,       \* number of exchanges
    net,        \* messages: [key, from, counter, body]; and [key] of responses
    done,       \* requests that the host has carried out, in order: <<key, n>>
    shown       \* response frames that the device has read: <<key, counter>>

vars == <<host, mobile, keys, net, done, shown>>

NoCipher == [key |-> 0, send |-> 0, recv |-> 0]
New(k) == [key |-> k, send |-> 0, recv |-> 0]

Init ==
    /\ host = NoCipher /\ mobile = NoCipher /\ keys = 0
    /\ net = {} /\ done = <<>> /\ shown = <<>>

-----------------------------------------------------------------------------
(* SessionCipher                                                           *)

Message(cipher, from, body) ==
    [key |-> cipher.key, from |-> from, counter |-> cipher.send, body |-> body]

Advanced(cipher, n) == [cipher EXCEPT !.send = @ + n]

\* The other direction, the same key, and a counter that was not passed yet.
Readable(cipher, me, m) ==
    /\ m.from # me /\ m.key = cipher.key /\ m.counter >= cipher.recv

\* Mutant: the counter of the message itself is still accepted.
PassedTo(cipher, m) == [cipher EXCEPT !.recv = m.counter]

Passed(cipher, m) == [cipher EXCEPT !.recv = m.counter + 1]

-----------------------------------------------------------------------------
(* x25519_public_key                                                       *)

\* The cipher is replaced before the answer is signed and sent.
Exchange ==
    /\ keys < KeyMax /\ keys' = keys + 1
    /\ host' = New(keys + 1)
    /\ net' = net \cup {[key |-> keys + 1, from |-> "exchange", counter |-> 0, body |-> 0]}
    /\ UNCHANGED <<mobile, done, shown>>

\* Without a private key, or when signing fails, the cipher is removed again.
ExchangeFails ==
    /\ keys < KeyMax /\ keys' = keys + 1
    /\ host' = NoCipher
    /\ UNCHANGED <<mobile, net, done, shown>>

\* The device takes the answer of its latest exchange.
Established ==
    /\ \E m \in net : m.from = "exchange" /\ m.key = keys /\ mobile' = New(m.key)
    /\ mobile.key # keys
    /\ UNCHANGED <<host, keys, net, done, shown>>

\* The session ends or the control-plane connection drops: the host forgets.
Forget ==
    /\ host # NoCipher /\ host' = NoCipher
    /\ UNCHANGED <<mobile, keys, net, done, shown>>

-----------------------------------------------------------------------------
(* encrypted_file_payload                                                  *)

Asks ==
    /\ mobile # NoCipher /\ mobile.send < ReqMax
    /\ net' = net \cup {Message(mobile, "mobile", mobile.send)}
    /\ mobile' = Advanced(mobile, 1)
    /\ UNCHANGED <<host, keys, done, shown>>

\* The frames of an answer, each under a counter of its own.
Answered(n) == {Message(Advanced(host, k - 1), "host", k) : k \in 1..n}

\* The loop waits for the action, with the cipher in its hands, and then sends
\* the frames of the answer; a frame that cannot be sent is lost.
Handles(m) ==
    /\ m \in net /\ host # NoCipher /\ Readable(host, "host", m) /\ m.from = "mobile"
    /\ done' = Append(done, <<m.key, m.body>>)
    /\ \E n \in 1..Frames :
        /\ host' = Advanced(Passed(host, m), n)
        /\ \E lost \in SUBSET Answered(n) : net' = net \cup (Answered(n) \ lost)
    /\ UNCHANGED <<mobile, keys, shown>>

\* No cipher, another key, the wrong direction, or a counter that was passed.
Refuses(m) ==
    /\ m \in net /\ m.from = "mobile"
    /\ host = NoCipher \/ ~Readable(host, "host", m)
    /\ UNCHANGED vars

Reads(m) ==
    /\ m \in net /\ m.from = "host" /\ mobile # NoCipher /\ Readable(mobile, "mobile", m)
    /\ mobile' = Passed(mobile, m)
    /\ shown' = Append(shown, <<m.key, m.counter>>)
    /\ UNCHANGED <<host, keys, net, done>>

-----------------------------------------------------------------------------

Next ==
    \/ Exchange \/ ExchangeFails \/ Established \/ Forget \/ Asks
    \/ \E m \in net : Handles(m) \/ Refuses(m) \/ Reads(m)

Spec == Init /\ [][Next]_vars

-----------------------------------------------------------------------------
(* Properties                                                              *)

\* However messages are repeated and reordered, and keys replaced, no request is
\* carried out twice, and those of one key are carried out in the order in
\* which the device made them; the device reads the frames of the answers the
\* same way (signaling_crypto.rs 153-208).
InOrderOnce ==
    /\ \A i, j \in DOMAIN done : (i < j /\ done[i][1] = done[j][1]) => done[i][2] < done[j][2]
    /\ \A i, j \in DOMAIN shown : (i < j /\ shown[i][1] = shown[j][1]) => shown[i][2] < shown[j][2]

\* No two messages are ever encrypted under the same key, direction and counter
\* (signaling_crypto.rs 125-150).
NonceUnique ==
    \A m, n \in net :
        (m.key = n.key /\ m.from = n.from /\ m.counter = n.counter) => m = n

=============================================================================
