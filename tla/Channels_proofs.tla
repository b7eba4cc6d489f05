--------------------------- MODULE Channels_proofs ---------------------------
(***************************************************************************)
(* Proofs about the components of MCChannels: ChannelAuth, WsAuth,         *)
(* SessionCipher, LocalAttach, ControlPlane, HttpForward and WsTunnel,     *)
(* each for every value of its constants that its assumption admits.  The  *)
(* theorems are about the specifications of the components; the last       *)
(* section carries them over to the composition that TLC checks.           *)
(***************************************************************************)
EXTENDS MCChannels, Sequences, FiniteSets, FiniteSetTheorems, SequenceTheorems, TLAPS

-----------------------------------------------------------------------------
(* ChannelAuth: what is authenticated, and until when.                     *)

\* The events of the channels.
ChannelEvents == [type : Channels!EventTypes, chan : Ids, answers : Ids \cup {0}]

\* Events come from channels with callbacks; the close event of a channel is its
\* last, and an answer names a challenge.
EventsSound ==
    \A i \in DOMAIN events :
        /\ st[events[i].chan] \in {"open", "closing", "closed"}
        /\ events[i].type = "answer" => events[i].answers # 0
        /\ events[i].type = "closed" =>
               /\ st[events[i].chan] = "closed"
               /\ \A j \in DOMAIN events : j > i => events[j].chan # events[i].chan

\* What a channel was before it had callbacks, it is not again.
Early == {"unused", "queued", "stillborn"}
ProvenOpened == \A c \in proven : st[c] \notin Early

\* An http channel is challenged only while the forwarding session is its own.
ChallengeMatches ==
    \A d \in Devices, c \in Ids : pending[<<"http", d, c>>] # 0 => forwards[d] = c

\* Trust in memory is trust in the file, but for what the command line removed.
TrustOnDisk == trusted \subseteq disk \cup byCli

\* What is authenticated, by which channel, and for whom.
AuthInv ==
    /\ ProvenOpened /\ ChallengeMatches /\ TrustOnDisk
    /\ Channels!AuthHasChannel /\ Channels!RevokedSilenced
    /\ Channels!HttpSessionMatches /\ Channels!HttpEarned

\* The inductive invariant of ChannelAuth.
ChannelInv == Channels!TypeOK /\ EventsSound /\ AuthInv

\* The key of a channel says its kind, and but for terminals its device.
LEMMA KeyFacts ==
  ASSUME Channels!TypeOK, NEW c \in Ids
  PROVE  /\ Channels!Key(c) \in Channels!Keys
         /\ Channels!Key(c)[1] = kind[c]
         /\ \A d \in Devices : Channels!Key(c) \in Channels!KeysOf(d) => d = dev[c]
         /\ kind[c] = "http" => /\ Channels!Key(c) = <<"http", dev[c], c>>
                                /\ Channels!Key(c) \in Channels!HttpKeys(dev[c])
         /\ \A e \in Ids : (kind[c] = "http" /\ Channels!Key(e) = Channels!Key(c)) => e = c
<1>0. dev[c] \in Devices /\ kind[c] \in Channels!Kinds
  BY DEF Channels!TypeOK
<1>1. CASE kind[c] = "terminal"
  <2>1. Channels!Key(c) = <<"terminal">>
    BY <1>1 DEF Channels!Key
  <2> QED
    BY <1>1, <2>1 DEF Channels!Keys, Channels!KeysOf
<1>2. CASE kind[c] = "http"
  <2>1. Channels!Key(c) = <<"http", dev[c], c>>
    BY <1>2 DEF Channels!Key
  <2>2. Channels!Key(c) \in Channels!Keys
    BY <1>0, <2>1 DEF Channels!Keys
  <2>3. Channels!Key(c) \in Channels!HttpKeys(dev[c])
    BY <2>1, <2>2 DEF Channels!HttpKeys, Channels!KeysOf
  <2>4. ASSUME NEW e \in Ids, Channels!Key(e) = Channels!Key(c) PROVE e = c
    <3>1. dev[e] \in Devices /\ kind[e] \in Channels!Kinds
      BY DEF Channels!TypeOK
    <3>2. kind[e] = "http"
      BY <2>1, <2>4, <3>1 DEF Channels!Key, Channels!Kinds, Channels!DeviceKinds
    <3> QED
      BY <2>1, <2>4, <3>2 DEF Channels!Key
  <2> QED
    BY <1>2, <2>1, <2>2, <2>3, <2>4 DEF Channels!KeysOf
<1>3. CASE kind[c] \in Channels!DeviceKinds
  <2>1. Channels!Key(c) = <<kind[c], dev[c]>> /\ kind[c] # "http"
    BY <1>3 DEF Channels!Key, Channels!DeviceKinds
  <2> QED
    BY <1>0, <1>3, <2>1 DEF Channels!Keys, Channels!KeysOf
<1> QED
  BY <1>0, <1>1, <1>2, <1>3 DEF Channels!Kinds

\* The keys of the http channels of d, and only those, are HttpKeys(d).
LEMMA HttpKeyFacts ==
  /\ \A d \in Devices, c \in Ids :
        /\ <<"http", d, c>> \in Channels!Keys
        /\ \A e \in Devices : <<"http", d, c>> \in Channels!KeysOf(e) <=> d = e
        /\ \A e \in Devices : <<"http", d, c>> \in Channels!HttpKeys(e) <=> d = e
  /\ \A d \in Devices : Channels!HttpKeys(d) \subseteq Channels!KeysOf(d)
  /\ \A d \in Devices : Channels!KeysOf(d) \subseteq Channels!Keys
BY DEF Channels!Keys, Channels!KeysOf, Channels!HttpKeys

\* An event at the end of the queue.
LEMMA EventAppended ==
  ASSUME Channels!TypeOK, EventsSound, NEW e \in ChannelEvents, events' = Append(events, e),
         st[e.chan] # "closed",
         \A c \in Ids \ {e.chan} : st'[c] = st[c],
         st'[e.chan] \in {"open", "closing", "closed"},
         e.type = "answer" => e.answers # 0,
         e.type = "closed" => st'[e.chan] = "closed",
         e.type # "closed" /\ st'[e.chan] = "closed" => st[e.chan] \in Early
  PROVE  events' \in Seq(ChannelEvents) /\ EventsSound'
<1> DEFINE n == Len(events) + 1
<1>0. events \in Seq(ChannelEvents) /\ e.chan \in Ids
  BY DEF Channels!TypeOK, ChannelEvents
<1>1. /\ events' \in Seq(ChannelEvents) /\ n \in Nat
      /\ DOMAIN events = 1..(n - 1) /\ DOMAIN events' = 1..n
      /\ events'[n] = e /\ \A i \in 1..(n - 1) : events'[i] = events[i]
  BY <1>0
<1>2. \A i \in 1..(n - 1) : events[i].chan \in Ids
  <2>1. \A i \in 1..(n - 1) : events[i] \in ChannelEvents
    BY <1>0, <1>1
  <2> QED
    BY <2>1 DEF ChannelEvents
<1> HIDE DEF n
<1>3. ASSUME NEW i \in 1..n
      PROVE  /\ st'[events'[i].chan] \in {"open", "closing", "closed"}
             /\ events'[i].type = "answer" => events'[i].answers # 0
             /\ events'[i].type = "closed" =>
                   /\ st'[events'[i].chan] = "closed"
                   /\ \A j \in 1..n : j > i => events'[j].chan # events'[i].chan
  <2>1. CASE i = n
    BY <1>1, <2>1
  <2>2. CASE i \in 1..(n - 1)
    <3>1. /\ events'[i] = events[i] /\ i \in DOMAIN events
          /\ \A j \in 1..n : j = n \/ j \in 1..(n - 1)
      BY <1>1, <2>2
    <3>2. CASE events[i].chan = e.chan
      BY <1>1, <3>1, <3>2 DEF EventsSound
    <3>3. CASE events[i].chan # e.chan
      BY <1>1, <1>2, <2>2, <3>1, <3>3, SMTT(30) DEF EventsSound
    <3> QED
      BY <3>2, <3>3
  <2> QED
    BY <1>1, <2>1, <2>2
<1> QED
  BY <1>1, <1>3 DEF EventsSound

\* The first event leaves the queue; its channel is gone if it was the close.
LEMMA EventHandled ==
  ASSUME Channels!TypeOK, EventsSound, NEW t, NEW c \in Ids, Channels!Handle(t, c),
         \/ st' = st
         \/ t = "closed" /\ st' = [st EXCEPT ![c] = "gone"]
  PROVE  /\ events' \in Seq(ChannelEvents) /\ EventsSound'
         /\ st[c] \in {"open", "closing", "closed"}
         /\ t = "closed" => st[c] = "closed"
         /\ t = "answer" => Head(events).answers \in Ids
<1>0. events \in Seq(ChannelEvents) /\ st \in [Ids -> Channels!Stages]
  BY DEF Channels!TypeOK, ChannelEvents
<1>1. /\ events # <<>> /\ events' = Tail(events) /\ events[1].type = t /\ events[1].chan = c
      /\ Head(events) = events[1] /\ 1 \in DOMAIN events
      /\ events[1] \in ChannelEvents
  BY <1>0 DEF Channels!Handle
<1>2. /\ events' \in Seq(ChannelEvents)
      /\ \A i \in DOMAIN events' : i \in Nat /\ i >= 1 /\ i + 1 \in DOMAIN events /\ events'[i] = events[i + 1]
  BY <1>0, <1>1
<1>3. \A i \in DOMAIN events : events[i].chan \in Ids
  <2>1. \A i \in DOMAIN events : events[i] \in ChannelEvents
    BY <1>0
  <2> QED
    BY <2>1 DEF ChannelEvents
<1>4. EventsSound'
  <2> SUFFICES ASSUME NEW i \in DOMAIN events'
               PROVE  /\ st'[events'[i].chan] \in {"open", "closing", "closed"}
                      /\ events'[i].type = "answer" => events'[i].answers # 0
                      /\ events'[i].type = "closed" =>
                            /\ st'[events'[i].chan] = "closed"
                            /\ \A j \in DOMAIN events' : j > i => events'[j].chan # events'[i].chan
    BY DEF EventsSound
  <2>1. /\ i + 1 \in DOMAIN events /\ events'[i] = events[i + 1] /\ i + 1 > 1
        /\ events[i + 1].chan \in Ids
    BY <1>2, <1>3
  <2>2. st'[events'[i].chan] = st[events'[i].chan]
    <3>1. CASE t = "closed"
      BY <1>0, <1>1, <2>1, <3>1 DEF EventsSound
    <3> QED
      BY <3>1
  <2>3. \A j \in DOMAIN events' : j > i => j + 1 > i + 1
    BY <1>2
  <2> QED
    BY <1>2, <2>1, <2>2, <2>3 DEF EventsSound
<1> QED
  BY <1>1, <1>2, <1>4 DEF EventsSound, ChannelEvents

\* Steps of the channels themselves keep what is said of the authentication.
LEMMA AuthKept ==
  ASSUME Channels!TypeOK, AuthInv,
         UNCHANGED <<dev, kind, pending, expects, authed, forwards, proven, accepted,
                     trusted, disk, revoked, byCli>>,
         \A c \in Ids : st[c] \notin Early \cup {"gone"} => st'[c] \notin Early \cup {"gone"},
         \A c \in Ids : st[c] = "gone" => st'[c] = "gone"
  PROVE  AuthInv'
<1>1. \A c \in Ids : Channels!Key(c)' = Channels!Key(c)
  BY DEF Channels!Key
<1>2. \A c \in proven : c \in Ids
  BY DEF Channels!TypeOK
<1>3. ProvenOpened' /\ ChallengeMatches' /\ TrustOnDisk'
  BY <1>2 DEF AuthInv, ProvenOpened, ChallengeMatches, TrustOnDisk, Early
<1>4. Channels!AuthHasChannel'
  BY <1>1, <1>2 DEF AuthInv, ProvenOpened, Channels!AuthHasChannel
<1>5. Channels!RevokedSilenced' /\ Channels!HttpSessionMatches' /\ Channels!HttpEarned'
  BY DEF AuthInv, Channels!RevokedSilenced, Channels!HttpSessionMatches, Channels!HttpEarned,
     Channels!KeysOf, Channels!Keys
<1> QED
  BY <1>3, <1>4, <1>5 DEF AuthInv

\* At the start nothing is open, challenged or authenticated.
LEMMA ChannelInit == Channels!Init => ChannelInv
<1> SUFFICES ASSUME Channels!Init PROVE ChannelInv
  OBVIOUS
<1>1. Channels!TypeOK
  BY ChannelAssumption DEF Channels!ChannelAssumption, Channels!Init, Channels!TypeOK, Channels!Kinds,
     Channels!DeviceKinds, Channels!Stages
<1>2. EventsSound
  BY DEF Channels!Init, EventsSound
<1>3. AuthInv
  BY HttpKeyFacts DEF Channels!Init, AuthInv, ProvenOpened, ChallengeMatches, TrustOnDisk, Channels!AuthHasChannel,
     Channels!RevokedSilenced, Channels!HttpSessionMatches, Channels!HttpEarned
<1> QED
  BY <1>1, <1>2, <1>3 DEF ChannelInv

\* The channels: they arrive, enter the tables, close and send.
\* Callbacks, handlers, sessions and trust keep the invariant.
LEMMA ChannelSteps ==
  ASSUME ChannelInv, NEW c \in Ids,
         \/ Channels!Arrives(c) \/ Channels!NewChannel(c) \/ Channels!RemoteCloses(c)
         \/ Channels!CloseRuns(c) \/ Channels!Answers(c) \/ Channels!Sends(c)
  PROVE  ChannelInv'
<1> USE DEF Channels!authVars, Channels!trustVars, Channels!channelVars
<1>0. /\ Channels!TypeOK /\ EventsSound /\ AuthInv
      /\ st \in [Ids -> Channels!Stages] /\ st[c] \in Channels!Stages
      /\ \A t \in Channels!EventTypes : Channels!Event(t, c) \in ChannelEvents
  BY DEF ChannelInv, Channels!TypeOK, Channels!Event, ChannelEvents
<1>1. CASE Channels!Arrives(c)
  <2>1. /\ st[c] = "unused" /\ st' = [st EXCEPT ![c] = "queued"]
        /\ UNCHANGED <<dev, kind, tables, chal, events, pending, expects, authed, forwards, proven,
                       accepted, owner, trusted, disk, revoked, byCli>>
    BY <1>1 DEF Channels!Arrives
  <2>2. Channels!TypeOK'
    BY <1>0, <2>1 DEF Channels!TypeOK, Channels!Stages, Channels!Keys
  <2>3. EventsSound'
    <3>1. \A i \in DOMAIN events : events[i].chan # c /\ st'[events[i].chan] = st[events[i].chan]
      BY <1>0, <2>1 DEF EventsSound
    <3> QED
      BY <1>0, <2>1, <3>1 DEF EventsSound
  <2>4. AuthInv'
    BY <1>0, <2>1, AuthKept DEF Early
  <2> QED
    BY <2>2, <2>3, <2>4 DEF ChannelInv
<1>2. CASE Channels!NewChannel(c)
  <2> DEFINE e == Channels!Event("opened", c)
  <2>1. /\ st[c] \in {"queued", "stillborn"} /\ tables' = tables \cup {c}
        /\ st' = [st EXCEPT ![c] = IF @ = "queued" THEN "open" ELSE "closed"]
        /\ events' = Append(events, e)
        /\ e \in ChannelEvents /\ e.chan = c /\ e.type = "opened"
        /\ UNCHANGED <<dev, kind, chal, pending, expects, authed, forwards, proven,
                       accepted, owner, trusted, disk, revoked, byCli>>
    BY <1>0, <1>2 DEF Channels!NewChannel, Channels!Event, Channels!EventTypes
  <2>2. st'[c] \in {"open", "closed"} /\ \A x \in Ids \ {c} : st'[x] = st[x]
    BY <1>0, <2>1
  <2> HIDE DEF e
  <2>3. events' \in Seq(ChannelEvents) /\ EventsSound'
    BY <1>0, <2>1, <2>2, EventAppended DEF Early
  <2>4. Channels!TypeOK'
    BY <1>0, <2>1, <2>2, <2>3 DEF Channels!TypeOK, Channels!Stages, ChannelEvents, Channels!Keys
  <2>5. AuthInv'
    BY <1>0, <2>1, <2>2, AuthKept DEF Early
  <2> QED
    BY <2>3, <2>4, <2>5 DEF ChannelInv
<1>3. CASE Channels!RemoteCloses(c)
  <2>0. UNCHANGED <<dev, kind, tables, chal, pending, expects, authed, forwards, proven,
                    accepted, owner, trusted, disk, revoked, byCli>>
    BY <1>3 DEF Channels!RemoteCloses
  <2>1. CASE st[c] = "queued" /\ st' = [st EXCEPT ![c] = "stillborn"] /\ UNCHANGED events
    <3>1. Channels!TypeOK'
      BY <1>0, <2>0, <2>1 DEF Channels!TypeOK, Channels!Stages, Channels!Keys
    <3>2. EventsSound'
      <4>1. \A i \in DOMAIN events : events[i].chan # c /\ st'[events[i].chan] = st[events[i].chan]
        BY <1>0, <2>1 DEF EventsSound
      <4> QED
        BY <1>0, <2>1, <4>1 DEF EventsSound
    <3>3. AuthInv'
      BY <1>0, <2>0, <2>1, AuthKept DEF Early
    <3> QED
      BY <3>1, <3>2, <3>3 DEF ChannelInv
  <2>2. CASE /\ st[c] = "open" /\ st' = [st EXCEPT ![c] = "closed"]
             /\ events' = Append(events, Channels!Event("closed", c))
    <3> DEFINE e == Channels!Event("closed", c)
    <3>1. /\ events' = Append(events, e) /\ e \in ChannelEvents /\ e.chan = c /\ e.type = "closed"
          /\ st'[c] = "closed" /\ \A x \in Ids \ {c} : st'[x] = st[x]
      BY <1>0, <2>2 DEF Channels!Event, Channels!EventTypes
    <3> HIDE DEF e
    <3>2. events' \in Seq(ChannelEvents) /\ EventsSound'
      BY <1>0, <2>2, <3>1, EventAppended
    <3>3. Channels!TypeOK'
      BY <1>0, <2>0, <2>2, <3>1, <3>2 DEF Channels!TypeOK, Channels!Stages, ChannelEvents, Channels!Keys
    <3>4. AuthInv'
      BY <1>0, <2>0, <2>2, <3>1, AuthKept DEF Early
    <3> QED
      BY <3>2, <3>3, <3>4 DEF ChannelInv
  <2> QED
    BY <1>3, <2>1, <2>2 DEF Channels!RemoteCloses
<1>4. CASE Channels!CloseRuns(c)
  <2> DEFINE e == Channels!Event("closed", c)
  <2>1. /\ st[c] = "closing" /\ st' = [st EXCEPT ![c] = "closed"]
        /\ events' = Append(events, e)
        /\ e \in ChannelEvents /\ e.chan = c /\ e.type = "closed"
        /\ UNCHANGED <<dev, kind, tables, chal, pending, expects, authed, forwards, proven,
                       accepted, owner, trusted, disk, revoked, byCli>>
    BY <1>0, <1>4 DEF Channels!CloseRuns, Channels!Event, Channels!EventTypes
  <2>2. st'[c] = "closed" /\ \A x \in Ids \ {c} : st'[x] = st[x]
    BY <1>0, <2>1
  <2> HIDE DEF e
  <2>3. events' \in Seq(ChannelEvents) /\ EventsSound'
    BY <1>0, <2>1, <2>2, EventAppended
  <2>4. Channels!TypeOK'
    BY <1>0, <2>1, <2>2, <2>3 DEF Channels!TypeOK, Channels!Stages, ChannelEvents, Channels!Keys
  <2>5. AuthInv'
    BY <1>0, <2>1, <2>2, AuthKept DEF Early
  <2> QED
    BY <2>3, <2>4, <2>5 DEF ChannelInv
<1>5. CASE Channels!Answers(c) \/ Channels!Sends(c)
  <2>1. PICK e \in ChannelEvents :
          /\ events' = Append(events, e) /\ e.chan = c /\ e.type # "closed"
          /\ e.type = "answer" => e.answers # 0
          /\ st[c] = "open" /\ st' = st
          /\ UNCHANGED <<dev, kind, tables, chal, pending, expects, authed, forwards, proven,
                         accepted, owner, trusted, disk, revoked, byCli>>
    <3>1. CASE Channels!Answers(c)
      <4>1. chal[c] \in Ids \cup {0} /\ chal[c] # 0
        BY <1>0, <3>1 DEF Channels!TypeOK, Channels!Answers
      <4>2. [Channels!Event("answer", c) EXCEPT !.answers = chal[c]] =
               [type |-> "answer", chan |-> c, answers |-> chal[c]]
        BY DEF Channels!Event
      <4>3. [type |-> "answer", chan |-> c, answers |-> chal[c]] \in ChannelEvents
        BY <4>1 DEF ChannelEvents, Channels!EventTypes
      <4> QED
        BY <3>1, <4>1, <4>2, <4>3 DEF Channels!Answers
    <3>2. CASE Channels!Sends(c)
      BY <1>0, <3>2 DEF Channels!Sends, Channels!Event, Channels!EventTypes
    <3> QED
      BY <1>5, <3>1, <3>2
  <2>2. events' \in Seq(ChannelEvents) /\ EventsSound'
    BY <1>0, <2>1, EventAppended
  <2>3. Channels!TypeOK'
    BY <1>0, <2>1, <2>2 DEF Channels!TypeOK, ChannelEvents, Channels!Keys
  <2>4. AuthInv'
    BY <1>0, <2>1, AuthKept
  <2> QED
    BY <2>2, <2>3, <2>4 DEF ChannelInv
<1> QED
  BY <1>1, <1>2, <1>3, <1>4, <1>5

\* The host closes the peer that carries some channels of a device.
LEMMA PeerSteps ==
  ASSUME ChannelInv, NEW d \in Devices, NEW cs \in SUBSET Ids, Channels!PeerCloses(d, cs)
  PROVE  ChannelInv'
<1> USE DEF Channels!authVars, Channels!trustVars
<1>0. /\ Channels!TypeOK /\ EventsSound /\ AuthInv
      /\ st \in [Ids -> Channels!Stages] /\ tables \subseteq Ids
  BY DEF ChannelInv, Channels!TypeOK
<1>1. /\ tables' = tables \ cs
      /\ UNCHANGED <<dev, kind, chal, events, pending, expects, authed, forwards, proven,
                     accepted, owner, trusted, disk, revoked, byCli>>
  BY DEF Channels!PeerCloses, Channels!ClosePeer
<1>2. st' = [c \in Ids |->
               IF c \in cs /\ st[c] = "open" /\ c \in tables THEN "closing"
               ELSE IF c \in cs /\ st[c] \in {"queued", "stillborn"} THEN "gone"
               ELSE st[c]]
  BY DEF Channels!PeerCloses, Channels!ClosePeer
<1>3. st' \in [Ids -> Channels!Stages]
  BY <1>0, <1>2 DEF Channels!Stages
<1>4. \A c \in Ids : \/ st'[c] = st[c]
                     \/ st[c] = "open" /\ c \in cs /\ st'[c] = "closing"
                     \/ st[c] \in {"queued", "stillborn"} /\ st'[c] = "gone"
  BY <1>2
<1>5. Channels!TypeOK'
  BY <1>0, <1>1, <1>3, <1>4 DEF Channels!TypeOK, Channels!Keys
<1>6. EventsSound'
  <2>0. events \in Seq(ChannelEvents)
    BY <1>0 DEF Channels!TypeOK, ChannelEvents
  <2>1. \A i \in DOMAIN events : events[i] \in ChannelEvents
    BY <2>0
  <2>2. \A i \in DOMAIN events : events[i].chan \in Ids
    BY <2>1 DEF ChannelEvents
  <2> QED
    BY <1>0, <1>1, <1>3, <1>4, <2>2 DEF EventsSound
<1>7. AuthInv'
  BY <1>0, <1>1, <1>3, <1>4, AuthKept DEF Early
<1> QED
  BY <1>5, <1>6, <1>7 DEF ChannelInv

\* A challenge is issued.
LEMMA OpenedSteps ==
  ASSUME ChannelInv, NEW c \in Ids,
         \/ Channels!TerminalOpened(c)
         \/ Channels!DeviceOpened(c) /\ kind[c] \in Channels!DeviceKinds
         \/ Channels!HttpOpened(c)
  PROVE  ChannelInv'
<1> USE DEF Channels!trustVars
<1>0. /\ Channels!TypeOK /\ EventsSound /\ AuthInv
      /\ dev[c] \in Devices /\ Channels!Key(c) \in Channels!Keys
      /\ Channels!Key(c)[1] = kind[c]
  BY KeyFacts DEF ChannelInv, Channels!TypeOK
<1>1. /\ Channels!Handle("opened", c)
      /\ UNCHANGED <<dev, kind, st, proven, accepted, owner, trusted, disk, revoked, byCli>>
      /\ tables' \subseteq tables
  BY DEF Channels!TerminalOpened, Channels!DeviceOpened, Channels!HttpOpened, Channels!Prune
<1>2. events' \in Seq(ChannelEvents) /\ EventsSound'
  BY <1>0, <1>1, EventHandled
<1>3. CASE Channels!TerminalOpened(c) \/ (Channels!DeviceOpened(c) /\ kind[c] \in Channels!DeviceKinds)
  <2>1. /\ UNCHANGED <<authed, forwards>>
        /\ chal' \in [Ids -> Ids \cup {0}]
        /\ pending' = pending \/ pending' = [pending EXCEPT ![Channels!Key(c)] = c]
        /\ \/ expects' = expects
           \/ \E d \in Devices \cup {NoDevice} : expects' = [expects EXCEPT ![Channels!Key(c)] = d]
    BY <1>0, <1>3 DEF Channels!TerminalOpened, Channels!DeviceOpened, Channels!Challenge, Channels!TypeOK
  <2>2. kind[c] # "http"
    BY <1>3 DEF Channels!TerminalOpened, Channels!DeviceKinds
  <2>3. pending' \in [Channels!Keys -> Ids \cup {0}] /\ expects' \in [Channels!Keys -> Devices \cup {NoDevice}]
    BY <1>0, <2>1 DEF Channels!TypeOK
  <2>4. Channels!TypeOK'
    BY <1>0, <1>1, <1>2, <2>1, <2>3 DEF Channels!TypeOK, ChannelEvents, Channels!Keys
  <2>5. \A d \in Devices, e \in Ids : pending'[<<"http", d, e>>] = pending[<<"http", d, e>>]
    <3>1. \A d \in Devices, e \in Ids : <<"http", d, e>> # Channels!Key(c)
      <4>1. \A d \in Devices, e \in Ids : <<"http", d, e>>[1] = "http"
        OBVIOUS
      <4> QED
        BY <1>0, <2>2, <4>1
    <3>2. \A d \in Devices, e \in Ids : <<"http", d, e>> \in Channels!Keys
      BY HttpKeyFacts
    <3>3. pending \in [Channels!Keys -> Ids \cup {0}]
      BY <1>0 DEF Channels!TypeOK
    <3>4. \A k \in Channels!Keys : k # Channels!Key(c) => pending'[k] = pending[k]
      BY <2>1, <3>3
    <3> QED
      BY <3>1, <3>2, <3>4
  <2>6. ChallengeMatches'
    BY <1>0, <2>1, <2>5 DEF AuthInv, ChallengeMatches
  <2>7. AuthInv'
    BY <1>0, <1>1, <2>1, <2>6 DEF AuthInv, ProvenOpened, TrustOnDisk, Channels!AuthHasChannel, Channels!Key,
       Channels!RevokedSilenced, Channels!HttpSessionMatches, Channels!HttpEarned, Channels!KeysOf, Channels!Keys
  <2> QED
    BY <1>2, <2>4, <2>7 DEF ChannelInv
<1>4. CASE Channels!HttpOpened(c)
  <2>1. /\ kind[c] = "http" /\ authed' = authed \ Channels!HttpKeys(dev[c])
        /\ pending' = [k \in Channels!Keys |-> IF k = Channels!Key(c) THEN c
                                  ELSE IF k \in Channels!HttpKeys(dev[c]) THEN 0 ELSE pending[k]]
        /\ expects' = [k \in Channels!Keys |-> IF k = Channels!Key(c) THEN dev[c]
                                  ELSE IF k \in Channels!HttpKeys(dev[c]) THEN NoDevice ELSE expects[k]]
        /\ forwards' = [forwards EXCEPT ![dev[c]] = c]
        /\ chal' = [chal EXCEPT ![c] = c]
    BY <1>4 DEF Channels!HttpOpened
  <2>2. pending' \in [Channels!Keys -> Ids \cup {0}] /\ expects' \in [Channels!Keys -> Devices \cup {NoDevice}]
    BY <1>0, <2>1 DEF Channels!TypeOK
  <2>3. forwards' \in [Devices -> Ids \cup {0}] /\ chal' \in [Ids -> Ids \cup {0}] /\ authed' \subseteq Channels!Keys
    BY <1>0, <2>1 DEF Channels!TypeOK
  <2>4. Channels!TypeOK'
    BY <1>0, <1>1, <1>2, <2>2, <2>3 DEF Channels!TypeOK, ChannelEvents, Channels!Keys
  <2>5. Channels!Key(c) = <<"http", dev[c], c>>
    BY <1>0, <2>1, KeyFacts
  <2>6. ASSUME NEW d \in Devices, NEW e \in Ids, pending'[<<"http", d, e>>] # 0
        PROVE  forwards'[d] = e
    <3>1. <<"http", d, e>> \in Channels!Keys /\ (<<"http", d, e>> \in Channels!HttpKeys(dev[c]) <=> d = dev[c])
      BY <1>0, HttpKeyFacts
    <3>2. CASE d = dev[c]
      <4>1. <<"http", d, e>> = Channels!Key(c)
        BY <2>1, <2>6, <3>1, <3>2
      <4> QED
        BY <1>0, <2>1, <2>5, <3>2, <4>1 DEF Channels!TypeOK
    <3>3. CASE d # dev[c]
      <4>1. pending'[<<"http", d, e>>] = pending[<<"http", d, e>>]
        BY <2>1, <2>5, <3>1, <3>3
      <4> QED
        BY <1>0, <2>1, <2>6, <3>3, <4>1 DEF Channels!TypeOK, AuthInv, ChallengeMatches
    <3> QED
      BY <3>2, <3>3
  <2>7. ASSUME NEW d \in Devices, NEW e \in Ids, <<"http", d, e>> \in authed'
        PROVE  forwards'[d] = e
    <3>1. d # dev[c] /\ <<"http", d, e>> \in authed
      BY <1>0, <2>1, <2>7, HttpKeyFacts
    <3> QED
      BY <1>0, <2>1, <3>1 DEF Channels!TypeOK, AuthInv, Channels!HttpSessionMatches
  <2>8. authed' \subseteq authed
    BY <2>1
  <2>9. AuthInv'
    BY <1>0, <1>1, <2>6, <2>7, <2>8 DEF AuthInv, ProvenOpened, ChallengeMatches, TrustOnDisk, Channels!AuthHasChannel,
       Channels!Key, Channels!RevokedSilenced, Channels!HttpSessionMatches, Channels!HttpEarned, Channels!KeysOf, Channels!Keys
  <2> QED
    BY <1>2, <2>4, <2>9 DEF ChannelInv
<1> QED
  BY <1>3, <1>4

\* What loses its authentication and its challenge.
LEMMA Deauthenticated ==
  ASSUME ChannelInv, NEW ks, Channels!Deauthenticate(ks)
  PROVE  /\ authed' = authed \ ks /\ authed' \subseteq Channels!Keys
         /\ pending' \in [Channels!Keys -> Ids \cup {0}]
         /\ expects' \in [Channels!Keys -> Devices \cup {NoDevice}]
         /\ \A k \in Channels!Keys : pending'[k] = IF k \in ks THEN 0 ELSE pending[k]
BY DEF Channels!Deauthenticate, Channels!Forget, ChannelInv, Channels!TypeOK

\* A close event is handled.
LEMMA ClosedSteps ==
  ASSUME ChannelInv, NEW c \in Ids,
         \/ kind[c] # "http" /\ Channels!Closed(c, {Channels!Key(c)}) /\ UNCHANGED forwards
         \/ Channels!HttpClosed(c)
  PROVE  ChannelInv'
<1> USE DEF Channels!trustVars
<1>0. /\ Channels!TypeOK /\ EventsSound /\ AuthInv /\ dev[c] \in Devices
      /\ st \in [Ids -> Channels!Stages]
  BY DEF ChannelInv, Channels!TypeOK
<1> DEFINE ks == IF kind[c] = "http" THEN Channels!HttpKeys(dev[c]) ELSE {Channels!Key(c)}
<1>1. /\ Channels!Handle("closed", c) /\ Channels!Deauthenticate(ks)
      /\ st' = [st EXCEPT ![c] = "gone"] /\ tables' = Channels!Prune(c)
      /\ UNCHANGED <<dev, kind, chal, proven, accepted, owner, trusted, disk, revoked, byCli>>
  BY DEF Channels!HttpClosed, Channels!Closed
<1>2. /\ kind[c] = "http" => forwards' = [forwards EXCEPT ![dev[c]] = 0]
      /\ kind[c] # "http" => forwards' = forwards
  BY DEF Channels!HttpClosed
<1>3. /\ events' \in Seq(ChannelEvents) /\ EventsSound' /\ st[c] = "closed"
  BY <1>0, <1>1, EventHandled
<1>4. /\ authed' = authed \ ks /\ authed' \subseteq Channels!Keys
      /\ pending' \in [Channels!Keys -> Ids \cup {0}]
      /\ expects' \in [Channels!Keys -> Devices \cup {NoDevice}]
      /\ \A k \in Channels!Keys : pending'[k] = IF k \in ks THEN 0 ELSE pending[k]
  BY <1>1, Deauthenticated
<1>5. Channels!Key(c) \in ks
  BY <1>0, KeyFacts
<1>6. kind[c] = "http" => \A d \in Devices, e \in Ids : <<"http", d, e>> \in ks <=> d = dev[c]
  BY <1>0, HttpKeyFacts
<1> HIDE DEF ks
<1>7. Channels!TypeOK'
  <2>1. forwards' \in [Devices -> Ids \cup {0}] /\ st' \in [Ids -> Channels!Stages]
    BY <1>0, <1>1, <1>2 DEF Channels!TypeOK, Channels!Stages
  <2>2. \A e \in tables' : e \in Ids /\ e # c /\ st[e] \in {"open", "closed"}
    BY <1>0, <1>1, <1>3 DEF Channels!Prune, Channels!TypeOK
  <2>3. \A e \in tables' : e \in Ids /\ st'[e] \in {"open", "closed"}
    BY <1>0, <1>1, <2>2
  <2> QED
    BY <1>0, <1>1, <1>3, <1>4, <2>1, <2>3 DEF Channels!TypeOK, ChannelEvents, Channels!Keys
<1>8. \A e \in Ids : Channels!Key(e)' = Channels!Key(e)
  BY <1>1 DEF Channels!Key
<1>9. Channels!AuthHasChannel'
  <2> SUFFICES ASSUME NEW k \in authed' PROVE \E e \in proven : Channels!Key(e) = k /\ st'[e] # "gone"
    BY <1>0, <1>1, <1>8 DEF Channels!AuthHasChannel, Channels!TypeOK
  <2>1. PICK e \in proven : Channels!Key(e) = k /\ st[e] # "gone"
    BY <1>0, <1>4 DEF AuthInv, Channels!AuthHasChannel
  <2>2. e # c /\ e \in Ids
    BY <1>0, <1>4, <1>5, <2>1 DEF Channels!TypeOK
  <2> QED
    BY <1>0, <1>1, <2>1, <2>2
<1>10. ProvenOpened' /\ TrustOnDisk'
  BY <1>0, <1>1, <1>3 DEF AuthInv, ProvenOpened, Early, TrustOnDisk, Channels!TypeOK
<1>11. ChallengeMatches' /\ Channels!HttpSessionMatches'
  <2>1. CASE kind[c] = "http"
    BY <1>0, <1>2, <1>4, <1>6, <2>1, HttpKeyFacts
       DEF AuthInv, ChallengeMatches, Channels!HttpSessionMatches, Channels!TypeOK
  <2>2. CASE kind[c] # "http"
    BY <1>0, <1>2, <1>4, <2>2, HttpKeyFacts
       DEF AuthInv, ChallengeMatches, Channels!HttpSessionMatches, Channels!TypeOK
  <2> QED
    BY <2>1, <2>2
<1>12. Channels!RevokedSilenced' /\ Channels!HttpEarned'
  BY <1>0, <1>1, <1>4 DEF AuthInv, Channels!RevokedSilenced, Channels!HttpEarned, Channels!KeysOf, Channels!Keys
<1> QED
  BY <1>3, <1>7, <1>9, <1>10, <1>11, <1>12 DEF ChannelInv, AuthInv

\* An answer is handled.
LEMMA AnsweredStep ==
  ASSUME ChannelInv, NEW c \in Ids, Channels!Answered(c)
  PROVE  ChannelInv'
<1> USE DEF Channels!trustVars, Channels!channelVars
<1> DEFINE ok == Channels!Verified(c, Head(events).answers)
<1>0. /\ Channels!TypeOK /\ EventsSound /\ AuthInv /\ dev[c] \in Devices
  BY DEF ChannelInv, Channels!TypeOK
<1>1. /\ Channels!Handle("answer", c) /\ Channels!Forget({Channels!Key(c)})
      /\ authed' = IF ok THEN authed \cup {Channels!Key(c)} ELSE authed
      /\ proven' = IF ok THEN proven \cup {c} ELSE proven
      /\ UNCHANGED <<dev, kind, st, tables, chal, forwards, accepted, owner, trusted, disk, revoked, byCli>>
  BY DEF Channels!Answered
<1>2. /\ events' \in Seq(ChannelEvents) /\ EventsSound' /\ st[c] \in {"open", "closing", "closed"}
      /\ Head(events).answers \in Ids
  BY <1>0, <1>1, EventHandled
<1>3. ok => /\ pending[Channels!Key(c)] # 0 /\ dev[c] \in trusted
  BY <1>2, ChannelAssumption DEF Channels!ChannelAssumption, Channels!Verified
<1> HIDE DEF ok
<1>4. /\ pending' \in [Channels!Keys -> Ids \cup {0}]
      /\ expects' \in [Channels!Keys -> Devices \cup {NoDevice}]
      /\ \A k \in Channels!Keys : pending'[k] # 0 => pending'[k] = pending[k]
  BY <1>0, <1>1 DEF Channels!Forget, Channels!TypeOK
<1>5. Channels!Key(c) \in Channels!Keys
  BY <1>0, KeyFacts
<1>6. Channels!TypeOK'
  BY <1>0, <1>1, <1>2, <1>4, <1>5 DEF Channels!TypeOK, ChannelEvents, Channels!Keys
<1>7. \A e \in Ids : Channels!Key(e)' = Channels!Key(e)
  BY <1>1 DEF Channels!Key
<1>8. ProvenOpened' /\ TrustOnDisk'
  BY <1>0, <1>1, <1>2 DEF AuthInv, ProvenOpened, Early, TrustOnDisk
<1>9. Channels!AuthHasChannel'
  <2>1. \A e \in proven' : e \in Ids
    BY <1>0, <1>1 DEF Channels!TypeOK
  <2> QED
    BY <1>0, <1>1, <1>2, <1>7, <2>1 DEF AuthInv, Channels!AuthHasChannel
<1>10. ChallengeMatches'
  BY <1>0, <1>1, <1>4, HttpKeyFacts DEF AuthInv, ChallengeMatches
<1>11. Channels!HttpSessionMatches'
  <2> SUFFICES ASSUME NEW d \in Devices, NEW e \in Ids, <<"http", d, e>> \in authed'
               PROVE  forwards[d] = e
    BY <1>1 DEF Channels!HttpSessionMatches
  <2>1. CASE <<"http", d, e>> \in authed
    BY <1>0, <2>1 DEF AuthInv, Channels!HttpSessionMatches
  <2>2. CASE ok /\ <<"http", d, e>> = Channels!Key(c)
    BY <1>0, <1>3, <2>2 DEF AuthInv, ChallengeMatches
  <2> QED
    BY <1>1, <2>1, <2>2
<1>12. Channels!RevokedSilenced'
  <2> SUFFICES ASSUME NEW d \in Devices, d \notin trusted, d \notin byCli,
                      NEW k \in Channels!KeysOf(d), k \in authed'
               PROVE  FALSE
    BY <1>1 DEF Channels!RevokedSilenced, Channels!KeysOf, Channels!Keys
  <2>1. k \notin authed
    BY <1>0 DEF AuthInv, Channels!RevokedSilenced
  <2>2. ok /\ k = Channels!Key(c)
    BY <1>1, <2>1
  <2>3. d = dev[c]
    BY <1>0, <2>2, KeyFacts
  <2> QED
    BY <1>3, <2>2, <2>3
<1>13. Channels!HttpEarned'
  BY <1>0, <1>1 DEF AuthInv, Channels!HttpEarned
<1> QED
  BY <1>2, <1>6, <1>8, <1>9, <1>10, <1>11, <1>12, <1>13 DEF ChannelInv, AuthInv

\* Any other message is handled.
LEMMA MessageStep ==
  ASSUME ChannelInv, NEW c \in Ids, Channels!Message(c)
  PROVE  ChannelInv'
<1> USE DEF Channels!trustVars, Channels!channelVars
<1>0. /\ Channels!TypeOK /\ EventsSound /\ AuthInv
  BY DEF ChannelInv
<1>1. /\ Channels!Handle("data", c)
      /\ accepted' = accepted \/ (accepted' = accepted \cup {c} /\ Channels!Key(c) \in authed)
      /\ UNCHANGED <<dev, kind, st, tables, chal, pending, expects, authed, forwards, proven,
                     owner, trusted, disk, revoked, byCli>>
  BY DEF Channels!Message, Channels!Authenticated
<1>2. events' \in Seq(ChannelEvents) /\ EventsSound'
  BY <1>0, <1>1, EventHandled
<1>3. Channels!TypeOK'
  BY <1>0, <1>1, <1>2 DEF Channels!TypeOK, ChannelEvents, Channels!Keys
<1>4. Channels!HttpEarned'
  <2>1. ASSUME Channels!Key(c) \in authed, kind[c] = "http" PROVE c \in proven
    <3>1. PICK e \in proven : Channels!Key(e) = Channels!Key(c)
      BY <1>0, <2>1 DEF AuthInv, Channels!AuthHasChannel
    <3>2. e \in Ids
      BY <1>0 DEF Channels!TypeOK
    <3> QED
      BY <1>0, <2>1, <3>1, <3>2, KeyFacts
  <2> QED
    BY <1>0, <1>1, <2>1 DEF AuthInv, Channels!HttpEarned
<1>5. \A e \in Ids : Channels!Key(e)' = Channels!Key(e)
  BY <1>1 DEF Channels!Key
<1>6. Channels!AuthHasChannel'
  BY <1>0, <1>1, <1>5 DEF AuthInv, Channels!AuthHasChannel, Channels!TypeOK
<1>7. AuthInv'
  BY <1>0, <1>1, <1>4, <1>6 DEF AuthInv, ProvenOpened, ChallengeMatches, TrustOnDisk, Channels!RevokedSilenced,
     Channels!HttpSessionMatches, Channels!KeysOf, Channels!Keys
<1> QED
  BY <1>2, <1>3, <1>7 DEF ChannelInv

\* Sessions, revocations and the trust tick.
LEMMA TrustSteps ==
  ASSUME ChannelInv,
         \/ \E d \in Devices : Channels!SessionOf(d)
         \/ \E d \in Revocable, b \in BOOLEAN : Channels!Revoked(d, b)
         \/ Channels!TrustTick
  PROVE  ChannelInv'
<1> USE DEF Channels!trustVars, Channels!channelVars, Channels!authVars
<1>0. /\ Channels!TypeOK /\ EventsSound /\ AuthInv /\ Revocable \subseteq Devices
  BY ChannelAssumption DEF ChannelInv, Channels!ChannelAssumption
<1>1. ASSUME NEW d \in Devices, Channels!SessionOf(d) PROVE ChannelInv'
  <2>1. /\ owner' = d
        /\ UNCHANGED <<dev, kind, st, tables, chal, events, pending, expects, authed, forwards, proven, accepted,
                       trusted, disk, revoked, byCli>>
    BY <1>1 DEF Channels!SessionOf
  <2>2. Channels!TypeOK'
    BY <1>0, <2>1 DEF Channels!TypeOK, Channels!Keys
  <2>3. EventsSound' /\ AuthInv'
    BY <1>0, <2>1, AuthKept DEF EventsSound
  <2> QED
    BY <2>2, <2>3 DEF ChannelInv
<1>2. ASSUME NEW d \in Revocable, NEW b \in BOOLEAN, Channels!Revoked(d, b) PROVE ChannelInv'
  <2>1. /\ revoked' = revoked \cup {d}
        /\ disk' = IF b THEN disk \ {d} ELSE disk
        /\ byCli' = IF b THEN byCli \cup {d} ELSE byCli
        /\ UNCHANGED <<dev, kind, st, tables, chal, events, pending, expects, authed, forwards, proven, accepted,
                       owner, trusted>>
    BY <1>2 DEF Channels!Revoked
  <2>2. Channels!TypeOK'
    BY <1>0, <2>1 DEF Channels!TypeOK, Channels!Keys
  <2>3. EventsSound' /\ TrustOnDisk'
    BY <1>0, <2>1 DEF EventsSound, AuthInv, TrustOnDisk
  <2>4. byCli \subseteq byCli'
    BY <2>1
  <2>5. AuthInv'
    BY <1>0, <2>1, <2>3, <2>4 DEF AuthInv, ProvenOpened, ChallengeMatches, Channels!AuthHasChannel, Channels!Key,
       Channels!RevokedSilenced, Channels!HttpSessionMatches, Channels!HttpEarned, Channels!KeysOf, Channels!Keys
  <2> QED
    BY <2>2, <2>3, <2>5 DEF ChannelInv
<1>3. CASE Channels!TrustTick
  <2> DEFINE ks == UNION {Channels!KeysOf(d) : d \in disk \cap revoked}
  <2>1. /\ trusted' = disk \ revoked /\ disk' = disk \ revoked /\ Channels!Deauthenticate(ks)
        /\ UNCHANGED <<dev, kind, st, tables, chal, events, forwards, proven, accepted, owner, revoked, byCli>>
    BY <1>3 DEF Channels!TrustTick
  <2>2. \A d \in disk \cap revoked : Channels!KeysOf(d) \subseteq ks
    OBVIOUS
  <2>3. /\ authed' = authed \ ks /\ authed' \subseteq Channels!Keys
        /\ pending' \in [Channels!Keys -> Ids \cup {0}]
        /\ expects' \in [Channels!Keys -> Devices \cup {NoDevice}]
        /\ \A k \in Channels!Keys : pending'[k] = IF k \in ks THEN 0 ELSE pending[k]
    BY <2>1, Deauthenticated
  <2> HIDE DEF ks
  <2>4. Channels!TypeOK'
    BY <1>0, <2>1, <2>3 DEF Channels!TypeOK, Channels!Keys
  <2>5. EventsSound' /\ TrustOnDisk'
    BY <1>0, <2>1 DEF EventsSound, TrustOnDisk
  <2>6. Channels!RevokedSilenced'
    <3> SUFFICES ASSUME NEW d \in Devices, d \notin disk \ revoked, d \notin byCli,
                        NEW k \in Channels!KeysOf(d), k \in authed \ ks
                 PROVE  FALSE
      BY <2>1, <2>3 DEF Channels!RevokedSilenced, Channels!KeysOf, Channels!Keys
    <3>1. d \in disk => d \in disk \cap revoked
      OBVIOUS
    <3>2. d \notin disk => d \notin trusted
      BY <1>0 DEF AuthInv, TrustOnDisk
    <3> QED
      BY <1>0, <2>2, <3>1, <3>2 DEF AuthInv, Channels!RevokedSilenced
  <2>7. \A e \in Ids : Channels!Key(e)' = Channels!Key(e)
    BY <2>1 DEF Channels!Key
  <2>8. Channels!AuthHasChannel'
    BY <1>0, <2>1, <2>3, <2>7 DEF AuthInv, Channels!AuthHasChannel, Channels!TypeOK
  <2>9. ChallengeMatches' /\ Channels!HttpSessionMatches'
    BY <1>0, <2>1, <2>3, HttpKeyFacts DEF AuthInv, ChallengeMatches, Channels!HttpSessionMatches
  <2>10. ProvenOpened' /\ Channels!HttpEarned'
    BY <1>0, <2>1 DEF AuthInv, ProvenOpened, Channels!HttpEarned
  <2> QED
    BY <2>4, <2>5, <2>6, <2>8, <2>9, <2>10 DEF ChannelInv, AuthInv
<1> QED
  BY <1>1, <1>2, <1>3

LEMMA ChannelStep == ChannelInv /\ [Channels!Next]_(Channels!vars) => ChannelInv'
<1> SUFFICES ASSUME ChannelInv, [Channels!Next]_(Channels!vars) PROVE ChannelInv'
  OBVIOUS
<1>0. \A c \in Ids : Channels!TypeOK
  BY DEF ChannelInv
<1>1. ASSUME NEW c \in Ids,
             \/ Channels!NewStatsChannel(c) \/ Channels!NewControlChannel(c) \/ Channels!NewAgentChannel(c)
             \/ Channels!NewHttpChannel(c) \/ Channels!NewFilesChannel(c) \/ Channels!NewTerminalChannel(c)
             \/ Channels!Arrives(c) \/ Channels!RemoteCloses(c) \/ Channels!CloseRuns(c)
             \/ Channels!Answers(c) \/ Channels!Sends(c)
      PROVE  ChannelInv'
  BY <1>1, ChannelSteps
     DEF Channels!NewStatsChannel, Channels!NewControlChannel, Channels!NewAgentChannel,
         Channels!NewHttpChannel, Channels!NewFilesChannel, Channels!NewTerminalChannel
<1>2. ASSUME NEW c \in Ids,
             \/ Channels!TerminalOpened(c) \/ Channels!StatsOpened(c) \/ Channels!FilesOpened(c)
             \/ Channels!ControlOpened(c) \/ Channels!AgentOpened(c) \/ Channels!HttpOpened(c)
      PROVE  ChannelInv'
  BY <1>2, OpenedSteps
     DEF Channels!StatsOpened, Channels!FilesOpened, Channels!ControlOpened, Channels!AgentOpened,
         Channels!DeviceKinds
<1>3. ASSUME NEW c \in Ids,
             \/ Channels!TerminalClosed(c) \/ Channels!StatsClosed(c) \/ Channels!FilesClosed(c)
             \/ Channels!ControlClosed(c) \/ Channels!AgentClosed(c) \/ Channels!HttpClosed(c)
      PROVE  ChannelInv'
  BY <1>3, ClosedSteps
     DEF Channels!TerminalClosed, Channels!StatsClosed, Channels!FilesClosed, Channels!ControlClosed,
         Channels!AgentClosed
<1>4. ASSUME NEW c \in Ids,
             \/ Channels!InputAnswered(c) \/ Channels!StatsAnswered(c) \/ Channels!FilesAnswered(c)
             \/ Channels!ControlAnswered(c) \/ Channels!AgentAnswered(c) \/ Channels!HttpAnswered(c)
      PROVE  ChannelInv'
  BY <1>4, AnsweredStep
     DEF Channels!InputAnswered, Channels!StatsAnswered, Channels!FilesAnswered, Channels!ControlAnswered,
         Channels!AgentAnswered, Channels!HttpAnswered
<1>5. CASE UNCHANGED Channels!vars
  <2>1. UNCHANGED <<dev, kind, st, tables, chal, events, pending, expects, authed, forwards, proven, accepted,
                    owner, trusted, disk, revoked, byCli>>
    BY <1>5 DEF Channels!vars, Channels!channelVars, Channels!authVars, Channels!trustVars
  <2>2. Channels!TypeOK' /\ EventsSound'
    BY <2>1 DEF ChannelInv, Channels!TypeOK, Channels!Keys, EventsSound
  <2>3. AuthInv'
    BY <2>1, AuthKept DEF ChannelInv
  <2> QED
    BY <2>2, <2>3 DEF ChannelInv
<1> QED
  BY <1>1, <1>2, <1>3, <1>4, <1>5, MessageStep, PeerSteps, TrustSteps DEF Channels!Next

\* Authentication outlives neither its channel nor the trust in its device, for
\* any number of devices, channels and queued events
\* (daemon.rs 751-799, 1542-1562).
THEOREM ChannelsAuthSound == Channels!Spec => []AuthSound
<1>1. ChannelInv => AuthSound
  BY DEF ChannelInv, AuthInv, AuthSound
<1> QED
  BY ChannelInit, ChannelStep, <1>1, PTL DEF Channels!Spec

\* An http channel carries requests only after its own answer, and only while the
\* forwarding session is its own, for any number of devices and channels
\* (daemon.rs 3056-3158).
THEOREM ChannelsHttpSound == Channels!Spec => []HttpPerChannel
<1>1. ChannelInv => HttpPerChannel
  BY DEF ChannelInv, AuthInv, HttpPerChannel
<1> QED
  BY ChannelInit, ChannelStep, <1>1, PTL DEF Channels!Spec

-----------------------------------------------------------------------------
(* WsAuth: signed messages and the nonce cache.                            *)

\* Times of the nonce cache and of what was handled lie in the past.
SignedType ==
    /\ now \in Nat
    /\ \A m \in sent : m.ts \in Int
    /\ \A k \in DOMAIN cache : cache[k] \in Nat /\ cache[k] <= now
    /\ \A a \in handled : a[1] \in sent /\ a[2] \in Nat /\ a[2] <= now

\* The nonce of what was handled is in the cache, with that time or a later
\* one, unless the time to live has passed since.
NonceKept ==
    \A a \in handled :
        \/ now - a[2] > 2 * Ttl
        \/ Signed!Key(a[1]) \in DOMAIN cache /\ cache[Signed!Key(a[1])] >= a[2]

\* The inductive invariant of WsAuth.
SignedInv == SignedType /\ NonceKept /\ HandledOnce

\* A sweep forgets nothing that is younger than the time to live.
LEMMA SweptFacts ==
  /\ DOMAIN Signed!Swept \subseteq DOMAIN cache
  /\ \A k \in DOMAIN Signed!Swept : Signed!Swept[k] = cache[k]
  /\ \A k \in DOMAIN cache : Signed!Remembered(k) => k \in DOMAIN Signed!Swept
<1>1. \/ Signed!Swept = cache
      \/ Signed!Swept = [k \in {j \in DOMAIN cache : Signed!Remembered(j)} |-> cache[k]]
  BY DEF Signed!Swept, Signed!Restrict
<1> QED
  BY <1>1

\* What is accepted although it was handled before is past its time to live.
LEMMA ReplayIsLate ==
  ASSUME SignedInv, NEW m \in sent, ~Signed!Replayed(m), NEW a \in handled, a[1] = m
  PROVE  now - a[2] > 2 * Ttl
<1> DEFINE k == Signed!Key(m)
<1> SUFFICES ASSUME ~(now - a[2] > 2 * Ttl) PROVE FALSE
  OBVIOUS
<1>1. k \in DOMAIN cache /\ cache[k] >= a[2]
  BY DEF SignedInv, NonceKept
<1>2. now \in Nat /\ a[2] \in Nat /\ cache[k] \in Nat /\ Ttl \in Nat
  BY <1>1, WsAuthAssumption DEF SignedInv, SignedType, Signed!WsAuthAssumption
<1>3. Signed!Remembered(k)
  BY <1>1, <1>2 DEF Signed!Remembered
<1> QED
  BY <1>1, <1>3, SweptFacts DEF Signed!Replayed

\* At the start nothing was handled.
LEMMA SignedInit == Signed!Init => SignedInv
BY WsAuthAssumption
   DEF Signed!WsAuthAssumption, Signed!Init, SignedInv, SignedType, NonceKept, HandledOnce,
       Signed!HandledOnce

\* Time, signatures, revocations and deliveries keep the invariant.
LEMMA SignedStep == SignedInv /\ [Signed!Next]_(Signed!vars) => SignedInv'
<1> SUFFICES ASSUME SignedInv, [Signed!Next]_(Signed!vars) PROVE SignedInv'
  OBVIOUS
<1> USE WsAuthAssumption DEF Signed!WsAuthAssumption
<1>1. CASE Signed!Tick
  BY <1>1 DEF Signed!Tick, SignedInv, SignedType, NonceKept, HandledOnce, Signed!HandledOnce, Signed!Key
<1>2. ASSUME NEW d \in Signers, NEW n \in Nonces, NEW t \in DOMAIN MessageTypes, Signed!Sign(d, n, t)
      PROVE  SignedInv'
  <2>1. PICK off \in -Drift..Drift :
            sent' = sent \cup {[device |-> d, nonce |-> n, ts |-> Signed!Wall + off, type |-> t]}
    BY <1>2 DEF Signed!Sign
  <2>2. Signed!Wall \in Int /\ off \in Int
    BY DEF Signed!Wall, SignedInv, SignedType
  <2>3. UNCHANGED <<now, cache, handled>>
    BY <1>2 DEF Signed!Sign
  <2> QED
    BY <2>1, <2>2, <2>3 DEF SignedInv, SignedType, NonceKept, HandledOnce, Signed!HandledOnce, Signed!Key
<1>3. ASSUME NEW d \in Signers, NEW p \in Signed!Range(MessageTypes), Signed!Revoke(d, p)
      PROVE  SignedInv'
  BY <1>3 DEF Signed!Revoke, SignedInv, SignedType, NonceKept, HandledOnce, Signed!HandledOnce, Signed!Key
<1>4. ASSUME NEW m \in sent, Signed!RejectedReplay(m)
      PROVE  SignedInv'
  <2>1. cache' = Signed!Swept /\ UNCHANGED <<now, sent, handled>>
    BY <1>4 DEF Signed!RejectedReplay
  <2>2. SignedType'
    BY <2>1, SweptFacts DEF SignedInv, SignedType
  <2>3. NonceKept'
    <3> SUFFICES ASSUME NEW a \in handled, ~(now - a[2] > 2 * Ttl)
                 PROVE  /\ Signed!Key(a[1]) \in DOMAIN Signed!Swept
                        /\ Signed!Swept[Signed!Key(a[1])] >= a[2]
      BY <2>1 DEF NonceKept, Signed!Key
    <3>1. /\ Signed!Key(a[1]) \in DOMAIN cache /\ cache[Signed!Key(a[1])] >= a[2]
          /\ a[2] \in Nat /\ now \in Nat /\ cache[Signed!Key(a[1])] \in Nat
      BY DEF SignedInv, NonceKept, SignedType
    <3>2. Signed!Remembered(Signed!Key(a[1]))
      BY <3>1 DEF Signed!Remembered
    <3> QED
      BY <3>1, <3>2, SweptFacts
  <2> QED
    BY <2>1, <2>2, <2>3 DEF SignedInv, HandledOnce, Signed!HandledOnce
<1>5. ASSUME NEW m \in sent, Signed!Verified(m)
      PROVE  SignedInv'
  <2> DEFINE k == Signed!Key(m)
  <2>1. /\ cache' = [j \in DOMAIN Signed!Swept \cup {k} |-> IF j = k THEN now ELSE Signed!Swept[j]]
        /\ handled' = handled \/ handled' = handled \cup {<<m, now>>}
        /\ UNCHANGED <<now, sent>>
    BY <1>5 DEF Signed!Verified
  <2>2. now \in Nat /\ m.ts \in Int /\ Ttl \in Nat /\ Skew \in Nat /\ Skew < Ttl
    BY DEF SignedInv, SignedType
  <2>3. SignedType'
    BY <2>1, <2>2, SweptFacts DEF SignedInv, SignedType
  <2>4. NonceKept'
    <3> SUFFICES ASSUME NEW a \in handled', ~(now - a[2] > 2 * Ttl)
                 PROVE  Signed!Key(a[1]) \in DOMAIN cache' /\ cache'[Signed!Key(a[1])] >= a[2]
      BY <2>1 DEF NonceKept, Signed!Key
    <3>1. a[2] \in Nat /\ a[2] <= now
      BY <2>1, <2>3 DEF SignedType
    <3>2. CASE Signed!Key(a[1]) = k
      BY <2>1, <2>2, <3>1, <3>2
    <3>3. CASE Signed!Key(a[1]) # k
      <4>1. a \in handled
        BY <2>1, <3>3
      <4>2. /\ Signed!Key(a[1]) \in DOMAIN cache /\ cache[Signed!Key(a[1])] >= a[2]
            /\ cache[Signed!Key(a[1])] \in Nat
        BY <4>1 DEF SignedInv, NonceKept, SignedType
      <4>3. Signed!Remembered(Signed!Key(a[1]))
        BY <4>2, <3>1, <2>2 DEF Signed!Remembered
      <4> QED
        BY <2>1, <3>3, <4>2, <4>3, SweptFacts
    <3> QED
      BY <3>2, <3>3
  <2>5. HandledOnce'
    <3> SUFFICES ASSUME NEW a \in handled', NEW b \in handled', a[1] = b[1], a[2] < b[2]
                 PROVE  a[1].ts > a[2] \div 2
      BY DEF HandledOnce, Signed!HandledOnce
    <3>1. CASE a \in handled /\ b \in handled
      BY <3>1 DEF SignedInv, HandledOnce, Signed!HandledOnce
    <3>2. CASE a = <<m, now>>
      BY <2>1, <2>3, <3>2 DEF SignedType
    <3>3. CASE a \in handled /\ b = <<m, now>>
      <4>1. a[1] = m /\ ~Signed!Replayed(m) /\ Signed!Timely(m) /\ a[2] \in Nat
        BY <1>5, <3>3 DEF Signed!Verified, SignedInv, SignedType
      <4>2. now - a[2] > 2 * Ttl
        BY <3>3, <4>1, ReplayIsLate
      <4>3. (now \div 2) - m.ts <= Skew
        BY <4>1, <2>2 DEF Signed!Timely, Signed!Abs, Signed!Wall
      <4>4. /\ now \div 2 \in Nat /\ now < 2 * (now \div 2) + 2
            /\ a[2] \div 2 \in Nat /\ 2 * (a[2] \div 2) <= a[2]
        BY <2>2, <4>1
      <4> QED
        BY <2>2, <4>1, <4>2, <4>3, <4>4
    <3> QED
      BY <2>1, <3>1, <3>2, <3>3
  <2> QED
    BY <2>3, <2>4, <2>5 DEF SignedInv
<1>6. CASE UNCHANGED Signed!vars
  BY <1>6 DEF Signed!vars, SignedInv, SignedType, NonceKept, HandledOnce, Signed!HandledOnce, Signed!Key
<1> QED
  BY <1>1, <1>2, <1>3, <1>4, <1>5, <1>6 DEF Signed!Next, Signed!Rejected

\* A signed message that was not ahead of the clock is handled once, for every
\* skew below the time to live and every threshold of the sweep
\* (auth.rs 502-581).
THEOREM SignedHandledOnce == Signed!Spec => []HandledOnce
<1>1. SignedInv => HandledOnce
  BY DEF SignedInv
<1> QED
  BY SignedInit, SignedStep, <1>1, PTL DEF Signed!Spec

-----------------------------------------------------------------------------
(* SessionCipher: counters and windows under changing keys.                *)

\* What a cipher and a message of the file requests are.
CipherStates == [key : Nat, send : Nat, recv : Nat]
CipherMessages ==
    [key : Nat, from : {"exchange", "mobile", "host"}, counter : Nat, body : Nat]

\* The types of the two ciphers, the messages and the two logs.
CipherType ==
    /\ host \in CipherStates /\ mobile \in CipherStates /\ keys \in Nat
    /\ net \subseteq CipherMessages
    /\ done \in Seq(Nat \X Nat) /\ shown \in Seq(Nat \X Nat)

\* Keys come from exchanges, and no message was written under key 0, which
\* stands for the absence of a cipher.
KeysKnown ==
    /\ host.key <= keys /\ mobile.key <= keys
    /\ host.key = 0 => host = Cipher!NoCipher
    /\ mobile.key = 0 => mobile = Cipher!NoCipher
    /\ \A m \in net : m.key \in 1..keys

\* What was written under the key that a side holds is below its counter.
CountersAhead ==
    \A m \in net :
        /\ m.from = "exchange" => m.counter = 0 /\ m.body = 0
        /\ m.from = "mobile" =>
               /\ m.key <= mobile.key /\ m.body = m.counter
               /\ m.key = mobile.key => m.counter < mobile.send
        /\ (m.from = "host" /\ m.key = host.key) => m.counter < host.send

\* What was read under the key that a side holds is below its window.
WindowsAhead ==
    /\ \A i \in DOMAIN done :
           /\ done[i][1] \in 1..keys
           /\ done[i][1] = host.key => done[i][2] < host.recv
    /\ \A i \in DOMAIN shown :
           /\ shown[i][1] <= mobile.key
           /\ shown[i][1] = mobile.key => shown[i][2] < mobile.recv

\* The inductive invariant of SessionCipher.
CipherInv ==
    /\ CipherType /\ KeysKnown /\ CountersAhead /\ WindowsAhead
    /\ Cipher!InOrderOnce /\ Cipher!NonceUnique

\* One more entry, above every earlier one of its key, keeps a log in order.
LEMMA OrderedAppend ==
  ASSUME NEW s \in Seq(Nat \X Nat), NEW k \in Nat, NEW n \in Nat,
         \A i, j \in DOMAIN s : (i < j /\ s[i][1] = s[j][1]) => s[i][2] < s[j][2],
         \A i \in DOMAIN s : s[i][1] = k => s[i][2] < n
  PROVE  LET t == Append(s, <<k, n>>)
         IN  /\ t \in Seq(Nat \X Nat)
             /\ \A i, j \in DOMAIN t : (i < j /\ t[i][1] = t[j][1]) => t[i][2] < t[j][2]
             /\ \A i \in DOMAIN t : t[i] = <<k, n>> \/ (i \in DOMAIN s /\ t[i] = s[i])
<1> DEFINE t == Append(s, <<k, n>>)
<1>1. t \in Seq(Nat \X Nat) /\ Len(t) = Len(s) + 1
  OBVIOUS
<1>2. \A i \in DOMAIN t : (i \in DOMAIN s /\ t[i] = s[i]) \/ (i = Len(s) + 1 /\ t[i] = <<k, n>>)
  OBVIOUS
<1>3. DOMAIN s = 1..Len(s) /\ Len(s) \in Nat
  OBVIOUS
<1>4. ASSUME NEW i \in DOMAIN t, NEW j \in DOMAIN t, i < j, t[i][1] = t[j][1]
      PROVE  t[i][2] < t[j][2]
  <2>1. i \in DOMAIN s /\ t[i] = s[i]
    BY <1>1, <1>2, <1>3, <1>4
  <2>2. CASE j \in DOMAIN s /\ t[j] = s[j]
    BY <1>4, <2>1, <2>2
  <2>3. CASE t[j] = <<k, n>>
    BY <1>4, <2>1, <2>3
  <2> QED
    BY <1>2, <2>2, <2>3
<1> QED
  BY <1>1, <1>2, <1>4

\* At the start no cipher exists and nothing was sent.
LEMMA CipherInit == Cipher!Init => CipherInv
BY DEF Cipher!Init, CipherInv, CipherType, KeysKnown, CountersAhead, WindowsAhead,
       Cipher!InOrderOnce, Cipher!NonceUnique, Cipher!NoCipher, CipherStates, CipherMessages

\* Every step of the two sides and of the backend keeps the invariant.
LEMMA CipherStep == CipherInv /\ [Cipher!Next]_(Cipher!vars) => CipherInv'
<1> SUFFICES ASSUME CipherInv, [Cipher!Next]_(Cipher!vars) PROVE CipherInv'
  OBVIOUS
<1> USE CipherAssumption DEF Cipher!CipherAssumption
<1>0. /\ \A i \in DOMAIN done : done[i][1] \in Nat /\ done[i][2] \in Nat
      /\ \A i \in DOMAIN shown : shown[i][1] \in Nat /\ shown[i][2] \in Nat
  BY DEF CipherInv, CipherType
<1>1. CASE Cipher!Exchange
  <2> DEFINE answer == [key |-> keys + 1, from |-> "exchange", counter |-> 0, body |-> 0]
  <2>1. /\ keys' = keys + 1 /\ host' = Cipher!New(keys + 1)
        /\ net' = net \cup {answer}
        /\ UNCHANGED <<mobile, done, shown>>
    BY <1>1 DEF Cipher!Exchange
  <2>2. /\ host' \in CipherStates /\ answer \in CipherMessages
        /\ host'.key = keys + 1 /\ answer.key = keys + 1 /\ keys \in Nat
        /\ answer.from = "exchange" /\ answer.counter = 0 /\ answer.body = 0
    BY <2>1 DEF Cipher!New, CipherStates, CipherMessages, CipherInv, CipherType
  <2>3. \A m \in net : m.key \in Nat /\ m.key <= keys /\ m.key >= 1
    BY DEF CipherInv, CipherType, KeysKnown, CipherMessages
  <2> HIDE DEF answer
  <2>4. CipherType' /\ KeysKnown'
    BY <2>1, <2>2, <2>3 DEF CipherInv, CipherType, KeysKnown, CipherStates
  <2>5. CountersAhead'
    BY <2>1, <2>2, <2>3 DEF CipherInv, CountersAhead
  <2>6. WindowsAhead'
    BY <2>1, <2>2, <1>0 DEF CipherInv, WindowsAhead
  <2>7. Cipher!InOrderOnce' /\ Cipher!NonceUnique'
    BY <2>1, <2>2, <2>3 DEF CipherInv, Cipher!InOrderOnce, Cipher!NonceUnique
  <2> QED
    BY <2>4, <2>5, <2>6, <2>7 DEF CipherInv
<1>2. CASE Cipher!ExchangeFails
  BY <1>2, SMTT(30) DEF Cipher!ExchangeFails, CipherInv, CipherType, KeysKnown, CountersAhead, WindowsAhead,
       Cipher!InOrderOnce, Cipher!NonceUnique, Cipher!NoCipher, Cipher!New, CipherStates, CipherMessages
<1>3. CASE Cipher!Established
  BY <1>3, SMTT(30) DEF Cipher!Established, CipherInv, CipherType, KeysKnown, CountersAhead, WindowsAhead,
       Cipher!InOrderOnce, Cipher!NonceUnique, Cipher!NoCipher, Cipher!New, CipherStates, CipherMessages
<1>4. CASE Cipher!Forget
  BY <1>4 DEF Cipher!Forget, CipherInv, CipherType, KeysKnown, CountersAhead, WindowsAhead,
       Cipher!InOrderOnce, Cipher!NonceUnique, Cipher!NoCipher, Cipher!New, CipherStates, CipherMessages
<1>5. CASE Cipher!Asks
  <2> DEFINE ask == Cipher!Message(mobile, "mobile", mobile.send)
  <2>1. /\ mobile \in CipherStates /\ mobile.key \in Nat /\ mobile.send \in Nat
        /\ mobile' = [mobile EXCEPT !.send = @ + 1]
        /\ net' = net \cup {ask}
        /\ UNCHANGED <<host, keys, done, shown>>
    BY <1>5 DEF Cipher!Asks, Cipher!Advanced, CipherInv, CipherType, CipherStates
  <2>2. /\ mobile' \in CipherStates /\ ask \in CipherMessages
        /\ mobile'.key = mobile.key /\ mobile'.send = mobile.send + 1 /\ mobile'.recv = mobile.recv
        /\ ask.key = mobile.key /\ ask.from = "mobile"
        /\ ask.counter = mobile.send /\ ask.body = mobile.send
    BY <2>1 DEF Cipher!Message, CipherStates, CipherMessages
  <2>3. mobile.key >= 1 /\ mobile.key <= keys /\ keys \in Nat
    BY <1>5, <2>1 DEF Cipher!Asks, CipherInv, CipherType, KeysKnown
  <2>4. \A m \in net : m.key \in Nat /\ m.counter \in Nat
    BY DEF CipherInv, CipherType, CipherMessages
  <2> HIDE DEF ask
  <2>5. CipherType' /\ KeysKnown'
    BY <2>1, <2>2, <2>3 DEF CipherInv, CipherType, KeysKnown
  <2>6. CountersAhead'
    BY <2>1, <2>2, <2>3, <2>4 DEF CipherInv, CountersAhead
  <2>7. WindowsAhead'
    BY <2>1, <2>2, <1>0 DEF CipherInv, WindowsAhead
  <2>8. Cipher!InOrderOnce' /\ Cipher!NonceUnique'
    BY <2>1, <2>2, <2>4 DEF CipherInv, CountersAhead, Cipher!InOrderOnce, Cipher!NonceUnique
  <2> QED
    BY <2>5, <2>6, <2>7, <2>8 DEF CipherInv
<1>6. ASSUME NEW m \in net, Cipher!Handles(m)
      PROVE  CipherInv'
  <2>1. PICK n \in 1..Frames :
           /\ host' = Cipher!Advanced(Cipher!Passed(host, m), n)
           /\ \E gone \in SUBSET Cipher!Answered(n) : net' = net \cup (Cipher!Answered(n) \ gone)
    BY <1>6 DEF Cipher!Handles
  <2>2. /\ host \in CipherStates /\ m \in CipherMessages /\ n \in Nat
        /\ m.from = "mobile" /\ m.key = host.key /\ m.counter >= host.recv /\ m.body = m.counter
        /\ done' = Append(done, <<m.key, m.body>>)
        /\ UNCHANGED <<mobile, keys, shown>>
    BY <1>6 DEF Cipher!Handles, Cipher!Readable, CipherInv, CipherType, CountersAhead
  <2>3. /\ host' \in CipherStates
        /\ host'.key = host.key /\ host'.send = host.send + n /\ host'.recv = m.counter + 1
    <3>1. /\ Cipher!Passed(host, m) \in CipherStates
          /\ Cipher!Passed(host, m).key = host.key /\ Cipher!Passed(host, m).send = host.send
          /\ Cipher!Passed(host, m).recv = m.counter + 1
      BY <2>2 DEF Cipher!Passed, CipherStates, CipherMessages
    <3> QED
      BY <2>1, <2>2, <3>1 DEF Cipher!Advanced, CipherStates
  <2>4. \A a \in Cipher!Answered(n) :
           \E k \in 1..n : a = [key |-> host.key, from |-> "host",
                                counter |-> host.send + (k - 1), body |-> k]
    BY <2>2 DEF Cipher!Answered, Cipher!Message, Cipher!Advanced, CipherStates
  <2>5. net \subseteq net' /\ \A a \in net' : a \in net \/ a \in Cipher!Answered(n)
    BY <2>1
  <2>6. /\ done' \in Seq(Nat \X Nat)
        /\ \A i, j \in DOMAIN done' :
               (i < j /\ done'[i][1] = done'[j][1]) => done'[i][2] < done'[j][2]
        /\ \A i \in DOMAIN done' :
               done'[i] = <<m.key, m.counter>> \/ (i \in DOMAIN done /\ done'[i] = done[i])
    <3>1. \A i \in DOMAIN done : done[i][1] = m.key => done[i][2] < m.counter
      BY <2>2, <1>0 DEF CipherInv, WindowsAhead, CipherStates, CipherMessages
    <3>2. m.key \in Nat /\ m.counter \in Nat /\ done \in Seq(Nat \X Nat)
      BY <2>2 DEF CipherMessages, CipherInv, CipherType
    <3>3. done' = Append(done, <<m.key, m.counter>>)
      BY <2>2
    <3>4. \A i, j \in DOMAIN done : (i < j /\ done[i][1] = done[j][1]) => done[i][2] < done[j][2]
      BY DEF CipherInv, Cipher!InOrderOnce
    <3> QED
      BY <3>1, <3>2, <3>3, <3>4, OrderedAppend
  <2>7. CipherType'
    BY <2>2, <2>3, <2>4, <2>5, <2>6, SMTT(30) DEF CipherInv, CipherType, CipherMessages, CipherStates
  <2>8. KeysKnown'
    BY <2>2, <2>3, <2>4, <2>5 DEF CipherInv, CipherType, KeysKnown, CipherMessages, CipherStates
  <2>9. CountersAhead'
    BY <2>2, <2>3, <2>4, <2>5, SMTT(30) DEF CipherInv, CipherType, CountersAhead, CipherMessages, CipherStates
  <2>10. WindowsAhead'
    <3>1. /\ m.key \in 1..keys /\ keys' = keys /\ mobile' = mobile /\ shown' = shown
          /\ m.counter \in Nat /\ host.recv \in Nat
      BY <2>2 DEF CipherInv, CipherType, KeysKnown, CipherMessages, CipherStates
    <3>2. ASSUME NEW i \in DOMAIN done'
          PROVE  /\ done'[i][1] \in 1..keys
                 /\ done'[i][1] = host.key => done'[i][2] < m.counter + 1
      <4>1. CASE done'[i] = <<m.key, m.counter>>
        BY <3>1, <4>1
      <4>2. CASE i \in DOMAIN done /\ done'[i] = done[i]
        BY <2>2, <3>1, <4>2, <1>0 DEF CipherInv, WindowsAhead
      <4> QED
        BY <2>6, <4>1, <4>2
    <3> QED
      BY <2>3, <3>1, <3>2 DEF CipherInv, WindowsAhead
  <2>11. Cipher!InOrderOnce'
    BY <2>2, <2>6 DEF CipherInv, Cipher!InOrderOnce
  <2>12. Cipher!NonceUnique'
    <3> SUFFICES ASSUME NEW a \in net', NEW b \in net',
                        a.key = b.key, a.from = b.from, a.counter = b.counter
                 PROVE  a = b
      BY DEF Cipher!NonceUnique
    <3>1. \A x \in net : x.counter \in Nat
      BY DEF CipherInv, CipherType, CipherMessages
    <3>2. \A x \in Cipher!Answered(n) :
             x.key = host.key /\ x.from = "host" /\ x.counter >= host.send
             /\ x.counter \in Nat /\ x.body = x.counter - host.send + 1
             /\ x = [key |-> host.key, from |-> "host", counter |-> x.counter, body |-> x.body]
      BY <2>2, <2>4 DEF CipherStates
    <3>3. host.send \in Nat
      BY <2>2 DEF CipherStates
    <3>4. CASE a \in net /\ b \in net
      BY <3>4 DEF CipherInv, Cipher!NonceUnique
    <3>5. CASE a \in net /\ b \in Cipher!Answered(n)
      BY <3>1, <3>2, <3>3, <3>5 DEF CipherInv, CountersAhead
    <3>6. CASE a \in Cipher!Answered(n) /\ b \in net
      BY <3>1, <3>2, <3>3, <3>6 DEF CipherInv, CountersAhead
    <3>7. CASE a \in Cipher!Answered(n) /\ b \in Cipher!Answered(n)
      BY <3>2, <3>7
    <3> QED
      BY <2>5, <3>4, <3>5, <3>6, <3>7
  <2> QED
    BY <2>7, <2>8, <2>9, <2>10, <2>11, <2>12 DEF CipherInv
<1>7. ASSUME NEW m \in net, Cipher!Reads(m)
      PROVE  CipherInv'
  <2>1. /\ mobile \in CipherStates /\ m \in CipherMessages
        /\ m.from = "host" /\ m.key = mobile.key /\ m.counter >= mobile.recv
        /\ mobile' = [mobile EXCEPT !.recv = m.counter + 1]
        /\ shown' = Append(shown, <<m.key, m.counter>>)
        /\ UNCHANGED <<host, keys, net, done>>
    BY <1>7 DEF Cipher!Reads, Cipher!Readable, Cipher!Passed, CipherInv, CipherType
  <2>2. /\ mobile' \in CipherStates
        /\ mobile'.key = mobile.key /\ mobile'.send = mobile.send /\ mobile'.recv = m.counter + 1
    BY <2>1 DEF CipherStates, CipherMessages
  <2>3. /\ shown' \in Seq(Nat \X Nat)
        /\ \A i, j \in DOMAIN shown' :
               (i < j /\ shown'[i][1] = shown'[j][1]) => shown'[i][2] < shown'[j][2]
        /\ \A i \in DOMAIN shown' :
               shown'[i] = <<m.key, m.counter>> \/ (i \in DOMAIN shown /\ shown'[i] = shown[i])
    <3>1. \A i \in DOMAIN shown : shown[i][1] = m.key => shown[i][2] < m.counter
      BY <2>1, <1>0 DEF CipherInv, WindowsAhead, CipherStates, CipherMessages
    <3>2. m.key \in Nat /\ m.counter \in Nat /\ shown \in Seq(Nat \X Nat)
      BY <2>1 DEF CipherMessages, CipherInv, CipherType
    <3>3. shown' = Append(shown, <<m.key, m.counter>>)
      BY <2>1
    <3>4. \A i, j \in DOMAIN shown : (i < j /\ shown[i][1] = shown[j][1]) => shown[i][2] < shown[j][2]
      BY DEF CipherInv, Cipher!InOrderOnce
    <3> QED
      BY <3>1, <3>2, <3>3, <3>4, OrderedAppend
  <2>4. CipherType' /\ KeysKnown'
    BY <2>1, <2>2, <2>3 DEF CipherInv, CipherType, KeysKnown
  <2>5. CountersAhead'
    BY <2>1, <2>2 DEF CipherInv, CountersAhead
  <2>6. WindowsAhead'
    <3>1. /\ keys' = keys /\ host' = host /\ done' = done
          /\ m.counter \in Nat /\ mobile.recv \in Nat /\ mobile.key \in Nat
      BY <2>1 DEF CipherInv, CipherType, CipherMessages, CipherStates
    <3>2. ASSUME NEW i \in DOMAIN shown'
          PROVE  /\ shown'[i][1] <= mobile.key
                 /\ shown'[i][1] = mobile.key => shown'[i][2] < m.counter + 1
      <4>1. CASE shown'[i] = <<m.key, m.counter>>
        BY <2>1, <3>1, <4>1
      <4>2. CASE i \in DOMAIN shown /\ shown'[i] = shown[i]
        BY <2>1, <3>1, <4>2, <1>0 DEF CipherInv, WindowsAhead
      <4> QED
        BY <2>3, <4>1, <4>2
    <3> QED
      BY <2>2, <3>1, <3>2 DEF CipherInv, WindowsAhead
  <2>7. Cipher!InOrderOnce' /\ Cipher!NonceUnique'
    BY <2>1, <2>3 DEF CipherInv, Cipher!InOrderOnce, Cipher!NonceUnique
  <2> QED
    BY <2>4, <2>5, <2>6, <2>7 DEF CipherInv
<1>8. CASE UNCHANGED Cipher!vars
  BY <1>8 DEF Cipher!vars, CipherInv, CipherType, KeysKnown, CountersAhead, WindowsAhead,
       Cipher!InOrderOnce, Cipher!NonceUnique
<1> QED
  BY <1>1, <1>2, <1>3, <1>4, <1>5, <1>6, <1>7, <1>8 DEF Cipher!Next, Cipher!Refuses

\* Encrypted requests are carried out once and in their order, answers are read
\* the same way, and no nonce is used twice, for any number of exchanges,
\* requests and frames (signaling_crypto.rs 125-208).
THEOREM CipherInOrderOnce == Cipher!Spec => []CipherSound
<1>1. CipherInv => CipherSound
  BY DEF CipherInv, CipherSound
<1> QED
  BY CipherInit, CipherStep, <1>1, PTL DEF Cipher!Spec

-----------------------------------------------------------------------------
(* LocalAttach: the seam of the scrollback and the ends of the clients.    *)

\* The events of the readers, and the two that matter here.
LocalEvents == [type : {"attach", "data", "disconnected"}, client : Clients]
AttachOf(c) == [type |-> "attach", client |-> c]
EndOf(c) == [type |-> "disconnected", client |-> c]

\* The types of the state of LocalAttach.
LocalType ==
    /\ cli \in [Clients -> {"off", "waiting", "attached", "gone"}]
    /\ localSent \in [Clients -> Seq({"attach", "data", "detach"})]
    /\ reader \in [Clients -> {"none", "reading", "done"}]
    /\ localEvents \in Seq(LocalEvents)
    /\ writers \subseteq Clients /\ attached \subseteq Clients
    /\ session \in {"live", "exited", "closed"}
    /\ written \in Nat /\ queue \in Seq(Nat)
    /\ got \in [Clients -> Seq(Nat)]

\* A command is attached only once the loop has taken its write half.
AttachOnce ==
    /\ \A c \in writers : cli[c] # "attached" /\ reader[c] # "none"
    /\ \A c \in Clients : cli[c] = "attached" => reader[c] # "none"

\* The queue holds the last chunks that were written.
QueueIsTail ==
    /\ Len(queue) <= written
    /\ \A i \in DOMAIN queue : queue[i] = written - Len(queue) + i

\* The last chunk that a client has printed, 0 if there is none.
Printed(c) == IF got[c] = <<>> THEN 0 ELSE got[c][Len(got[c])]

\* What an attached terminal has printed meets the queue.
SeamMeets ==
    \A c \in Clients :
        (cli[c] = "attached" /\ c \in attached /\ session # "closed") =>
            Printed(c) <= written /\ written - Len(queue) <= Printed(c)

\* What each client prints rises by one chunk at a time at most.
NoGap ==
    \A c \in Clients : \A i \in DOMAIN got[c] :
        got[c][i] <= (IF i = 1 THEN 1 ELSE got[c][i - 1] + 1)

\* A closed session has no output left.
ClosedQuiet == session = "closed" => queue = <<>>

\* After the reader has ended, its end follows its attach in the queue.
EndFollows ==
    \A c \in Clients : reader[c] = "done" =>
        \A i \in DOMAIN localEvents : localEvents[i] = AttachOf(c) =>
            \E j \in DOMAIN localEvents : j > i /\ localEvents[j] = EndOf(c)

\* GoneForgotten, with the name of the end event.
LocalGone ==
    \A c \in attached : reader[c] = "done" =>
        \E i \in DOMAIN localEvents : localEvents[i] = EndOf(c)

\* The inductive invariant of LocalAttach.
LocalInv ==
    /\ LocalType /\ AttachOnce /\ QueueIsTail /\ SeamMeets /\ NoGap /\ ClosedQuiet
    /\ EndFollows /\ LocalGone

\* Printing the queue after what meets it leaves no gap.
LEMMA SeamAppend ==
  ASSUME NEW s \in Seq(Nat), NEW q \in Seq(Nat), NEW w \in Nat, NEW p \in Nat,
         s = <<>> => p = 0, s # <<>> => p = s[Len(s)],
         q # <<>>, \A i \in 1..Len(q) : q[i] = w - Len(q) + i,
         w - Len(q) <= p,
         \A i \in 1..Len(s) : s[i] <= (IF i = 1 THEN 1 ELSE s[i - 1] + 1)
  PROVE  /\ s \o q \in Seq(Nat) /\ s \o q # <<>> /\ (s \o q)[Len(s \o q)] = w
         /\ \A i \in 1..Len(s \o q) :
                (s \o q)[i] <= (IF i = 1 THEN 1 ELSE (s \o q)[i - 1] + 1)
<1> DEFINE t == s \o q
           m == Len(s)
           n == Len(q)
<1>1. /\ t \in Seq(Nat) /\ Len(t) = m + n /\ m \in Nat /\ n \in Nat /\ n # 0
      /\ m = 0 => s = <<>>
      /\ m # 0 => s # <<>>
  OBVIOUS
<1>2. /\ \A i \in 1..m : t[i] = s[i]
      /\ \A i \in 1..n : t[m + i] = q[i]
  OBVIOUS
<1>3. \A i \in 1..n : q[i] = w - n + i
  OBVIOUS
<1>4. \A i \in 1..m : s[i] <= (IF i = 1 THEN 1 ELSE s[i - 1] + 1)
  OBVIOUS
<1>5. m # 0 => s[m] = p
  BY <1>1
<1>6. m = 0 => p = 0
  BY <1>1
<1>7. w - n <= p
  OBVIOUS
<1> HIDE DEF t, m, n
<1>8. t[m + n] = w
  <2>1. n \in 1..n
    BY <1>1
  <2>2. t[m + n] = q[n] /\ q[n] = w - n + n
    BY <1>2, <1>3, <2>1
  <2> QED
    BY <1>1, <2>2
<1>9. ASSUME NEW i \in 1..(m + n)
      PROVE  t[i] <= (IF i = 1 THEN 1 ELSE t[i - 1] + 1)
  <2>1. CASE i <= m
    <3>1. i \in 1..m /\ (i # 1 => i - 1 \in 1..m)
      BY <1>1, <2>1
    <3>2. t[i] = s[i] /\ (i # 1 => t[i - 1] = s[i - 1])
      BY <1>2, <3>1
    <3> QED
      BY <1>4, <3>1, <3>2
  <2>2. CASE i = m + 1
    <3>1. t[i] = w - n + 1
      BY <1>1, <1>2, <1>3, <2>2
    <3>2. m # 0 => t[m] = p
      BY <1>1, <1>2, <1>5
    <3> QED
      BY <1>1, <1>6, <1>7, <2>2, <3>1, <3>2
  <2>3. CASE i > m + 1
    <3> DEFINE j == i - m
    <3>1. j \in 1..n /\ j - 1 \in 1..n /\ i = m + j /\ i - 1 = m + (j - 1)
      BY <1>1, <2>3
    <3> HIDE DEF j
    <3>2. t[i] = w - n + j /\ t[i - 1] = w - n + (j - 1)
      BY <1>2, <1>3, <3>1
    <3> QED
      BY <1>1, <3>1, <3>2
  <2> QED
    BY <1>1, <2>1, <2>2, <2>3
<1> QED
  BY <1>1, <1>8, <1>9, SMTT(30) DEF t, m, n

\* Facts about one more event at the end, or one less at the head.
LEMMA EventQueue ==
  ASSUME LocalType
  PROVE  /\ \A e \in LocalEvents :
               LET s == Append(localEvents, e)
               IN  /\ s \in Seq(LocalEvents) /\ Len(s) = Len(localEvents) + 1
                   /\ DOMAIN s = 1..(Len(localEvents) + 1)
                   /\ s[Len(localEvents) + 1] = e
                   /\ \A i \in DOMAIN localEvents : i \in DOMAIN s /\ s[i] = localEvents[i]
         /\ localEvents # <<>> =>
               LET s == Tail(localEvents)
               IN  /\ s \in Seq(LocalEvents)
                   /\ 1 \in DOMAIN localEvents
                   /\ Head(localEvents) = localEvents[1] /\ Head(localEvents) \in LocalEvents
                   /\ \A i \in DOMAIN s : i + 1 \in DOMAIN localEvents /\ s[i] = localEvents[i + 1]
                   /\ \A i \in DOMAIN localEvents : i > 1 => i - 1 \in DOMAIN s /\ s[i - 1] = localEvents[i]
         /\ DOMAIN localEvents = 1..Len(localEvents) /\ Len(localEvents) \in Nat
BY DEF LocalType

\* One more event at the end keeps what is said of the queue.
LEMMA TellsKeeps ==
  ASSUME LocalType, EndFollows, LocalGone, NEW c \in Clients, NEW t \in {"attach", "data", "disconnected"},
         reader[c] = "reading", Local!Tells(c, t), attached' = attached,
         reader' = IF t = "disconnected" THEN [reader EXCEPT ![c] = "done"] ELSE reader
  PROVE  localEvents' \in Seq(LocalEvents) /\ EndFollows' /\ LocalGone'
<1> DEFINE e == [type |-> t, client |-> c]
           n == Len(localEvents) + 1
<1>1. e \in LocalEvents /\ localEvents' = Append(localEvents, e)
  BY DEF LocalEvents, Local!Tells
<1>2. /\ localEvents' \in Seq(LocalEvents)
      /\ DOMAIN localEvents' = 1..n /\ localEvents'[n] = e
      /\ \A i \in DOMAIN localEvents : i \in DOMAIN localEvents' /\ localEvents'[i] = localEvents[i]
      /\ DOMAIN localEvents = 1..(n - 1) /\ n \in Nat \ {0}
  BY <1>1, EventQueue
<1>3. /\ reader \in [Clients -> {"none", "reading", "done"}]
      /\ \A d \in Clients : reader'[d] = "done" => reader[d] = "done" \/ (d = c /\ t = "disconnected")
  BY DEF LocalType
<1>4. ASSUME NEW d \in Clients, reader'[d] = "done", NEW i \in DOMAIN localEvents',
             localEvents'[i] = AttachOf(d)
      PROVE  \E j \in DOMAIN localEvents' : j > i /\ localEvents'[j] = EndOf(d)
  <2>1. CASE d = c /\ t = "disconnected"
    <3>1. localEvents'[n] = EndOf(d) /\ AttachOf(d) # EndOf(d)
      BY <1>2, <2>1 DEF EndOf, AttachOf
    <3> QED
      BY <1>2, <1>4, <3>1
  <2>2. CASE reader[d] = "done"
    <3>1. d # c
      BY <2>2
    <3>2. i \in DOMAIN localEvents /\ localEvents[i] = AttachOf(d)
      BY <1>2, <1>4, <3>1 DEF AttachOf
    <3> QED
      BY <1>2, <2>2, <3>2 DEF EndFollows
  <2> QED
    BY <1>3, <1>4, <2>1, <2>2
<1>5. ASSUME NEW d \in attached, reader'[d] = "done"
      PROVE  \E i \in DOMAIN localEvents' : localEvents'[i] = EndOf(d)
  <2>0. d \in Clients
    BY DEF LocalType
  <2>1. CASE d = c /\ t = "disconnected"
    BY <1>2, <2>1 DEF EndOf
  <2>2. CASE reader[d] = "done"
    BY <1>2, <2>2 DEF LocalGone
  <2> QED
    BY <1>3, <1>5, <2>0, <2>1, <2>2
<1> QED
  BY <1>2, <1>4, <1>5 DEF EndFollows, LocalGone, AttachOf, EndOf

\* Taking the head of the queue keeps it too, if the head is no end, or the
\* client whose end it is leaves the table.
LEMMA HandlesKeeps ==
  ASSUME LocalType, EndFollows, LocalGone, NEW t, Local!Handles(t), reader' = reader,
         attached' \subseteq attached \cup (IF t = "attach" THEN {Local!Sender} ELSE {}),
         t = "disconnected" => Local!Sender \notin attached'
  PROVE  /\ localEvents' \in Seq(LocalEvents) /\ Local!Sender \in Clients
         /\ EndFollows' /\ LocalGone'
<1>1. /\ localEvents # <<>> /\ localEvents' = Tail(localEvents)
      /\ 1 \in DOMAIN localEvents /\ localEvents[1] \in LocalEvents
      /\ localEvents[1].type = t /\ localEvents[1].client = Local!Sender
      /\ localEvents' \in Seq(LocalEvents)
  BY EventQueue DEF Local!Handles, Local!Sender
<1>2. /\ \A i \in DOMAIN localEvents' : i \in Nat /\ i + 1 \in DOMAIN localEvents /\ localEvents'[i] = localEvents[i + 1]
      /\ \A i \in DOMAIN localEvents :
            i > 1 => i - 1 \in DOMAIN localEvents' /\ localEvents'[i - 1] = localEvents[i]
      /\ \A i \in DOMAIN localEvents : i \in Nat /\ i >= 1
  BY <1>1, EventQueue
<1>3. Local!Sender \in Clients
  BY <1>1 DEF LocalEvents
<1>4. ASSUME NEW d \in Clients, reader[d] = "done", NEW i \in DOMAIN localEvents',
             localEvents'[i] = AttachOf(d)
      PROVE  \E j \in DOMAIN localEvents' : j > i /\ localEvents'[j] = EndOf(d)
  <2>1. PICK j \in DOMAIN localEvents : j > i + 1 /\ localEvents[j] = EndOf(d)
    BY <1>2, <1>4 DEF EndFollows
  <2> QED
    BY <1>2, <2>1
<1>5. ASSUME NEW d \in attached', reader[d] = "done"
      PROVE  \E i \in DOMAIN localEvents' : localEvents'[i] = EndOf(d)
  <2>0. d \in Clients
    BY <1>3 DEF LocalType
  <2>1. CASE t = "attach" /\ d = Local!Sender
    <3>1. localEvents[1] = AttachOf(d)
      BY <1>1, <2>1 DEF LocalEvents, AttachOf
    <3>2. PICK j \in DOMAIN localEvents : j > 1 /\ localEvents[j] = EndOf(d)
      BY <1>1, <1>5, <2>0, <3>1 DEF EndFollows
    <3> QED
      BY <1>2, <3>2
  <2>2. CASE d \in attached
    <3>1. PICK j \in DOMAIN localEvents : localEvents[j] = EndOf(d)
      BY <1>5, <2>2 DEF LocalGone
    <3>2. CASE j = 1
      <4>1. t = "disconnected" /\ Local!Sender = d
        BY <1>1, <3>1, <3>2 DEF EndOf
      <4> QED
        BY <4>1
    <3>3. CASE j > 1
      BY <1>2, <3>1, <3>3
    <3> QED
      BY <1>2, <3>2, <3>3
  <2> QED
    BY <2>1, <2>2
<1> QED
  BY <1>1, <1>3, <1>4, <1>5 DEF EndFollows, LocalGone, AttachOf, EndOf

\* At the start nobody is connected.
LEMMA LocalInit == Local!Init => LocalInv
BY DEF Local!Init, LocalInv, LocalType, AttachOnce, QueueIsTail, SeamMeets, NoGap, ClosedQuiet,
       EndFollows, LocalGone

\* Steps that leave the output and the tables alone.
LEMMA SeamKept ==
  ASSUME LocalType, SeamMeets, NoGap, got' = got, written' = written, queue' = queue,
         session' = session, attached' \subseteq attached,
         \A c \in Clients : cli'[c] = "attached" => cli[c] = "attached"
  PROVE  SeamMeets' /\ NoGap'
BY DEF SeamMeets, NoGap, Printed, LocalType

\* Commands, readers, the loop and the shell keep the invariant.
LEMMA LocalStep == LocalInv /\ [Local!Next]_(Local!vars) => LocalInv'
<1> SUFFICES ASSUME LocalInv, [Local!Next]_(Local!vars) PROVE LocalInv'
  OBVIOUS
<1>0. /\ LocalType /\ AttachOnce /\ QueueIsTail /\ SeamMeets /\ NoGap /\ ClosedQuiet
      /\ EndFollows /\ LocalGone
  BY DEF LocalInv
<1>1. ASSUME NEW c \in Clients, Local!ClientStep(c) PROVE LocalInv'
  <2>1. /\ UNCHANGED <<reader, localEvents, writers, attached, session, written, queue, got>>
        /\ localSent' \in [Clients -> Seq({"attach", "data", "detach"})]
        /\ cli' \in [Clients -> {"off", "waiting", "attached", "gone"}]
        /\ \A d \in Clients : cli'[d] = "attached" => cli[d] = "attached"
    <3> USE <1>0 DEF LocalType, Local!Now, Local!Sends, Local!daemon, Local!shell
    <3>1. CASE Local!Connects(c)
      BY <3>1 DEF Local!Connects
    <3>2. CASE Local!Types(c)
      BY <3>2 DEF Local!Types
    <3>3. CASE Local!Detaches(c)
      BY <3>3 DEF Local!Detaches
    <3>4. CASE Local!Dies(c)
      BY <3>4 DEF Local!Dies
    <3>5. CASE Local!HearsEnd(c)
      BY <3>5 DEF Local!HearsEnd
    <3> QED
      BY <1>1, <3>1, <3>2, <3>3, <3>4, <3>5 DEF Local!ClientStep
  <2>2. LocalType'
    BY <1>0, <2>1 DEF LocalType
  <2>3. SeamMeets' /\ NoGap'
    BY <1>0, <2>1, SeamKept
  <2>4. AttachOnce'
    BY <1>0, <2>1 DEF AttachOnce, LocalType
  <2> QED
    BY <1>0, <2>1, <2>2, <2>3, <2>4 DEF LocalInv, QueueIsTail, ClosedQuiet, EndFollows, LocalGone
<1>2. ASSUME NEW c \in Clients, Local!Reads(c) PROVE LocalInv'
  <2> DEFINE t == IF Head(localSent[c]) = "detach" THEN "disconnected" ELSE Head(localSent[c])
  <2>1. /\ UNCHANGED <<cli, writers, attached, session, written, queue, got>>
        /\ reader[c] = "reading"
        /\ localSent' \in [Clients -> Seq({"attach", "data", "detach"})]
        /\ Head(localSent[c]) \in {"attach", "data", "detach"}
    BY <1>0, <1>2 DEF LocalType, Local!Reads, Local!shell
  <2>2. /\ t \in {"attach", "data", "disconnected"} /\ Local!Tells(c, t)
        /\ reader' = IF t = "disconnected" THEN [reader EXCEPT ![c] = "done"] ELSE reader
    BY <1>2, <2>1 DEF Local!Reads, Local!Tells
  <2>3. localEvents' \in Seq(LocalEvents) /\ EndFollows' /\ LocalGone'
    BY <1>0, <2>1, <2>2, TellsKeeps
  <2>4. LocalType'
    BY <1>0, <2>1, <2>2, <2>3 DEF LocalType
  <2>5. SeamMeets' /\ NoGap'
    BY <1>0, <2>1, SeamKept
  <2>6. AttachOnce'
    BY <1>0, <2>1, <2>2 DEF AttachOnce, LocalType
  <2> QED
    BY <1>0, <2>1, <2>3, <2>4, <2>5, <2>6 DEF LocalInv, QueueIsTail, ClosedQuiet
<1>3. ASSUME NEW c \in Clients, Local!ReaderEnds(c) PROVE LocalInv'
  <2>1. /\ UNCHANGED <<cli, localSent, writers, attached, session, written, queue, got>>
        /\ reader[c] = "reading" /\ reader' = [reader EXCEPT ![c] = "done"]
        /\ Local!Tells(c, "disconnected")
    BY <1>3 DEF Local!ReaderEnds, Local!shell, Local!command
  <2>3. localEvents' \in Seq(LocalEvents) /\ EndFollows' /\ LocalGone'
    BY <1>0, <2>1, TellsKeeps
  <2>4. LocalType'
    BY <1>0, <2>1, <2>3 DEF LocalType
  <2>5. SeamMeets' /\ NoGap'
    BY <1>0, <2>1, SeamKept
  <2>6. AttachOnce'
    BY <1>0, <2>1 DEF AttachOnce, LocalType
  <2> QED
    BY <1>0, <2>1, <2>3, <2>4, <2>5, <2>6 DEF LocalInv, QueueIsTail, ClosedQuiet
<1>4. ASSUME NEW c \in Clients, Local!Accepts(c) PROVE LocalInv'
  <2>1. /\ UNCHANGED <<cli, localSent, localEvents, attached, session, written, queue, got>>
        /\ reader[c] = "none" /\ reader' = [reader EXCEPT ![c] = "reading"]
        /\ writers' = writers \cup {c}
    BY <1>4 DEF Local!Accepts, Local!shell, Local!command
  <2>2. LocalType'
    BY <1>0, <2>1 DEF LocalType
  <2>3. SeamMeets' /\ NoGap'
    BY <1>0, <2>1, SeamKept
  <2>4. AttachOnce'
    BY <1>0, <2>1 DEF AttachOnce, LocalType
  <2>5. EndFollows' /\ LocalGone'
    BY <1>0, <2>1 DEF EndFollows, LocalGone, LocalType, AttachOf, EndOf
  <2> QED
    BY <1>0, <2>1, <2>2, <2>3, <2>4, <2>5 DEF LocalInv, QueueIsTail, ClosedQuiet
<1>5. ASSUME Local!HandlesAttach PROVE LocalInv'
  <2> DEFINE c == Local!Sender
  <2>1. /\ Local!Handles("attach") /\ writers' = writers \ {c}
        /\ UNCHANGED <<localSent, reader, session, written, queue>>
        /\ attached' \subseteq attached \cup {c}
    BY <1>5 DEF Local!HandlesAttach, Local!shell, Local!Attaches, Local!Refuses
  <2>2. localEvents' \in Seq(LocalEvents) /\ c \in Clients /\ EndFollows' /\ LocalGone'
    BY <1>0, <2>1, HandlesKeeps
  <2> HIDE DEF c
  <2>3. CASE cli' = cli /\ got' = got /\ attached' = attached
    <3>1. LocalType'
      BY <1>0, <2>1, <2>2, <2>3 DEF LocalType
    <3>2. SeamMeets' /\ NoGap'
      BY <1>0, <2>1, <2>3, SeamKept
    <3>3. AttachOnce'
      BY <1>0, <2>1, <2>3 DEF AttachOnce
    <3> QED
      BY <1>0, <2>1, <2>2, <3>1, <3>2, <3>3 DEF LocalInv, QueueIsTail, ClosedQuiet
  <2>4. CASE c \in writers /\ Local!Refuses(c)
    <3>1. cli' = [cli EXCEPT ![c] = "gone"] /\ UNCHANGED <<attached, got>>
      BY <2>4 DEF Local!Refuses
    <3>2. LocalType'
      BY <1>0, <2>1, <2>2, <3>1 DEF LocalType
    <3>3. SeamMeets' /\ NoGap'
      BY <1>0, <2>1, <2>2, <3>1, SeamKept DEF LocalType
    <3>4. AttachOnce'
      BY <1>0, <2>1, <2>2, <3>1 DEF AttachOnce, LocalType
    <3> QED
      BY <1>0, <2>1, <2>2, <3>2, <3>3, <3>4 DEF LocalInv, QueueIsTail, ClosedQuiet
  <2>5. CASE c \in writers /\ Local!Attaches(c)
    <3> DEFINE all == [i \in 1..written |-> i]
    <3>1. /\ attached' \subseteq attached \cup {c}
          /\ cli' = [cli EXCEPT ![c] = IF @ = "waiting" THEN "attached" ELSE @]
          /\ got' = [got EXCEPT ![c] = IF cli[c] = "waiting" THEN all ELSE @]
          /\ cli[c] # "attached" /\ reader[c] # "none" /\ written \in Nat
      BY <1>0, <2>1, <2>5 DEF Local!Attaches, AttachOnce, LocalType
    <3>2. all \in Seq(Nat) /\ Len(all) = written /\ \A i \in 1..written : all[i] = i
      BY <3>1
    <3>3. DOMAIN all = 1..written /\ (all = <<>> => written = 0) /\ (written = 0 => all = <<>>)
      BY <3>1, <3>2
    <3> HIDE DEF all
    <3>4. LocalType'
      BY <1>0, <2>1, <2>2, <3>1, <3>2 DEF LocalType
    <3>5. AttachOnce'
      BY <1>0, <2>1, <2>2, <3>1 DEF AttachOnce, LocalType
    <3>6. NoGap'
      <4> SUFFICES ASSUME NEW d \in Clients, NEW i \in DOMAIN got'[d]
                   PROVE  got'[d][i] <= (IF i = 1 THEN 1 ELSE got'[d][i - 1] + 1)
        BY DEF NoGap
      <4>1. CASE got'[d] = got[d]
        BY <1>0, <4>1 DEF NoGap
      <4>2. CASE got'[d] = all
        BY <3>1, <3>2, <3>3, <4>2
      <4> QED
        BY <1>0, <2>2, <3>1, <4>1, <4>2 DEF LocalType
    <3>7. SeamMeets'
      <4> SUFFICES ASSUME NEW d \in Clients, cli'[d] = "attached", d \in attached', session # "closed"
                   PROVE  Printed(d)' <= written /\ written - Len(queue) <= Printed(d)'
        BY <2>1 DEF SeamMeets
      <4>1. CASE d = c
        <5>1. got'[d] = all
          BY <1>0, <2>2, <3>1, <4>1 DEF LocalType
        <5>2. Printed(d)' = written
          BY <3>1, <3>2, <3>3, <5>1 DEF Printed
        <5> QED
          BY <1>0, <3>1, <5>2 DEF LocalType
      <4>2. CASE d # c
        BY <1>0, <2>2, <3>1, <4>2 DEF LocalType, SeamMeets, Printed
      <4> QED
        BY <4>1, <4>2
    <3> QED
      BY <1>0, <2>1, <2>2, <3>4, <3>5, <3>6, <3>7 DEF LocalInv, QueueIsTail, ClosedQuiet
  <2> QED
    BY <1>5, <2>3, <2>4, <2>5 DEF Local!HandlesAttach, c
<1>6. ASSUME Local!HandlesInput PROVE LocalInv'
  <2>1. /\ UNCHANGED <<cli, localSent, reader, writers, attached, session, written, queue, got>>
        /\ Local!Handles("data")
    BY <1>6 DEF Local!HandlesInput, Local!command, Local!shell
  <2>2. localEvents' \in Seq(LocalEvents) /\ EndFollows' /\ LocalGone'
    BY <1>0, <2>1, HandlesKeeps
  <2>3. LocalType'
    BY <1>0, <2>1, <2>2 DEF LocalType
  <2>4. SeamMeets' /\ NoGap'
    BY <1>0, <2>1, SeamKept
  <2> QED
    BY <1>0, <2>1, <2>2, <2>3, <2>4 DEF LocalInv, QueueIsTail, ClosedQuiet, AttachOnce
<1>7. ASSUME Local!HandlesDisconnected PROVE LocalInv'
  <2>1. /\ UNCHANGED <<cli, localSent, reader, writers, session, written, queue, got>>
        /\ Local!Handles("disconnected") /\ attached' = attached \ {Local!Sender}
    BY <1>7 DEF Local!HandlesDisconnected, Local!command, Local!shell
  <2>2. localEvents' \in Seq(LocalEvents) /\ EndFollows' /\ LocalGone'
    BY <1>0, <2>1, HandlesKeeps
  <2>3. LocalType'
    BY <1>0, <2>1, <2>2 DEF LocalType
  <2>4. SeamMeets' /\ NoGap'
    BY <1>0, <2>1, SeamKept
  <2> QED
    BY <1>0, <2>1, <2>2, <2>3, <2>4 DEF LocalInv, QueueIsTail, ClosedQuiet, AttachOnce
<1>8. ASSUME Local!OutputTick PROVE LocalInv'
  <2>1. /\ queue # <<>> /\ queue' = <<>> /\ attached' \subseteq attached
        /\ got' = [c \in Clients |->
                     IF c \in attached /\ cli[c] = "attached" THEN got[c] \o queue ELSE got[c]]
        /\ UNCHANGED <<cli, localSent, reader, localEvents, writers, session, written>>
    BY <1>8 DEF Local!OutputTick, Local!command
  <2>2. session # "closed" /\ written \in Nat /\ queue \in Seq(Nat)
    BY <1>0, <2>1 DEF ClosedQuiet, LocalType
  <2>3. ASSUME NEW c \in Clients, c \in attached, cli[c] = "attached"
        PROVE  /\ got'[c] \in Seq(Nat) /\ got'[c] # <<>> /\ got'[c][Len(got'[c])] = written
               /\ \A i \in 1..Len(got'[c]) :
                      got'[c][i] <= (IF i = 1 THEN 1 ELSE got'[c][i - 1] + 1)
    <3>1. got'[c] = got[c] \o queue /\ got[c] \in Seq(Nat)
      BY <1>0, <2>1, <2>3 DEF LocalType
    <3>2. /\ Printed(c) <= written /\ written - Len(queue) <= Printed(c)
          /\ Printed(c) \in Nat
          /\ got[c] = <<>> => Printed(c) = 0
          /\ got[c] # <<>> => Printed(c) = got[c][Len(got[c])]
      BY <1>0, <2>2, <2>3, <3>1 DEF SeamMeets, Printed
    <3>3. \A i \in 1..Len(queue) : queue[i] = written - Len(queue) + i
      BY <1>0, <2>2 DEF QueueIsTail
    <3>4. \A i \in 1..Len(got[c]) : got[c][i] <= (IF i = 1 THEN 1 ELSE got[c][i - 1] + 1)
      <4>1. DOMAIN got[c] = 1..Len(got[c])
        BY <3>1
      <4> QED
        BY <1>0, <4>1 DEF NoGap
    <3>5. /\ got[c] \o queue \in Seq(Nat) /\ got[c] \o queue # <<>>
          /\ (got[c] \o queue)[Len(got[c] \o queue)] = written
          /\ \A i \in 1..Len(got[c] \o queue) :
                 (got[c] \o queue)[i] <= (IF i = 1 THEN 1 ELSE (got[c] \o queue)[i - 1] + 1)
      <4> DEFINE s == got[c]
                 p == Printed(c)
      <4>1. /\ s \in Seq(Nat) /\ p \in Nat /\ queue # <<>> /\ queue \in Seq(Nat)
            /\ s = <<>> => p = 0
            /\ s # <<>> => p = s[Len(s)]
            /\ written - Len(queue) <= p /\ written \in Nat
        BY <2>1, <2>2, <3>1, <3>2
      <4>2. /\ \A i \in 1..Len(queue) : queue[i] = written - Len(queue) + i
            /\ \A i \in 1..Len(s) : s[i] <= (IF i = 1 THEN 1 ELSE s[i - 1] + 1)
        BY <3>3, <3>4
      <4> HIDE DEF s, p
      <4>3. /\ s \o queue \in Seq(Nat) /\ s \o queue # <<>> /\ (s \o queue)[Len(s \o queue)] = written
            /\ \A i \in 1..Len(s \o queue) :
                   (s \o queue)[i] <= (IF i = 1 THEN 1 ELSE (s \o queue)[i - 1] + 1)
        BY <4>1, <4>2, SeamAppend
      <4> QED
        BY <4>3 DEF s
    <3> QED
      BY <3>1, <3>5
  <2>4. \A c \in Clients : ~(c \in attached /\ cli[c] = "attached") => got'[c] = got[c]
    BY <2>1
  <2>5. got' \in [Clients -> Seq(Nat)]
    <3>1. DOMAIN got' = Clients /\ got' = [c \in Clients |-> got'[c]]
      BY <2>1
    <3>2. \A c \in Clients : got'[c] \in Seq(Nat)
      BY <1>0, <2>3, <2>4 DEF LocalType
    <3> QED
      BY <3>1, <3>2
  <2>6. LocalType'
    BY <1>0, <2>1, <2>5 DEF LocalType
  <2>7. NoGap'
    <3> SUFFICES ASSUME NEW c \in Clients, NEW i \in DOMAIN got'[c]
                 PROVE  got'[c][i] <= (IF i = 1 THEN 1 ELSE got'[c][i - 1] + 1)
      BY DEF NoGap
    <3>1. DOMAIN got'[c] = 1..Len(got'[c])
      BY <2>5
    <3> QED
      BY <1>0, <2>3, <2>4, <3>1 DEF NoGap
  <2>8. SeamMeets'
    <3> SUFFICES ASSUME NEW c \in Clients, cli[c] = "attached", c \in attached'
                 PROVE  Printed(c)' <= written /\ written - Len(queue') <= Printed(c)'
      BY <2>1 DEF SeamMeets
    <3>1. Printed(c)' = written
      BY <2>1, <2>3 DEF Printed
    <3> QED
      BY <2>1, <2>2, <3>1
  <2> QED
    BY <1>0, <2>1, <2>2, <2>6, <2>7, <2>8
       DEF LocalInv, QueueIsTail, ClosedQuiet, AttachOnce, EndFollows, LocalGone
<1>9. ASSUME Local!ShellWrites PROVE LocalInv'
  <2>1. /\ session # "closed" /\ written \in Nat /\ queue \in Seq(Nat) /\ written' = written + 1
        /\ queue' = Append(queue, written + 1)
        /\ UNCHANGED <<cli, localSent, reader, localEvents, writers, attached, session, got>>
    BY <1>0, <1>9 DEF Local!ShellWrites, Local!command, Local!daemon, LocalType
  <2>2. /\ queue' \in Seq(Nat) /\ Len(queue') = Len(queue) + 1 /\ Len(queue) \in Nat
        /\ \A i \in 1..Len(queue) : queue'[i] = queue[i]
        /\ queue'[Len(queue) + 1] = written + 1
    BY <2>1
  <2>3. LocalType'
    BY <1>0, <2>1, <2>2 DEF LocalType
  <2>4. QueueIsTail'
    <3>1. \A i \in 1..Len(queue) : queue[i] = written - Len(queue) + i
      BY <1>0, <2>1 DEF QueueIsTail
    <3>2. Len(queue) <= written
      BY <1>0 DEF QueueIsTail
    <3>3. ASSUME NEW i \in 1..(Len(queue) + 1)
          PROVE  queue'[i] = (written + 1) - (Len(queue) + 1) + i
      <4>1. CASE i \in 1..Len(queue)
        BY <2>1, <2>2, <3>1, <4>1
      <4>2. CASE i = Len(queue) + 1
        BY <2>1, <2>2, <4>2
      <4> QED
        BY <2>2, <4>1, <4>2
    <3>4. DOMAIN queue' = 1..(Len(queue) + 1)
      BY <2>2
    <3> QED
      BY <2>1, <2>2, <3>2, <3>3, <3>4 DEF QueueIsTail
  <2>5. SeamMeets' /\ NoGap'
    <3>1. \A c \in Clients : Printed(c)' = Printed(c) /\ Printed(c) \in Nat
      BY <1>0, <2>1 DEF Printed, LocalType
    <3> QED
      BY <1>0, <2>1, <2>2, <3>1 DEF SeamMeets, NoGap
  <2> QED
    BY <1>0, <2>1, <2>3, <2>4, <2>5 DEF LocalInv, ClosedQuiet, AttachOnce, EndFollows, LocalGone
<1>10. ASSUME Local!ShellExits PROVE LocalInv'
  <2>1. /\ session # "closed" /\ session' = "exited"
        /\ UNCHANGED <<cli, localSent, reader, localEvents, writers, attached, written, queue, got>>
    BY <1>10 DEF Local!ShellExits, Local!command, Local!daemon
  <2> QED
    BY <1>0, <2>1 DEF LocalInv, LocalType, AttachOnce, QueueIsTail, SeamMeets, Printed, NoGap,
       ClosedQuiet, EndFollows, LocalGone
<1>11. ASSUME Local!Reaps PROVE LocalInv'
  <2>1. /\ session' = "closed" /\ queue' = <<>> /\ attached' = {}
        /\ cli' = [c \in Clients |-> IF c \in attached THEN "gone" ELSE cli[c]]
        /\ UNCHANGED <<localSent, reader, localEvents, writers, written, got>>
    BY <1>11 DEF Local!Reaps
  <2> QED
    BY <1>0, <2>1 DEF LocalInv, LocalType, AttachOnce, QueueIsTail, SeamMeets, NoGap,
       ClosedQuiet, EndFollows, LocalGone
<1>12. ASSUME Local!Closed PROVE LocalInv'
  <2>1. /\ session' = "closed" /\ queue' = <<>>
        /\ UNCHANGED <<cli, localSent, reader, localEvents, writers, attached, written, got>>
    BY <1>12 DEF Local!Closed, Local!command, Local!daemon
  <2> QED
    BY <1>0, <2>1 DEF LocalInv, LocalType, AttachOnce, QueueIsTail, SeamMeets, NoGap,
       ClosedQuiet, EndFollows, LocalGone
<1>13. CASE UNCHANGED Local!vars
  BY <1>0, <1>13 DEF Local!vars, Local!command, Local!daemon, Local!shell, LocalInv, LocalType,
     AttachOnce, QueueIsTail, SeamMeets, Printed, NoGap, ClosedQuiet, EndFollows, LocalGone
<1> QED
  BY <1>1, <1>2, <1>3, <1>4, <1>5, <1>6, <1>7, <1>8, <1>9, <1>10, <1>11, <1>12, <1>13
     DEF Local!Next, Local!ReaderStep

\* Local terminals miss no output and those that left are forgotten, for any
\* number of clients and chunks (local_ipc.rs, daemon.rs 980-1045).
THEOREM LocalServed == Local!Spec => []LocalClientsServed
<1>1. LocalInv => LocalClientsServed
  <2> SUFFICES ASSUME LocalInv PROVE LocalClientsServed
    OBVIOUS
  <2>1. Local!GoneForgotten
    BY DEF LocalInv, LocalGone, Local!GoneForgotten, EndOf
  <2>2. ASSUME NEW c \in Clients, cli[c] = "attached", c \in attached, session # "closed", written # 0
        PROVE  written \in Local!ToSet(got[c]) \cup Local!ToSet(queue)
    <3>1. /\ Printed(c) <= written /\ written - Len(queue) <= Printed(c)
          /\ written \in Nat /\ queue \in Seq(Nat) /\ got[c] \in Seq(Nat)
      BY <2>2 DEF LocalInv, SeamMeets, LocalType
    <3>2. CASE queue = <<>>
      <4>1. Printed(c) = written
        BY <3>1, <3>2 DEF Printed
      <4>2. got[c] # <<>> /\ got[c][Len(got[c])] = written
        BY <2>2, <4>1 DEF Printed
      <4>3. Len(got[c]) \in DOMAIN got[c]
        BY <3>1, <4>2
      <4> QED
        BY <4>2, <4>3 DEF Local!ToSet
    <3>3. CASE queue # <<>>
      <4>1. Len(queue) \in DOMAIN queue /\ Len(queue) \in Nat
        BY <3>1, <3>3
      <4>2. queue[Len(queue)] = written - Len(queue) + Len(queue)
        BY <4>1 DEF LocalInv, QueueIsTail
      <4>3. queue[Len(queue)] = written
        BY <3>1, <4>1, <4>2
      <4> QED
        BY <4>1, <4>3 DEF Local!ToSet
    <3> QED
      BY <3>2, <3>3
  <2>3. Local!SeamGapFree
    BY <2>2 DEF LocalInv, NoGap, Local!SeamGapFree
  <2> QED
    BY <2>1, <2>3 DEF LocalClientsServed, Local!LocalClientsServed
<1> QED
  BY LocalInit, LocalStep, <1>1, PTL DEF Local!Spec

-----------------------------------------------------------------------------
(* ControlPlane: pings, deadlines and the watchdog.                        *)

\* A handler that keeps the loop makes the deadline late; a deadline that has
\* passed is seen by the watchdog before more free time passes.
LoopFacts ==
    /\ busy => late
    /\ deadline = 0 => watch
    /\ silent > 0 => inbox = {} /\ ~alive /\ link = "up"

\* The time since the silence, and since the last frame, against what is left
\* to the next ping or to the deadline.
Countdown ==
    /\ deadline = -1 =>
           /\ silent + pingIn <= PingEvery
           /\ sinceMsg + pingIn <= PingEvery + held
    /\ deadline >= 0 =>
           /\ silent + deadline <= PingEvery + PongWithin
           /\ sinceMsg + deadline <= PingEvery + PongWithin + held

\* While the backend answers and no handler kept the loop, the pong is there or
\* is due before the deadline.
PongInTime ==
    (link = "up" /\ alive /\ ~late /\ deadline >= 0) =>
        /\ deadline > 0
        /\ "pong" \in inbox \/ (owed >= 0 /\ owed + deadline >= PongWithin)

\* The two halves of the type invariant.
FlagTypes ==
    alive \in BOOLEAN /\ watch \in BOOLEAN /\ busy \in BOOLEAN /\ late \in BOOLEAN
CounterTypes ==
    /\ link \in {"down", "up", "stopped"} /\ backoff \in 1..BackoffMax
    /\ silent \in Nat /\ owed \in -1..PongWithin /\ inbox \subseteq {"pong", "signal"}
    /\ sinceMsg \in 0..(IdleLimit + 1) /\ deadline \in -1..PongWithin
    /\ pingIn \in 0..PingEvery /\ held \in 0..BusyMax

\* The inductive invariant of ControlPlane.
ControlInv == FlagTypes /\ CounterTypes /\ LoopFacts /\ Countdown /\ PongInTime

\* The daemon starts without a connection.
LEMMA ControlInit == Control!Init => ControlInv
<1> SUFFICES ASSUME Control!Init PROVE ControlInv
  OBVIOUS
<1>1. FlagTypes
  BY DEF Control!Init, FlagTypes
<1>2. CounterTypes
  BY ControlAssumption DEF Control!ControlAssumption, Control!Init, CounterTypes
<1>3. LoopFacts /\ Countdown /\ PongInTime
  BY ControlAssumption
     DEF Control!ControlAssumption, Control!Init, LoopFacts, Countdown, PongInTime
<1> QED
  BY <1>1, <1>2, <1>3 DEF ControlInv

\* Every branch of the select loop, and time, keeps the invariant.
LEMMA ControlStep == ControlInv /\ [Control!Next]_(Control!vars) => ControlInv'
<1> SUFFICES ASSUME ControlInv, [Control!Next]_(Control!vars) PROVE ControlInv'
  OBVIOUS
<1> USE ControlAssumption
    DEF Control!ControlAssumption, ControlInv
<1>0. Control!Doubled \in 1..BackoffMax
  BY DEF CounterTypes, Control!Doubled
<1>1. CASE Control!Connect
  <2>1. FlagTypes'
    BY <1>1 DEF Control!Connect, Control!Fresh, FlagTypes
  <2>2. CounterTypes'
    BY <1>1 DEF Control!Connect, Control!Fresh, CounterTypes
  <2>3. LoopFacts'
    BY <1>1 DEF Control!Connect, Control!Fresh, FlagTypes, CounterTypes, LoopFacts
  <2>4. Countdown'
    BY <1>1 DEF Control!Connect, Control!Fresh, CounterTypes, LoopFacts, Countdown
  <2>5. PongInTime'
    BY <1>1 DEF Control!Connect, Control!Fresh, FlagTypes, CounterTypes, LoopFacts, PongInTime
  <2> QED
    BY <2>1, <2>2, <2>3, <2>4, <2>5
<1>2. CASE Control!ConnectFails
  <2>1. FlagTypes'
    BY <1>0, <1>2 DEF Control!ConnectFails, FlagTypes
  <2>2. CounterTypes'
    BY <1>0, <1>2 DEF Control!ConnectFails, CounterTypes
  <2>3. LoopFacts'
    BY <1>0, <1>2 DEF Control!ConnectFails, FlagTypes, CounterTypes, LoopFacts
  <2>4. Countdown'
    BY <1>0, <1>2 DEF Control!ConnectFails, CounterTypes, LoopFacts, Countdown
  <2>5. PongInTime'
    BY <1>0, <1>2 DEF Control!ConnectFails, FlagTypes, CounterTypes, LoopFacts, PongInTime
  <2> QED
    BY <2>1, <2>2, <2>3, <2>4, <2>5
<1>3. ASSUME Control!Leaves PROVE ControlInv'
  <2>1. FlagTypes'
    BY <1>0, <1>3 DEF Control!Leaves, Control!Fresh, FlagTypes
  <2>2. CounterTypes'
    BY <1>0, <1>3 DEF Control!Leaves, Control!Fresh, CounterTypes
  <2>3. LoopFacts'
    BY <1>0, <1>3 DEF Control!Leaves, Control!Fresh, FlagTypes, CounterTypes, LoopFacts
  <2>4. Countdown'
    BY <1>0, <1>3 DEF Control!Leaves, Control!Fresh, CounterTypes, LoopFacts, Countdown
  <2>5. PongInTime'
    BY <1>0, <1>3 DEF Control!Leaves, Control!Fresh, FlagTypes, CounterTypes, LoopFacts, PongInTime
  <2> QED
    BY <2>1, <2>2, <2>3, <2>4, <2>5
<1>4. CASE Control!GoesSilent
  <2>1. FlagTypes'
    BY <1>4 DEF Control!GoesSilent, FlagTypes
  <2>2. CounterTypes'
    BY <1>4 DEF Control!GoesSilent, CounterTypes
  <2>3. LoopFacts'
    BY <1>4 DEF Control!GoesSilent, FlagTypes, CounterTypes, LoopFacts
  <2>4. Countdown'
    BY <1>4 DEF Control!GoesSilent, CounterTypes, LoopFacts, Countdown
  <2>5. PongInTime'
    BY <1>4 DEF Control!GoesSilent, FlagTypes, CounterTypes, LoopFacts, PongInTime
  <2> QED
    BY <2>1, <2>2, <2>3, <2>4, <2>5
<1>5. CASE Control!ComesBack
  <2>1. FlagTypes'
    BY <1>5 DEF Control!ComesBack, FlagTypes
  <2>2. CounterTypes'
    BY <1>5 DEF Control!ComesBack, CounterTypes
  <2>3. LoopFacts'
    BY <1>5 DEF Control!ComesBack, FlagTypes, CounterTypes, LoopFacts
  <2>4. Countdown'
    BY <1>5 DEF Control!ComesBack, CounterTypes, LoopFacts, Countdown
  <2>5. PongInTime'
    BY <1>5 DEF Control!ComesBack, FlagTypes, CounterTypes, LoopFacts, PongInTime
  <2> QED
    BY <2>1, <2>2, <2>3, <2>4, <2>5
<1>6. CASE Control!Answers
  <2>1. FlagTypes'
    BY <1>6 DEF Control!Answers, FlagTypes
  <2>2. CounterTypes'
    BY <1>6 DEF Control!Answers, CounterTypes
  <2>3. LoopFacts'
    BY <1>6 DEF Control!Answers, FlagTypes, CounterTypes, LoopFacts
  <2>4. Countdown'
    BY <1>6 DEF Control!Answers, CounterTypes, LoopFacts, Countdown
  <2>5. PongInTime'
    BY <1>6 DEF Control!Answers, FlagTypes, CounterTypes, LoopFacts, PongInTime
  <2> QED
    BY <2>1, <2>2, <2>3, <2>4, <2>5
<1>7. CASE Control!Signals
  <2>1. FlagTypes'
    BY <1>7 DEF Control!Signals, FlagTypes
  <2>2. CounterTypes'
    BY <1>7 DEF Control!Signals, CounterTypes
  <2>3. LoopFacts'
    BY <1>7 DEF Control!Signals, FlagTypes, CounterTypes, LoopFacts
  <2>4. Countdown'
    BY <1>7 DEF Control!Signals, CounterTypes, LoopFacts, Countdown
  <2>5. PongInTime'
    BY <1>7 DEF Control!Signals, FlagTypes, CounterTypes, LoopFacts, PongInTime
  <2> QED
    BY <2>1, <2>2, <2>3, <2>4, <2>5
<1>8. CASE Control!Ping
  <2>1. FlagTypes'
    BY <1>8 DEF Control!Ping, FlagTypes
  <2>2. CounterTypes'
    BY <1>8 DEF Control!Ping, CounterTypes
  <2>3. LoopFacts'
    BY <1>8 DEF Control!Ping, FlagTypes, CounterTypes, LoopFacts, Control!Free
  <2>4. Countdown'
    BY <1>8 DEF Control!Ping, CounterTypes, LoopFacts, Countdown, Control!Free
  <2>5. PongInTime'
    BY <1>8 DEF Control!Ping, FlagTypes, CounterTypes, LoopFacts, PongInTime, Control!Free
  <2> QED
    BY <2>1, <2>2, <2>3, <2>4, <2>5
<1>9. ASSUME NEW f \in {"pong", "signal"}, Control!Receive(f) PROVE ControlInv'
  <2>1. FlagTypes'
    BY <1>9 DEF Control!Receive, FlagTypes
  <2>2. CounterTypes'
    BY <1>9 DEF Control!Receive, CounterTypes
  <2>3. LoopFacts'
    BY <1>9 DEF Control!Receive, FlagTypes, CounterTypes, LoopFacts, Control!Free
  <2>4. Countdown'
    BY <1>9 DEF Control!Receive, CounterTypes, LoopFacts, Countdown, Control!Free
  <2>5. PongInTime'
    BY <1>9 DEF Control!Receive, FlagTypes, CounterTypes, LoopFacts, PongInTime, Control!Free
  <2> QED
    BY <2>1, <2>2, <2>3, <2>4, <2>5
<1>10. CASE Control!Killed
  <2>1. FlagTypes'
    BY <1>10 DEF Control!Killed, Control!Fresh, FlagTypes
  <2>2. CounterTypes'
    BY <1>10 DEF Control!Killed, Control!Fresh, CounterTypes
  <2>3. LoopFacts'
    BY <1>10 DEF Control!Killed, Control!Fresh, FlagTypes, CounterTypes, LoopFacts, Control!Free
  <2>4. Countdown'
    BY <1>10 DEF Control!Killed, Control!Fresh, CounterTypes, LoopFacts, Countdown, Control!Free
  <2>5. PongInTime'
    BY <1>10 DEF Control!Killed, Control!Fresh, FlagTypes, CounterTypes, LoopFacts, PongInTime, Control!Free
  <2> QED
    BY <2>1, <2>2, <2>3, <2>4, <2>5
<1>11. CASE Control!WatchdogQuiet
  <2>1. FlagTypes'
    BY <1>11 DEF Control!WatchdogQuiet, FlagTypes
  <2>2. CounterTypes'
    BY <1>11 DEF Control!WatchdogQuiet, CounterTypes
  <2>3. LoopFacts'
    BY <1>11 DEF Control!WatchdogQuiet, FlagTypes, CounterTypes, LoopFacts, Control!Free
  <2>4. Countdown'
    BY <1>11 DEF Control!WatchdogQuiet, CounterTypes, LoopFacts, Countdown, Control!Free
  <2>5. PongInTime'
    BY <1>11 DEF Control!WatchdogQuiet, FlagTypes, CounterTypes, LoopFacts, PongInTime, Control!Free
  <2> QED
    BY <2>1, <2>2, <2>3, <2>4, <2>5
<1>12. CASE Control!HandlerBlocks
  <2>1. FlagTypes'
    BY <1>12 DEF Control!HandlerBlocks, FlagTypes
  <2>2. CounterTypes'
    BY <1>12 DEF Control!HandlerBlocks, CounterTypes
  <2>3. LoopFacts'
    BY <1>12 DEF Control!HandlerBlocks, FlagTypes, CounterTypes, LoopFacts, Control!Free
  <2>4. Countdown'
    BY <1>12 DEF Control!HandlerBlocks, CounterTypes, LoopFacts, Countdown, Control!Free
  <2>5. PongInTime'
    BY <1>12 DEF Control!HandlerBlocks, FlagTypes, CounterTypes, LoopFacts, PongInTime, Control!Free
  <2> QED
    BY <2>1, <2>2, <2>3, <2>4, <2>5
<1>13. CASE Control!HandlerReturns
  <2>1. FlagTypes'
    BY <1>13 DEF Control!HandlerReturns, FlagTypes
  <2>2. CounterTypes'
    BY <1>13 DEF Control!HandlerReturns, CounterTypes
  <2>3. LoopFacts'
    BY <1>13 DEF Control!HandlerReturns, FlagTypes, CounterTypes, LoopFacts
  <2>4. Countdown'
    BY <1>13 DEF Control!HandlerReturns, CounterTypes, LoopFacts, Countdown
  <2>5. PongInTime'
    BY <1>13 DEF Control!HandlerReturns, FlagTypes, CounterTypes, LoopFacts, PongInTime
  <2> QED
    BY <2>1, <2>2, <2>3, <2>4, <2>5
<1>14. CASE Control!Tick
  <2>1. FlagTypes'
    BY <1>14 DEF Control!Tick, Control!Down, FlagTypes
  <2>2. CounterTypes'
    BY <1>14 DEF Control!Tick, Control!Down, CounterTypes
  <2>3. LoopFacts'
    BY <1>14 DEF Control!Tick, Control!Down, FlagTypes, CounterTypes, LoopFacts
  <2>4. Countdown'
    BY <1>14 DEF Control!Tick, Control!Down, CounterTypes, LoopFacts, Countdown
  <2>5. PongInTime'
    BY <1>14 DEF Control!Tick, Control!Down, FlagTypes, CounterTypes, LoopFacts, PongInTime
  <2> QED
    BY <2>1, <2>2, <2>3, <2>4, <2>5
<1>15. CASE UNCHANGED Control!vars
  <2>1. FlagTypes'
    BY <1>15 DEF Control!vars, FlagTypes
  <2>2. CounterTypes'
    BY <1>15 DEF Control!vars, CounterTypes
  <2>3. LoopFacts'
    BY <1>15 DEF Control!vars, FlagTypes, CounterTypes, LoopFacts
  <2>4. Countdown'
    BY <1>15 DEF Control!vars, CounterTypes, LoopFacts, Countdown
  <2>5. PongInTime'
    BY <1>15 DEF Control!vars, FlagTypes, CounterTypes, LoopFacts, PongInTime
  <2> QED
    BY <2>1, <2>2, <2>3, <2>4, <2>5
<1> QED
  BY <1>1, <1>2, <1>3, <1>4, <1>5, <1>6, <1>7, <1>8, <1>9, <1>10, <1>11, <1>12, <1>13, <1>14, <1>15
     DEF Control!Next, Control!SocketFails, Control!WatchdogBites, Control!Stalled

\* A dead connection is given up in time and a living one is not, for every
\* ping period, deadline and idle limit, however long handlers keep the loop
\* (transport.rs, daemon.rs 3380-3440).
THEOREM ControlWatchdog == Control!Spec => []WatchdogSound
<1>1. ControlInv => WatchdogSound
  BY ControlAssumption
     DEF Control!ControlAssumption, ControlInv, FlagTypes, CounterTypes, LoopFacts,
         Countdown, PongInTime, WatchdogSound, Control!TypeOK, Control!WatchdogSound
<1> QED
  BY ControlInit, ControlStep, <1>1, PTL DEF Control!Spec

-----------------------------------------------------------------------------
(* HttpForward: how many requests run, and what the device gets of each.   *)

HttpFrames == {"head", "body", "end", "error", "cancelled", "refused"}
Final == {"end", "error"}

\* What the session and the tasks of HttpForward keep.
HttpType ==
    /\ requests \in [Requests -> [size : Nat, aborted : BOOLEAN, live : BOOLEAN]]
    /\ in_flight \subseteq Requests
    /\ pump \in [Requests -> Http!Pumps]
    /\ bodyReader \in [Requests -> {"none", "reading", "ended"}]
    /\ signal \in [Requests -> BOOLEAN] /\ streaming \in [Requests -> BOOLEAN]
    /\ produced \in [Requests -> Nat]
    /\ chunksRead \in [Requests -> Seq({"body", "end", "error"})]
    /\ answered \in [Requests -> Seq(HttpFrames)]
    /\ httpOpen \in BOOLEAN

\* The session counts the tasks that nobody has told to stop, and no more than
\* the cap of them.
LoadInv ==
    /\ Cardinality(in_flight) <= RequestCap
    /\ \A i \in Requests : (Http!Listening(i) /\ ~signal[i]) => i \in in_flight

\* A request is assembled before it has a task, and refused only then.
Assembled(i) ==
    requests[i].live =>
        /\ pump[i] = "none"
        /\ ~requests[i].aborted => answered[i] = <<>>

\* Before the head is sent the response has nothing on its way; and before there
\* is a head there is no reader.
Begins(i) ==
    /\ pump[i] \notin {"body", "done"} => Http!Own(i) = {}
    /\ pump[i] \notin {"ok", "body", "done"} =>
           bodyReader[i] = "none" /\ chunksRead[i] = <<>> /\ produced[i] = 0
    /\ pump[i] \in {"ok", "body"} => bodyReader[i] # "none"
    /\ pump[i] = "body" => Http!Own(i) # {}

FinalRead(i) == IF bodyReader[i] = "ended" THEN 1 ELSE 0

\* Every chunk that was read is sent or waits for the pump, and after the last
\* frame that the reader hands over there is no other.
Accounted(i) ==
    /\ pump[i] = "ok" => Len(chunksRead[i]) = produced[i] + FinalRead(i)
    /\ pump[i] = "body" =>
           Cardinality(Http!Own(i)) + Len(chunksRead[i]) = 1 + produced[i] + FinalRead(i)
    /\ \A k \in DOMAIN chunksRead[i] :
           chunksRead[i][k] \in Final => k = Len(chunksRead[i]) /\ bodyReader[i] = "ended"
    /\ \A k \in Http!Own(i) :
           /\ (answered[i][k] \in Final /\ pump[i] = "body") =>
                  chunksRead[i] = <<>> /\ bodyReader[i] = "ended"
           /\ answered[i][k] = "end" => bodyReader[i] = "ended"

\* HttpForward!ResponseWhole of one request.
Whole(i) ==
    \A k \in Http!Own(i) :
        /\ answered[i][k] \in Final => \A l \in Http!Own(i) : l <= k
        /\ answered[i][k] = "head" <=>
               (answered[i][k] # "error" /\ \A l \in Http!Own(i) : k <= l)
        /\ answered[i][k] = "end" => Cardinality(Http!Own(i)) = produced[i] + 2

\* The inductive invariant of one request.
RequestInv(i) == Assembled(i) /\ Begins(i) /\ Accounted(i) /\ Whole(i)

\* The inductive invariant of HttpForward.
HttpInv == HttpType /\ LoadInv /\ \A i \in Requests : RequestInv(i)

\* What the invariant of a request is about.
requestState(i) ==
    <<requests[i], pump[i], bodyReader[i], produced[i], chunksRead[i], answered[i]>>

\* A request that a step leaves alone keeps its invariant.
LEMMA RequestKept ==
  ASSUME NEW i \in Requests, RequestInv(i), requestState(i)' = requestState(i)
  PROVE  RequestInv(i)'
<1>1. Http!Own(i)' = Http!Own(i)
  BY DEF Http!Own, requestState
<1> QED
  BY <1>1 DEF RequestInv, Assembled, Begins, Accounted, Whole, FinalRead, requestState

\* The sizes of sets that HttpForward takes are those of FiniteSets.
LEMMA HttpSizes ==
  ASSUME NEW S
  PROVE  Http!IsFiniteSet(S) = IsFiniteSet(S) /\ Http!Cardinality(S) = Cardinality(S)
BY DEF Http!IsFiniteSet, IsFiniteSet, Http!Cardinality, Cardinality

\* The frames of the response among those that went to the device are finitely
\* many, each at a place of its own.
LEMMA OwnFacts ==
  ASSUME HttpType, NEW i \in Requests
  PROVE  /\ Http!Own(i) \subseteq 1 .. Len(answered[i])
         /\ IsFiniteSet(Http!Own(i))
         /\ Cardinality(Http!Own(i)) \in Nat
<1>1. answered[i] \in Seq(HttpFrames)
  BY DEF HttpType
<1>2. Http!Own(i) \subseteq 1 .. Len(answered[i])
  BY <1>1 DEF Http!Own
<1>3. IsFiniteSet(1 .. Len(answered[i]))
  BY <1>1, FS_Interval
<1>4. IsFiniteSet(Http!Own(i))
  BY <1>2, <1>3, FS_Subset
<1> QED
  BY <1>2, <1>4, FS_CardinalityType

\* A frame that is sent back comes after all others.
LEMMA SentBack ==
  ASSUME HttpType, NEW i \in Requests, NEW f \in HttpFrames, Http!SendsBack(i, f)
  PROVE  /\ answered' \in [Requests -> Seq(HttpFrames)]
         /\ answered[i]' # <<>>
         /\ \A j \in Requests : j # i => answered[j]' = answered[j]
         /\ \A k \in Http!Own(i) : k < Len(answered[i]) + 1 /\ answered[i]'[k] = answered[i][k]
         /\ answered[i]'[Len(answered[i]) + 1] = f
         /\ f \in {"cancelled", "refused"} => Http!Own(i)' = Http!Own(i)
         /\ f \notin {"cancelled", "refused"} =>
                /\ Http!Own(i)' = Http!Own(i) \cup {Len(answered[i]) + 1}
                /\ Cardinality(Http!Own(i)') = Cardinality(Http!Own(i)) + 1
<1> DEFINE n == Len(answered[i]) + 1
<1>1. answered[i] \in Seq(HttpFrames)
  BY DEF HttpType
<1>2. answered' = [answered EXCEPT ![i] = Append(@, f)]
  BY DEF Http!SendsBack
<1>3. answered[i]' = Append(answered[i], f)
  BY <1>2 DEF HttpType
<1>4. DOMAIN answered[i]' = 1 .. n /\ DOMAIN answered[i] = 1 .. (n - 1) /\ n \in Nat
  BY <1>1, <1>3
<1>5. answered[i]'[n] = f /\ \A k \in 1 .. (n - 1) : answered[i]'[k] = answered[i][k]
  BY <1>1, <1>3
<1>6. Http!Own(i) \subseteq 1 .. (n - 1) /\ IsFiniteSet(Http!Own(i))
  BY OwnFacts
<1>7. f \in {"cancelled", "refused"} => Http!Own(i)' = Http!Own(i)
  BY <1>4, <1>5 DEF Http!Own
<1>8. f \notin {"cancelled", "refused"} => Http!Own(i)' = Http!Own(i) \cup {n}
  BY <1>4, <1>5 DEF Http!Own
<1>9. n \notin Http!Own(i)
  BY <1>4, <1>6
<1>10. f \notin {"cancelled", "refused"} =>
         Cardinality(Http!Own(i)') = Cardinality(Http!Own(i)) + 1
  BY <1>6, <1>8, <1>9, FS_AddElement
<1>11. answered' \in [Requests -> Seq(HttpFrames)]
  BY <1>1, <1>2 DEF HttpType
<1>15. answered[i]' # <<>>
  BY <1>1, <1>3
<1> HIDE DEF n
<1>14. n = Len(answered[i]) + 1
  BY DEF n
<1>12. \A k \in Http!Own(i) : k < n /\ answered[i]'[k] = answered[i][k]
  BY <1>4, <1>5, <1>6
<1>13. \A j \in Requests : j # i => answered[j]' = answered[j]
  BY <1>2 DEF HttpType
<1> QED
  BY <1>15, <1>5, <1>7, <1>8, <1>10, <1>11, <1>12, <1>13, <1>14, Zenon

\* The steps of the select loop on request i, of its task and of its reader.
LoopStep(i) ==
    \/ Http!ReqHead(i) \/ Http!ReqHeadMalformed(i) \/ Http!ReqBody(i)
    \/ Http!ReqEndAborted(i) \/ Http!ReqEndShed(i) \/ Http!ReqEnd(i)
    \/ Http!ReqCancelPending(i) \/ Http!ReqCancel(i)
TaskStep(i) == Http!Pump(i) \/ Http!FetchSucceeds(i)
ReaderStep(i) == Http!ReaderChunk(i) \/ Http!ReaderDone(i) \/ Http!ReaderGivesUp(i)

\* A step of HttpForward is one of these, or the channel closes.
LEMMA HttpNext ==
  Http!Next <=>
    \/ Http!Shutdown
    \/ \E i \in Requests : LoopStep(i) \/ TaskStep(i) \/ ReaderStep(i)
BY DEF Http!Next, LoopStep, TaskStep, ReaderStep

\* What a frame is handed over as.
LEMMA QueuedFacts ==
  ASSUME HttpType, NEW i \in Requests, NEW f \in {"body", "end", "error"}, Http!Queued(i, f)
  PROVE  /\ chunksRead' \in [Requests -> Seq({"body", "end", "error"})]
         /\ \A j \in Requests : j # i => chunksRead[j]' = chunksRead[j]
         /\ pump[i] = "done" => chunksRead[i]' = chunksRead[i]
         /\ pump[i] # "done" => chunksRead[i]' = Append(chunksRead[i], f)
BY DEF HttpType, Http!Queued

\* The steps keep the types.
LEMMA HttpTypeStep == HttpType /\ [Http!Next]_(Http!vars) => HttpType'
<1> SUFFICES ASSUME HttpType, [Http!Next]_(Http!vars) PROVE HttpType'
  OBVIOUS
<1>1. CASE Http!Shutdown
  BY <1>1 DEF Http!Shutdown, HttpType, Http!None, Http!tasks
<1>2. CASE UNCHANGED Http!vars
  BY <1>2 DEF HttpType, Http!vars, Http!requests, Http!tasks
<1>3. ASSUME NEW i \in Requests, LoopStep(i) PROVE HttpType'
  <2>1. CASE Http!ReqHead(i)
    BY <2>1 DEF Http!ReqHead, HttpType, Http!Reaped, Http!tasks
  <2>2. CASE Http!ReqHeadMalformed(i)
    BY <2>2, SentBack DEF Http!ReqHeadMalformed, HttpType, Http!Reaped, Http!tasks, HttpFrames
  <2>3. CASE Http!ReqBody(i)
    <3>1. answered' \in [Requests -> Seq(HttpFrames)]
      BY <2>3, SentBack DEF Http!ReqBody, HttpType, HttpFrames
    <3>2. requests' \in [Requests -> [size : Nat, aborted : BOOLEAN, live : BOOLEAN]]
      <4>1. requests[i] \in [size : Nat, aborted : BOOLEAN, live : BOOLEAN]
        BY DEF HttpType
      <4>2. requests[i].size + 1 \in Nat
        BY <4>1
      <4>3. \/ requests' = [requests EXCEPT ![i].aborted = TRUE]
            \/ requests' = [requests EXCEPT ![i].size = @ + 1]
        BY <2>3 DEF Http!ReqBody
      <4>4. CASE requests' = [requests EXCEPT ![i].aborted = TRUE]
        BY <4>1, <4>4 DEF HttpType
      <4>5. CASE requests' = [requests EXCEPT ![i].size = @ + 1]
        BY <4>1, <4>2, <4>5 DEF HttpType
      <4> QED
        BY <4>3, <4>4, <4>5
    <3> QED
      BY <2>3, <3>1, <3>2 DEF Http!ReqBody, HttpType, Http!Reaped, Http!tasks
  <2>4. CASE Http!ReqEndAborted(i)
    BY <2>4 DEF Http!ReqEndAborted, HttpType, Http!Reaped, Http!tasks, Http!None
  <2>5. CASE Http!ReqEndShed(i)
    BY <2>5, SentBack DEF Http!ReqEndShed, HttpType, Http!Reaped, Http!tasks, Http!None, HttpFrames
  <2>6. CASE Http!ReqEnd(i)
    BY <2>6 DEF Http!ReqEnd, HttpType, Http!Reaped, Http!None, Http!Pumps
  <2>7. CASE Http!ReqCancelPending(i)
    BY <2>7 DEF Http!ReqCancelPending, HttpType, Http!Reaped, Http!tasks, Http!None
  <2>8. CASE Http!ReqCancel(i)
    BY <2>8, SentBack DEF Http!ReqCancel, HttpType, Http!Reaped, Http!tasks, HttpFrames
  <2> QED
    BY <1>3, <2>1, <2>2, <2>3, <2>4, <2>5, <2>6, <2>7, <2>8 DEF LoopStep
<1>4. ASSUME NEW i \in Requests, TaskStep(i) PROVE HttpType'
  <2>1. CASE Http!Gate(i) \/ Http!FetchEnds(i) \/ Http!PumpDone(i)
    BY <2>1 DEF Http!Gate, Http!FetchEnds, Http!PumpDone, Http!Outcome, Http!Logged, HttpType,
                Http!requests, Http!Pumps
  <2>2. CASE Http!FetchSucceeds(i)
    <3>1. pump' \in [Requests -> Http!Pumps]
      BY <2>2 DEF Http!FetchSucceeds, Http!Logged, Http!Outcome, HttpType, Http!Pumps
    <3> QED
      BY <2>2, <3>1 DEF Http!FetchSucceeds, HttpType, Http!requests
  <2>3. CASE Http!PumpHead(i)
    <3>1. answered' \in [Requests -> Seq(HttpFrames)]
      BY <2>3, SentBack DEF Http!PumpHead, HttpType, HttpFrames
    <3> QED
      BY <2>3, <3>1 DEF Http!PumpHead, HttpType, Http!Outcome, Http!requests, Http!Pumps
  <2>4. CASE Http!PumpBody(i)
    <3>1. chunksRead[i] # <<>> /\ chunksRead[i] \in Seq({"body", "end", "error"})
      BY <2>4 DEF Http!PumpBody, HttpType
    <3>2. Head(chunksRead[i]) \in {"body", "end", "error"}
          /\ Tail(chunksRead[i]) \in Seq({"body", "end", "error"})
      BY <3>1
    <3>3. answered' \in [Requests -> Seq(HttpFrames)]
      BY <2>4, <3>2, SentBack DEF Http!PumpBody, HttpType, HttpFrames
    <3>4. chunksRead' \in [Requests -> Seq({"body", "end", "error"})]
      <4>1. \/ chunksRead' = [chunksRead EXCEPT ![i] = Tail(@)]
            \/ chunksRead' = [chunksRead EXCEPT ![i] = <<>>]
        BY <2>4 DEF Http!PumpBody
      <4>2. CASE chunksRead' = [chunksRead EXCEPT ![i] = Tail(@)]
        BY <4>2, <3>2 DEF HttpType
      <4>3. CASE chunksRead' = [chunksRead EXCEPT ![i] = <<>>]
        BY <4>3 DEF HttpType
      <4> QED
        BY <4>1, <4>2, <4>3
    <3> QED
      BY <2>4, <3>3, <3>4 DEF Http!PumpBody, HttpType, Http!Outcome, Http!requests, Http!Pumps
  <2> QED
    BY <1>4, <2>1, <2>2, <2>3, <2>4 DEF TaskStep, Http!Pump
<1>5. ASSUME NEW i \in Requests, ReaderStep(i) PROVE HttpType'
  <2>1. CASE Http!ReaderChunk(i)
    <3>1. chunksRead' \in [Requests -> Seq({"body", "end", "error"})]
      BY <2>1, QueuedFacts DEF Http!ReaderChunk
    <3>2. produced' \in [Requests -> Nat]
      <4>1. produced' = produced \/ produced' = [produced EXCEPT ![i] = @ + 1]
        BY <2>1 DEF Http!ReaderChunk
      <4>2. produced[i] + 1 \in Nat
        BY DEF HttpType
      <4>3. CASE produced' = [produced EXCEPT ![i] = @ + 1]
        BY <4>2, <4>3 DEF HttpType
      <4> QED
        BY <4>1, <4>3 DEF HttpType
    <3>3. bodyReader' \in [Requests -> {"none", "reading", "ended"}]
      BY <2>1 DEF Http!ReaderChunk, HttpType
    <3> QED
      BY <2>1, <3>1, <3>2, <3>3 DEF Http!ReaderChunk, HttpType, Http!requests
  <2>2. ASSUME NEW f \in {"body", "end", "error"}, Http!ReaderEnds(i, f) PROVE HttpType'
    <3>1. chunksRead' \in [Requests -> Seq({"body", "end", "error"})]
      BY <2>2, QueuedFacts DEF Http!ReaderEnds
    <3> QED
      BY <2>2, <3>1 DEF Http!ReaderEnds, HttpType, Http!requests
  <2> QED
    BY <1>5, <2>1, <2>2 DEF ReaderStep, Http!ReaderDone, Http!ReaderGivesUp
<1> QED
  BY <1>1, <1>2, <1>3, <1>4, <1>5, HttpNext

\* However requests are promoted, cancelled and finished, those that nobody has
\* told to stop are counted.
LEMMA LoadStep == HttpType /\ LoadInv /\ [Http!Next]_(Http!vars) => LoadInv'
<1> SUFFICES ASSUME HttpType, LoadInv, [Http!Next]_(Http!vars) PROVE LoadInv'
  OBVIOUS
<1> USE HttpAssumption DEF Http!HttpAssumption
<1>0. IsFiniteSet(in_flight)
  <2>1. IsFiniteSet(Requests)
    BY HttpSizes
  <2> QED
    BY <2>1, FS_Subset DEF HttpType
<1>r. /\ Http!Reaped \subseteq in_flight /\ IsFiniteSet(Http!Reaped)
      /\ Cardinality(Http!Reaped) <= Cardinality(in_flight)
      /\ Cardinality(Http!Reaped) \in Nat /\ Cardinality(in_flight) \in Nat
  <2>1. Http!Reaped \subseteq in_flight
    BY DEF Http!Reaped
  <2> QED
    BY <1>0, <2>1, FS_Subset, FS_CardinalityType
<1>l. Cardinality(in_flight) <= RequestCap
  BY DEF LoadInv
<1>1. CASE Http!Shutdown
  <2>1. Cardinality(in_flight') <= RequestCap
    BY <1>1, FS_EmptySet DEF Http!Shutdown
  <2>2. \A i \in Requests : (Http!Listening(i) /\ ~signal[i])' => i \in in_flight'
    BY <1>1 DEF Http!Shutdown, LoadInv, Http!Listening, HttpType, Http!tasks
  <2> QED
    BY <2>1, <2>2 DEF LoadInv
<1>2. CASE UNCHANGED Http!vars
  BY <1>2 DEF LoadInv, Http!Listening, Http!vars, Http!requests, Http!tasks
<1>3. ASSUME NEW i \in Requests, LoopStep(i) PROVE LoadInv'
  <2>1. CASE Http!ReqEnd(i)
    <3>1. in_flight' = Http!Reaped \cup {i} /\ Cardinality(Http!Reaped) < RequestCap
      BY <2>1, HttpSizes DEF Http!ReqEnd
    <3>2. Cardinality(in_flight') <= Cardinality(Http!Reaped) + 1
      BY <3>1, <1>r, FS_AddElement
    <3>3. Cardinality(in_flight') \in Nat
      <4>1. IsFiniteSet(in_flight')
        BY <3>1, <1>r, FS_AddElement
      <4> QED
        BY <4>1, FS_CardinalityType
    <3>4. \A j \in Requests : (Http!Listening(j) /\ ~signal[j])' => j \in in_flight'
      BY <2>1, <3>1 DEF Http!ReqEnd, LoadInv, Http!Listening, Http!Reaped, HttpType
    <3> QED
      BY <3>1, <3>2, <3>3, <3>4, <1>r DEF LoadInv
  <2>2. CASE Http!ReqCancel(i)
    <3>1. Cardinality(in_flight') <= Cardinality(in_flight) /\ Cardinality(in_flight') \in Nat
      <4>1. in_flight' \subseteq in_flight
        BY <2>2, <1>r DEF Http!ReqCancel
      <4> QED
        BY <4>1, <1>0, FS_Subset, FS_CardinalityType
    <3>2. \A j \in Requests : (Http!Listening(j) /\ ~signal[j])' => j \in in_flight'
      BY <2>2 DEF Http!ReqCancel, LoadInv, Http!Listening, Http!Reaped, HttpType, Http!tasks
    <3> QED
      BY <3>1, <3>2, <1>l, <1>r DEF LoadInv
  <2>3. CASE in_flight' = Http!Reaped /\ pump' = pump /\ bodyReader' = bodyReader /\ signal' = signal
    <3>1. \A j \in Requests : (Http!Listening(j) /\ ~signal[j])' => j \in in_flight'
      BY <2>3 DEF LoadInv, Http!Listening, Http!Reaped
    <3> QED
      BY <2>3, <3>1, <1>l, <1>r DEF LoadInv
  <2> QED
    BY <1>3, <2>1, <2>2, <2>3
       DEF LoopStep, Http!ReqHead, Http!ReqHeadMalformed, Http!ReqBody, Http!ReqEndAborted,
           Http!ReqEndShed, Http!ReqCancelPending, Http!tasks
<1>4. ASSUME NEW i \in Requests, TaskStep(i) PROVE LoadInv'
  <2>1. in_flight' = in_flight /\ signal' = signal
    BY <1>4 DEF TaskStep, Http!Pump, Http!Gate, Http!FetchEnds, Http!PumpDone, Http!PumpHead,
                Http!PumpBody, Http!FetchSucceeds, Http!requests
  <2>2. \A j \in Requests : Http!Listening(j)' => Http!Listening(j)
    BY <1>4 DEF TaskStep, Http!Pump, Http!Gate, Http!FetchEnds, Http!PumpDone, Http!PumpHead,
                Http!PumpBody, Http!FetchSucceeds, Http!Outcome, Http!Logged, Http!Listening, HttpType
  <2> QED
    BY <2>1, <2>2 DEF LoadInv
<1>5. ASSUME NEW i \in Requests, ReaderStep(i) PROVE LoadInv'
  BY <1>5 DEF ReaderStep, Http!ReaderChunk, Http!ReaderDone, Http!ReaderGivesUp, Http!ReaderEnds,
              Http!requests, LoadInv, Http!Listening, HttpType
<1> QED
  BY <1>1, <1>2, <1>3, <1>4, <1>5, HttpNext

\* What the device got and what is on its way stay as they are, but for frames
\* that are not of the response.
LEMMA ResponseKept ==
  ASSUME NEW i \in Requests, Begins(i), Accounted(i), Whole(i),
         <<pump[i], bodyReader[i], produced[i], chunksRead[i]>>' =
             <<pump[i], bodyReader[i], produced[i], chunksRead[i]>>,
         Http!Own(i)' = Http!Own(i),
         \A k \in Http!Own(i) : answered[i]'[k] = answered[i][k]
  PROVE  Begins(i)' /\ Accounted(i)' /\ Whole(i)'
<1> USE DEF FinalRead
<1>1. Begins(i)'
  BY DEF Begins
<1>2. Accounted(i)'
  BY DEF Accounted
<1>3. Whole(i)'
  BY DEF Whole
<1> QED
  BY <1>1, <1>2, <1>3

\* The select loop takes a frame of the request, or forgets it.
LEMMA LoopKeeps ==
  ASSUME HttpInv, NEW i \in Requests, LoopStep(i)
  PROVE  RequestInv(i)'
<1>0. HttpType /\ Assembled(i) /\ Begins(i) /\ Accounted(i) /\ Whole(i)
  BY DEF HttpInv, RequestInv
<1>1. ASSUME pump'[i] = pump[i], bodyReader' = bodyReader, produced' = produced,
             chunksRead' = chunksRead,
             \/ answered' = answered
             \/ \E f \in {"cancelled", "refused"} : Http!SendsBack(i, f)
      PROVE  Begins(i)' /\ Accounted(i)' /\ Whole(i)'
  <2>1. CASE answered' = answered
    <3>1. Http!Own(i)' = Http!Own(i)
      BY <2>1 DEF Http!Own
    <3> QED
      BY <1>0, <1>1, <2>1, <3>1, ResponseKept
  <2>2. ASSUME NEW f \in {"cancelled", "refused"}, Http!SendsBack(i, f)
        PROVE  Begins(i)' /\ Accounted(i)' /\ Whole(i)'
    <3>1. f \in HttpFrames
      BY DEF HttpFrames
    <3>2. Http!Own(i)' = Http!Own(i) /\ \A k \in Http!Own(i) : answered[i]'[k] = answered[i][k]
      BY <1>0, <2>2, <3>1, SentBack
    <3> QED
      BY <1>0, <1>1, <3>2, ResponseKept
  <2> QED
    BY <1>1, <2>1, <2>2
<1>2. CASE Http!ReqHead(i)
  <2>1. Assembled(i)'
    BY <1>0, <1>2 DEF Http!ReqHead, Assembled, HttpType, Http!tasks
  <2> QED
    BY <1>1, <1>2, <2>1 DEF Http!ReqHead, Http!tasks, RequestInv
<1>3. CASE Http!ReqHeadMalformed(i)
  <2>1. Assembled(i)'
    BY <1>0, <1>3 DEF Http!ReqHeadMalformed, Assembled
  <2> QED
    BY <1>1, <1>3, <2>1 DEF Http!ReqHeadMalformed, Http!tasks, RequestInv
<1>4. CASE Http!ReqBody(i)
  <2>1. Assembled(i)'
    <3>1. requests[i].live /\ pump[i] = "none" /\ answered[i] = <<>> /\ pump' = pump
      BY <1>0, <1>4 DEF Http!ReqBody, Assembled, Http!tasks
    <3>2. CASE requests' = [requests EXCEPT ![i].aborted = TRUE]
      BY <3>1, <3>2, <1>0 DEF Assembled, HttpType
    <3>3. CASE answered' = answered
      BY <3>1, <3>3, <1>0 DEF Assembled, HttpType
    <3> QED
      BY <1>4, <3>2, <3>3 DEF Http!ReqBody
  <2> QED
    BY <1>1, <1>4, <2>1 DEF Http!ReqBody, Http!tasks, RequestInv
<1>5. CASE Http!ReqEndAborted(i)
  <2>1. Assembled(i)'
    BY <1>0, <1>5 DEF Http!ReqEndAborted, Assembled, HttpType, Http!None
  <2> QED
    BY <1>1, <1>5, <2>1 DEF Http!ReqEndAborted, Http!tasks, RequestInv
<1>6. CASE Http!ReqEndShed(i)
  <2>1. Assembled(i)'
    BY <1>0, <1>6 DEF Http!ReqEndShed, Assembled, HttpType, Http!None
  <2> QED
    BY <1>1, <1>6, <2>1 DEF Http!ReqEndShed, Http!tasks, RequestInv
<1>7. CASE Http!ReqEnd(i)
  <2>0. pump[i] = "none" /\ pump'[i] = "gate" /\ answered' = answered
    BY <1>0, <1>7 DEF Http!ReqEnd, Assembled, HttpType
  <2>1. Http!Own(i)' = Http!Own(i)
    BY <2>0 DEF Http!Own
  <2>2. Http!Own(i) = {}
    BY <1>0, <2>0 DEF Begins
  <2>3. Assembled(i)'
    BY <1>0, <1>7 DEF Http!ReqEnd, Assembled, HttpType, Http!None
  <2>4. Begins(i)'
    BY <1>0, <1>7, <2>0, <2>1, <2>2 DEF Http!ReqEnd, Begins
  <2>5. Accounted(i)'
    BY <1>0, <1>7, <2>0, <2>1, <2>2 DEF Http!ReqEnd, Accounted
  <2>6. Whole(i)'
    BY <2>1, <2>2 DEF Whole
  <2> QED
    BY <2>3, <2>4, <2>5, <2>6 DEF RequestInv
<1>8. CASE Http!ReqCancelPending(i)
  <2>1. Assembled(i)'
    BY <1>0, <1>8 DEF Http!ReqCancelPending, Assembled, HttpType, Http!None
  <2> QED
    BY <1>1, <1>8, <2>1 DEF Http!ReqCancelPending, Http!tasks, RequestInv
<1>9. CASE Http!ReqCancel(i)
  <2>1. Assembled(i)'
    BY <1>0, <1>9 DEF Http!ReqCancel, Assembled
  <2> QED
    BY <1>1, <1>9, <2>1 DEF Http!ReqCancel, Http!tasks, RequestInv
<1> QED
  BY <1>2, <1>3, <1>4, <1>5, <1>6, <1>7, <1>8, <1>9 DEF LoopStep

\* The task of the request goes on.
LEMMA TaskKeeps ==
  ASSUME HttpInv, NEW i \in Requests, TaskStep(i)
  PROVE  RequestInv(i)'
<1>0. HttpType /\ Assembled(i) /\ Begins(i) /\ Accounted(i) /\ Whole(i)
  BY DEF HttpInv, RequestInv
<1>f. /\ IsFiniteSet(Http!Own(i)) /\ Cardinality(Http!Own(i)) \in Nat
      /\ Http!Own(i) \subseteq 1 .. Len(answered[i])
      /\ answered[i] \in Seq(HttpFrames) /\ chunksRead[i] \in Seq({"body", "end", "error"})
      /\ produced[i] \in Nat
  BY <1>0, OwnFacts DEF HttpType
<1>u. Http!Own(i)' = Http!Own(i) \/ answered' # answered
  BY DEF Http!Own
<1>1. requests' = requests
  BY DEF TaskStep, Http!Pump, Http!Gate, Http!FetchEnds, Http!PumpDone, Http!PumpHead,
         Http!PumpBody, Http!FetchSucceeds, Http!requests
<1>2. ASSUME pump[i] # "none" PROVE Assembled(i)'
  BY <1>0, <1>1, <1>2 DEF Assembled
<1>3. CASE Http!Gate(i) \/ Http!FetchEnds(i)
  <2>1. /\ pump[i] \in {"gate", "fetch"} /\ pump'[i] \in {"fetch", "denied", "error", "panicked"}
        /\ answered' = answered /\ bodyReader' = bodyReader /\ produced' = produced
        /\ chunksRead' = chunksRead
    BY <1>0, <1>3 DEF Http!Gate, Http!FetchEnds, Http!Outcome, Http!Logged, HttpType
  <2>2. Http!Own(i)' = Http!Own(i) /\ Http!Own(i) = {}
    BY <1>0, <1>u, <2>1 DEF Begins
  <2>3. Begins(i)' /\ Accounted(i)' /\ Whole(i)'
    BY <1>0, <2>1, <2>2 DEF Begins, Accounted, Whole
  <2> QED
    BY <1>2, <2>1, <2>3 DEF RequestInv
<1>4. CASE Http!PumpDone(i)
  <2>1. /\ pump[i] = "body" /\ pump'[i] = "done" /\ chunksRead[i] = <<>>
        /\ answered' = answered /\ bodyReader' = bodyReader /\ produced' = produced
        /\ chunksRead' = chunksRead
    BY <1>0, <1>4 DEF Http!PumpDone, Http!Outcome, HttpType
  <2>2. Http!Own(i)' = Http!Own(i)
    BY <1>u, <2>1
  <2>3. Begins(i)' /\ Accounted(i)' /\ Whole(i)'
    BY <1>0, <2>1, <2>2 DEF Begins, Accounted, Whole
  <2> QED
    BY <1>2, <2>1, <2>3 DEF RequestInv
<1>5. CASE Http!FetchSucceeds(i)
  <2>1. /\ pump[i] = "fetch" /\ answered' = answered /\ produced' = produced
        /\ chunksRead' = chunksRead
        /\ \/ pump'[i] = "ok" /\ bodyReader'[i] = "reading"
           \/ pump'[i] = "panicked" /\ bodyReader' = bodyReader
    BY <1>0, <1>5 DEF Http!FetchSucceeds, Http!Outcome, Http!Logged, HttpType
  <2>2. Http!Own(i)' = Http!Own(i) /\ Http!Own(i) = {}
    BY <1>0, <1>u, <2>1 DEF Begins
  <2>3. bodyReader[i] = "none" /\ chunksRead[i] = <<>> /\ produced[i] = 0
    BY <1>0, <2>1 DEF Begins
  <2>4. Begins(i)' /\ Whole(i)'
    BY <2>1, <2>2, <2>3 DEF Begins, Whole
  <2>5. Accounted(i)'
    BY <2>1, <2>2, <2>3 DEF Accounted, FinalRead
  <2> QED
    BY <1>2, <2>1, <2>4, <2>5 DEF RequestInv
<1>6. CASE Http!PumpHead(i)
  <2>1. /\ pump[i] \in {"ok", "error", "denied"}
        /\ bodyReader' = bodyReader /\ produced' = produced /\ chunksRead' = chunksRead
    BY <1>6 DEF Http!PumpHead
  <2>2. Http!Own(i) = {}
    BY <1>0, <2>1 DEF Begins
  <2>a. Assembled(i)'
    BY <1>2, <2>1
  <2>3. CASE ~httpOpen
    <3>1. pump'[i] = "done" /\ answered' = answered
      BY <1>0, <1>6, <2>3 DEF Http!PumpHead, Http!Outcome, HttpType
    <3>2. Http!Own(i)' = {}
      BY <1>u, <2>2, <3>1
    <3> QED
      BY <1>0, <2>1, <2>a, <3>1, <3>2 DEF RequestInv, Begins, Accounted, Whole
  <2>4. CASE httpOpen /\ pump[i] = "ok"
    <3>1. Http!SendsBack(i, "head") /\ pump'[i] = "body" /\ "head" \in HttpFrames
      BY <1>0, <1>6, <2>4 DEF Http!PumpHead, Http!Outcome, HttpType, HttpFrames
    <3>2. /\ Http!Own(i)' = {Len(answered[i]) + 1}
          /\ Cardinality(Http!Own(i)') = Cardinality(Http!Own(i)) + 1
          /\ answered[i]'[Len(answered[i]) + 1] = "head"
      BY <1>0, <2>2, <3>1, SentBack
    <3>3. Cardinality(Http!Own(i)') = 1
      BY <2>2, <3>2, FS_EmptySet
    <3>4. Begins(i)'
      BY <1>0, <2>1, <2>4, <3>1, <3>2 DEF Begins
    <3>5. Accounted(i)'
      <4>1. Len(chunksRead[i]) = produced[i] + FinalRead(i) /\ FinalRead(i)' = FinalRead(i)
            /\ FinalRead(i) \in Nat
        BY <1>0, <2>1, <2>4 DEF Accounted, FinalRead
      <4>2. Cardinality(Http!Own(i)') + Len(chunksRead[i]) = 1 + produced[i] + FinalRead(i)
        BY <1>f, <3>3, <4>1
      <4>3. \A k \in Http!Own(i)' : answered[i]'[k] = "head"
        BY <3>2
      <4> QED
        BY <1>0, <2>1, <3>1, <4>1, <4>2, <4>3 DEF Accounted, Final
    <3>6. Whole(i)'
      BY <1>f, <3>2 DEF Whole, Final
    <3> QED
      BY <2>a, <3>4, <3>5, <3>6 DEF RequestInv
  <2>5. CASE httpOpen /\ pump[i] # "ok"
    <3>1. Http!SendsBack(i, "error") /\ pump'[i] = "done" /\ "error" \in HttpFrames
      BY <1>0, <1>6, <2>5 DEF Http!PumpHead, Http!Outcome, HttpType, HttpFrames
    <3>2. /\ Http!Own(i)' = {Len(answered[i]) + 1}
          /\ answered[i]'[Len(answered[i]) + 1] = "error"
      BY <1>0, <2>2, <3>1, SentBack
    <3>3. Begins(i)'
      BY <1>0, <2>1, <2>5, <3>1, <3>2 DEF Begins
    <3>4. Accounted(i)'
      <4>1. \A k \in Http!Own(i)' : answered[i]'[k] = "error"
        BY <3>2
      <4> QED
        BY <1>0, <2>1, <3>1, <4>1 DEF Accounted
    <3>5. Whole(i)'
      BY <1>f, <3>2 DEF Whole, Final
    <3> QED
      BY <2>a, <3>3, <3>4, <3>5 DEF RequestInv
  <2> QED
    BY <2>3, <2>4, <2>5
<1>7. CASE Http!PumpBody(i)
  <2>1. /\ pump[i] = "body" /\ chunksRead[i] # <<>>
        /\ bodyReader' = bodyReader /\ produced' = produced
    BY <1>7 DEF Http!PumpBody
  <2>a. Assembled(i)'
    BY <1>2, <2>1
  <2>2. Http!Own(i) # {}
    BY <1>0, <2>1 DEF Begins
  <2>3. CASE ~httpOpen
    <3>1. pump'[i] = "done" /\ answered' = answered /\ chunksRead'[i] = <<>>
      BY <1>0, <1>7, <2>3 DEF Http!PumpBody, Http!Outcome, HttpType
    <3>2. Http!Own(i)' = Http!Own(i)
      BY <1>u, <3>1
    <3> QED
      BY <1>0, <2>1, <2>a, <3>1, <3>2 DEF RequestInv, Begins, Accounted, Whole
  <2>4. CASE httpOpen
    <3> DEFINE f == Head(chunksRead[i])
               n == Len(answered[i]) + 1
    <3>1. /\ Http!SendsBack(i, f) /\ pump' = pump /\ chunksRead'[i] = Tail(chunksRead[i])
          /\ f \in {"body", "end", "error"} /\ f = chunksRead[i][1]
      BY <1>0, <1>f, <1>7, <2>1, <2>4 DEF Http!PumpBody, HttpType
    <3>2. f \in HttpFrames /\ f \notin {"cancelled", "refused"}
      BY <3>1 DEF HttpFrames
    <3>3. /\ Http!Own(i)' = Http!Own(i) \cup {n}
          /\ Cardinality(Http!Own(i)') = Cardinality(Http!Own(i)) + 1
          /\ answered[i]'[n] = f /\ n \in Nat
          /\ \A k \in Http!Own(i) : k < n /\ answered[i]'[k] = answered[i][k] /\ k \in Nat
      BY <1>0, <1>f, <3>1, <3>2, SentBack
    <3>4. /\ Len(chunksRead[i]) \in Nat /\ Len(chunksRead[i]) >= 1
          /\ Len(chunksRead'[i]) = Len(chunksRead[i]) - 1
          /\ \A k \in DOMAIN chunksRead'[i] :
                 k + 1 \in DOMAIN chunksRead[i] /\ chunksRead'[i][k] = chunksRead[i][k + 1]
      BY <1>f, <2>1, <3>1
    <3> HIDE DEF f, n
    <3>5. f \in Final => Len(chunksRead[i]) = 1 /\ bodyReader[i] = "ended" /\ chunksRead'[i] = <<>>
      <4>1. 1 \in DOMAIN chunksRead[i]
        BY <1>f, <2>1
      <4>2. f \in Final => 1 = Len(chunksRead[i]) /\ bodyReader[i] = "ended"
        BY <1>0, <3>1, <4>1 DEF Accounted
      <4>3. Len(chunksRead[i]) = 1 => Tail(chunksRead[i]) = <<>>
        <5>1. Len(chunksRead[i]) = 1 => Len(Tail(chunksRead[i])) = 0
          BY <3>1, <3>4
        <5>2. Tail(chunksRead[i]) \in Seq({"body", "end", "error"})
          BY <1>f, <2>1
        <5> QED
          BY <5>1, <5>2, EmptySeq
      <4> QED
        BY <3>1, <4>2, <4>3
    <3>6. \A k \in Http!Own(i) : answered[i][k] \notin Final
      BY <1>0, <2>1 DEF Accounted
    <3>7. /\ Cardinality(Http!Own(i)) + Len(chunksRead[i]) = 1 + produced[i] + FinalRead(i)
          /\ FinalRead(i)' = FinalRead(i) /\ FinalRead(i) \in Nat
      BY <1>0, <2>1 DEF Accounted, FinalRead
    <3>8. Begins(i)'
      BY <1>0, <2>1, <2>2, <3>1, <3>3 DEF Begins
    <3>9. Accounted(i)'
      <4>1. Cardinality(Http!Own(i)') + Len(chunksRead'[i]) = 1 + produced[i] + FinalRead(i)
        BY <1>f, <3>3, <3>4, <3>7
      <4>2. \A k \in DOMAIN chunksRead'[i] :
              chunksRead'[i][k] \in Final => k = Len(chunksRead'[i]) /\ bodyReader[i] = "ended"
        <5> SUFFICES ASSUME NEW k \in DOMAIN chunksRead'[i], chunksRead'[i][k] \in Final
                     PROVE  k = Len(chunksRead'[i]) /\ bodyReader[i] = "ended"
          OBVIOUS
        <5>1. k + 1 = Len(chunksRead[i]) /\ bodyReader[i] = "ended"
          BY <1>0, <3>4 DEF Accounted
        <5>2. k \in Int
          BY <1>f, <3>1
        <5> QED
          BY <3>4, <5>1, <5>2
      <4>3. \A k \in Http!Own(i)' :
              answered[i]'[k] \in Final => chunksRead'[i] = <<>> /\ bodyReader[i] = "ended"
        BY <3>3, <3>5, <3>6
      <4>4. "end" \in Final
        BY DEF Final
      <4> QED
        BY <2>1, <3>1, <3>7, <4>1, <4>2, <4>3, <4>4 DEF Accounted
    <3>10. Whole(i)'
      <4> SUFFICES ASSUME NEW k \in Http!Own(i)'
                   PROVE  /\ answered'[i][k] \in Final => \A l \in Http!Own(i)' : l <= k
                          /\ answered'[i][k] = "head" <=>
                               (answered'[i][k] # "error" /\ \A l \in Http!Own(i)' : k <= l)
                          /\ answered'[i][k] = "end" => Cardinality(Http!Own(i)') = produced'[i] + 2
        BY DEF Whole
      <4>1. CASE k = n
        <5>1. \A l \in Http!Own(i)' : l <= k
          BY <3>3, <4>1
        <5>2. \E l \in Http!Own(i)' : ~(k <= l)
          BY <2>2, <3>3, <4>1
        <5>3. answered'[i][k] # "head"
          BY <3>1, <3>3, <4>1
        <5>4. ASSUME answered'[i][k] = "end" PROVE Cardinality(Http!Own(i)') = produced'[i] + 2
          <6>1. f = "end"
            BY <3>3, <4>1, <5>4
          <6>2. Len(chunksRead[i]) = 1 /\ FinalRead(i) = 1
            BY <3>5, <6>1 DEF Final, FinalRead
          <6> QED
            BY <1>f, <2>1, <3>3, <3>7, <6>2
        <5> QED
          BY <5>1, <5>2, <5>3, <5>4
      <4>2. CASE k # n
        <5>1. k \in Http!Own(i) /\ answered'[i][k] = answered[i][k] /\ answered[i][k] \notin Final
          BY <3>3, <3>6, <4>2
        <5>2. (\A l \in Http!Own(i)' : k <= l) <=> (\A l \in Http!Own(i) : k <= l)
          BY <3>3, <5>1
        <5>3. answered[i][k] = "head" <=>
                (answered[i][k] # "error" /\ \A l \in Http!Own(i) : k <= l)
          BY <1>0, <5>1 DEF Whole
        <5> QED
          BY <5>1, <5>2, <5>3 DEF Final
      <4> QED
        BY <4>1, <4>2
    <3> QED
      BY <2>a, <3>8, <3>9, <3>10 DEF RequestInv
  <2> QED
    BY <2>3, <2>4
<1> QED
  BY <1>3, <1>4, <1>5, <1>6, <1>7 DEF TaskStep, Http!Pump

\* The reader hands the request's frames over, for as long as the pump takes them.
LEMMA ReaderKeeps ==
  ASSUME HttpInv, NEW i \in Requests, ReaderStep(i)
  PROVE  RequestInv(i)'
<1>0. HttpType /\ Assembled(i) /\ Begins(i) /\ Accounted(i) /\ Whole(i)
  BY DEF HttpInv, RequestInv
<1>1. /\ bodyReader[i] = "reading" /\ requests' = requests /\ pump' = pump /\ answered' = answered
  BY DEF ReaderStep, Http!ReaderChunk, Http!ReaderDone, Http!ReaderGivesUp, Http!ReaderEnds,
         Http!requests
<1>2. Http!Own(i)' = Http!Own(i)
  BY <1>1 DEF Http!Own
<1>3. pump[i] \in {"ok", "body", "done"}
  BY <1>0, <1>1 DEF Begins
<1>4. \A k \in Http!Own(i) : answered[i][k] # "end"
                             /\ (pump[i] = "body" => answered[i][k] \notin Final)
  BY <1>0, <1>1 DEF Accounted
<1>5. \A k \in DOMAIN chunksRead[i] : chunksRead[i][k] \notin Final
  BY <1>0, <1>1 DEF Accounted
<1>6. PICK f \in {"body", "end", "error"} :
         /\ Http!Queued(i, f)
         /\ \/ /\ f = "body" /\ produced'[i] = produced[i] + 1
               /\ bodyReader'[i] = IF pump[i] = "done" THEN "ended" ELSE "reading"
            \/ /\ f # "body" /\ produced' = produced /\ bodyReader'[i] = "ended"
  BY <1>0, <1>1
     DEF ReaderStep, Http!ReaderChunk, Http!ReaderDone, Http!ReaderGivesUp, Http!ReaderEnds,
         HttpType
<1>7. /\ pump[i] = "done" => chunksRead[i]' = chunksRead[i]
      /\ pump[i] # "done" => chunksRead[i]' = Append(chunksRead[i], f)
  BY <1>0, <1>6, QueuedFacts
<1>8. /\ chunksRead[i] \in Seq({"body", "end", "error"}) /\ produced[i] \in Nat
      /\ Cardinality(Http!Own(i)) \in Nat
  BY <1>0, OwnFacts DEF HttpType
<1>9. Assembled(i)'
  BY <1>0, <1>1 DEF Assembled
<1>10. Begins(i)'
  BY <1>0, <1>1, <1>2, <1>3, <1>6 DEF Begins
<1>11. Whole(i)'
  BY <1>0, <1>1, <1>2, <1>4 DEF Whole
<1>12. Accounted(i)'
  <2>1. CASE pump[i] = "done"
    BY <1>1, <1>2, <1>4, <1>5, <1>7, <2>1 DEF Accounted
  <2>2. CASE pump[i] # "done"
    <3>1. /\ Len(chunksRead'[i]) = Len(chunksRead[i]) + 1 /\ Len(chunksRead[i]) \in Nat
          /\ DOMAIN chunksRead'[i] = 1 .. (Len(chunksRead[i]) + 1)
          /\ DOMAIN chunksRead[i] = 1 .. Len(chunksRead[i])
          /\ chunksRead'[i][Len(chunksRead[i]) + 1] = f
          /\ \A k \in DOMAIN chunksRead[i] : chunksRead'[i][k] = chunksRead[i][k]
      BY <1>7, <1>8, <2>2
    <3>2. /\ pump[i] = "ok" => Len(chunksRead[i]) = produced[i]
          /\ pump[i] = "body" => Cardinality(Http!Own(i)) + Len(chunksRead[i]) = 1 + produced[i]
      BY <1>0, <1>1, <1>8 DEF Accounted, FinalRead
    <3>3. produced'[i] + FinalRead(i)' = produced[i] + 1 /\ produced'[i] \in Nat /\ FinalRead(i)' \in Nat
      BY <1>6, <1>8, <2>2 DEF FinalRead
    <3>4. f \in Final => bodyReader'[i] = "ended"
      BY <1>6 DEF Final
    <3>5. \A k \in DOMAIN chunksRead'[i] :
            chunksRead'[i][k] \in Final => k = Len(chunksRead'[i]) /\ bodyReader'[i] = "ended"
      BY <1>5, <3>1, <3>4
    <3>6. pump[i] = "ok" => Len(chunksRead'[i]) = produced'[i] + FinalRead(i)'
      BY <1>8, <3>1, <3>2, <3>3
    <3>7. pump[i] = "body" =>
            Cardinality(Http!Own(i)) + Len(chunksRead'[i]) = 1 + produced'[i] + FinalRead(i)'
      <4>1. PICK c, l, p, q, r \in Nat :
              /\ c = Cardinality(Http!Own(i)) /\ l = Len(chunksRead[i]) /\ p = produced[i]
              /\ q = produced'[i] /\ r = FinalRead(i)'
        BY <1>8, <3>1, <3>3
      <4>2. q + r = p + 1 /\ Len(chunksRead'[i]) = l + 1
        BY <3>1, <3>3, <4>1
      <4>3. ASSUME pump[i] = "body" PROVE c + (l + 1) = 1 + q + r
        <5>1. c + l = 1 + p
          BY <3>2, <4>1, <4>3
        <5> QED
          BY <4>2, <5>1
      <4> QED
        BY <4>1, <4>2, <4>3
    <3> QED
      BY <1>1, <1>2, <1>4, <3>5, <3>6, <3>7 DEF Accounted, Final
  <2> QED
    BY <2>1, <2>2
<1> QED
  BY <1>9, <1>10, <1>11, <1>12 DEF RequestInv

\* A step on one request leaves the others alone.
LEMMA OthersKept ==
  ASSUME HttpType, NEW i \in Requests, LoopStep(i) \/ TaskStep(i) \/ ReaderStep(i),
         NEW j \in Requests, j # i
  PROVE  requestState(j)' = requestState(j)
<1>1. CASE LoopStep(i)
  BY <1>1
     DEF LoopStep, Http!ReqHead, Http!ReqHeadMalformed, Http!ReqBody, Http!ReqEndAborted,
         Http!ReqEndShed, Http!ReqEnd, Http!ReqCancelPending, Http!ReqCancel, Http!SendsBack,
         Http!tasks, HttpType, requestState
<1>2. CASE TaskStep(i)
  BY <1>2
     DEF TaskStep, Http!Pump, Http!Gate, Http!FetchEnds, Http!PumpDone, Http!PumpHead,
         Http!PumpBody, Http!FetchSucceeds, Http!Outcome, Http!Logged, Http!SendsBack,
         Http!requests, HttpType, requestState
<1>3. CASE ReaderStep(i)
  BY <1>3
     DEF ReaderStep, Http!ReaderChunk, Http!ReaderDone, Http!ReaderGivesUp, Http!ReaderEnds,
         Http!Queued, Http!requests, HttpType, requestState
<1> QED
  BY <1>1, <1>2, <1>3

\* Nothing has been asked yet.
LEMMA HttpInit == Http!Init => HttpInv
<1> SUFFICES ASSUME Http!Init PROVE HttpInv
  OBVIOUS
<1>1. HttpType
  BY DEF Http!Init, HttpType, Http!None, Http!Pumps
<1>2. LoadInv
  BY HttpAssumption, FS_EmptySet DEF Http!Init, LoadInv, Http!Listening, Http!HttpAssumption
<1>3. ASSUME NEW i \in Requests PROVE RequestInv(i)
  <2>1. Http!Own(i) = {}
    BY DEF Http!Init, Http!Own
  <2> QED
    BY <2>1 DEF Http!Init, RequestInv, Assembled, Begins, Accounted, Whole, Http!None
<1> QED
  BY <1>1, <1>2, <1>3 DEF HttpInv

\* Every step of HttpForward keeps the invariant.
LEMMA HttpStep == HttpInv /\ [Http!Next]_(Http!vars) => HttpInv'
<1> SUFFICES ASSUME HttpInv, [Http!Next]_(Http!vars) PROVE HttpInv'
  OBVIOUS
<1>1. HttpType' /\ LoadInv'
  BY HttpTypeStep, LoadStep DEF HttpInv
<1>2. ASSUME NEW j \in Requests PROVE RequestInv(j)'
  <2>0. RequestInv(j) /\ HttpType
    BY DEF HttpInv
  <2>1. CASE UNCHANGED Http!vars
    BY <2>0, <2>1, RequestKept DEF Http!vars, Http!requests, Http!tasks, requestState
  <2>2. CASE Http!Shutdown
    <3>1. /\ pump' = pump /\ bodyReader' = bodyReader /\ produced' = produced
          /\ chunksRead' = chunksRead /\ answered' = answered
      BY <2>2 DEF Http!Shutdown, Http!tasks
    <3>2. Http!Own(j)' = Http!Own(j)
      BY <3>1 DEF Http!Own
    <3>3. Begins(j)' /\ Accounted(j)' /\ Whole(j)'
      BY <2>0, <3>1, <3>2, ResponseKept DEF RequestInv
    <3>4. Assembled(j)'
      BY <2>2 DEF Http!Shutdown, Assembled, Http!None
    <3> QED
      BY <3>3, <3>4 DEF RequestInv
  <2>3. ASSUME NEW i \in Requests, LoopStep(i) \/ TaskStep(i) \/ ReaderStep(i)
        PROVE  RequestInv(j)'
    <3>1. CASE j = i
      BY <2>3, <3>1, LoopKeeps, TaskKeeps, ReaderKeeps
    <3>2. CASE j # i
      BY <2>0, <2>3, <3>2, OthersKept, RequestKept
    <3> QED
      BY <3>1, <3>2
  <2> QED
    BY <2>1, <2>2, <2>3, HttpNext
<1> QED
  BY <1>1, <1>2 DEF HttpInv

\* The invariant is what the properties of HttpForward say, and more.
LEMMA HttpSound == HttpInv => Http!LoadBounded /\ Http!ResponseWhole
<1> SUFFICES ASSUME HttpInv PROVE Http!LoadBounded /\ Http!ResponseWhole
  OBVIOUS
<1>1. Http!LoadBounded
  <2> DEFINE running == {i \in Requests : Http!Listening(i) /\ ~signal[i]}
  <2>1. running \subseteq in_flight /\ in_flight \subseteq Requests
    BY DEF HttpInv, LoadInv, HttpType
  <2>2. IsFiniteSet(Requests)
    BY HttpAssumption, HttpSizes DEF Http!HttpAssumption
  <2>3. IsFiniteSet(in_flight)
    BY <2>1, <2>2, FS_Subset
  <2>4. Cardinality(running) <= Cardinality(in_flight) /\ IsFiniteSet(running)
    BY <2>1, <2>3, FS_Subset
  <2>5. Cardinality(running) \in Nat /\ Cardinality(in_flight) \in Nat
    BY <2>3, <2>4, FS_CardinalityType
  <2>6. Cardinality(in_flight) <= RequestCap /\ RequestCap \in Nat
    BY HttpAssumption DEF HttpInv, LoadInv, Http!HttpAssumption
  <2>7. Cardinality(running) <= RequestCap
    BY <2>4, <2>5, <2>6
  <2> HIDE DEF running
  <2>8. Http!Cardinality(running) <= RequestCap
    BY <2>7, HttpSizes
  <2> QED
    BY <2>8 DEF running, Http!LoadBounded, HttpInv, LoadInv
<1>2. Http!ResponseWhole
  BY HttpSizes DEF Http!ResponseWhole, HttpInv, RequestInv, Whole, Final
<1> QED
  BY <1>1, <1>2

\* However the loop, the tasks and the readers interleave, and whenever the
\* channel closes, no more requests run than the cap allows, and what the device
\* gets of each is whole or an error (http_forward.rs 679-834, 1152-1247).
THEOREM HttpForwardSound ==
  Http!Init /\ [][Http!Next]_(Http!vars) => [](Http!LoadBounded /\ Http!ResponseWhole)
<1>1. HttpInv => Http!LoadBounded /\ Http!ResponseWhole
  BY HttpSound
<1> QED
  BY HttpInit, HttpStep, <1>1, PTL

-----------------------------------------------------------------------------
(* WsTunnel: what the server gets of the page, and the device of the       *)
(* server.                                                                 *)

WsFrames == {"ok", "error", "close", "fin", "more"}

\* What the session and the relays of WsTunnel keep.
WsType ==
    /\ streams \subseteq Tunnels
    /\ buf \in [Tunnels -> Seq(Nat)] /\ relay \in [Tunnels -> Ws!Relays]
    /\ partial \in [Tunnels -> Seq(Nat)] /\ chunks \in [Tunnels -> Nat]
    /\ out \in [Tunnels -> Seq(WsFrames)] /\ server \in [Tunnels -> Seq(Seq(Nat))]
    /\ up \in [Tunnels -> {"none", "open", "closed"}]
    /\ said \in [Tunnels -> Nat] /\ lost \in [Tunnels -> BOOLEAN]
    /\ tunnelSent \in [Tunnels -> Seq(WsFrames)] /\ tunnelOpen \in BOOLEAN

\* A tunnel that was not opened has nothing; one that connects has told nobody.
Unopened(i) ==
    /\ relay[i] = "none" =>
           /\ i \notin streams /\ buf[i] = <<>> /\ said[i] = 0
           /\ tunnelSent[i] \in {<<>>, <<"error">>}
    /\ relay[i] = "connect" => tunnelSent[i] = <<>>
    /\ relay[i] \in {"none", "connect"} =>
           partial[i] = <<>> /\ server[i] = <<>> /\ out[i] = <<>>

\* The last fragment that the relay has put into a message.
Cursor(i) ==
    IF partial[i] = <<>> THEN Ws!Upto(i, Len(server[i])) ELSE partial[i][Len(partial[i])]

\* What waits for the relay: later fragments, in order, and the close at the end;
\* and if none was dropped, all of them.
Buffered(i) ==
    /\ \A k \in DOMAIN buf[i] :
           /\ buf[i][k] = 0 => k = Len(buf[i]) /\ i \notin streams
           /\ buf[i][k] # 0 =>
                  /\ Cursor(i) < buf[i][k] /\ buf[i][k] <= said[i]
                  /\ \A l \in DOMAIN buf[i] : l < k => buf[i][l] < buf[i][k]
    /\ (~lost[i] /\ relay[i] # "done") =>
           /\ \A k \in DOMAIN buf[i] : buf[i][k] # 0 => buf[i][k] = Cursor(i) + k
           /\ i \in streams => said[i] = Cursor(i) + Len(buf[i])

\* The fragments of s come after the one at u, in order, and the one at e is the
\* only last one of a message; without gaps if none was dropped.
Fragmented(i, s, u, e) ==
    \A a \in DOMAIN s :
        /\ s[a] \in (u + 1) .. said[i]
        /\ Script[i][s[a]] <=> a = e
        /\ \A b \in DOMAIN s : a < b => s[a] < s[b]
        /\ ~lost[i] => s[a] = u + a

\* The message that is being put together.
Putting(i) == Fragmented(i, partial[i], Ws!Upto(i, Len(server[i])), 0)

\* WsTunnel!MessagesIntact of one tunnel.
Intact(i) ==
    \A k \in DOMAIN server[i] :
        /\ server[i][k] # <<>>
        /\ Fragmented(i, server[i][k], Ws!Upto(i, k - 1), Len(server[i][k]))

\* What the server gets of the page on tunnel i.
MessageInv(i) == Unopened(i) /\ Buffered(i) /\ Putting(i) /\ Intact(i)

\* The frames of s are an error, or ok, messages and at last a close, which is
\* not within a message.
Ordered(s) ==
    \A k \in DOMAIN s :
        /\ s[k] \in {"error", "close"} => k = Len(s)
        /\ s[k] \in {"ok", "error"} <=> k = 1
        /\ s[k] = "close" => s[k - 1] # "more"

\* What is on its way continues what was sent: an error or a close is the last
\* that the relay says, and it says so between messages.
Continues(i) ==
    /\ tunnelSent[i] = <<>> => out[i] # <<>>
    /\ \A k \in DOMAIN out[i] :
           /\ out[i][k] \in {"ok", "error"} <=> (k = 1 /\ tunnelSent[i] = <<>>)
           /\ out[i][k] \in {"error", "close"} => k = Len(out[i]) /\ relay[i] = "done"
           /\ (out[i][k] = "close" /\ k > 1) => out[i][k - 1] # "more"
           /\ (out[i][k] = "close" /\ k = 1) => tunnelSent[i][Len(tunnelSent[i])] # "more"
    /\ \A k \in DOMAIN tunnelSent[i] :
           tunnelSent[i][k] \in {"error", "close"} => out[i] = <<>> /\ relay[i] = "done"
    /\ (relay[i] = "up" /\ chunks[i] = 0) =>
           IF out[i] = <<>> THEN tunnelSent[i][Len(tunnelSent[i])] # "more"
           ELSE out[i][Len(out[i])] # "more"

\* What the device gets of the server on tunnel i.
FrameInv(i) ==
    /\ Ordered(tunnelSent[i])
    /\ (tunnelOpen /\ relay[i] \in {"up", "done"}) => Continues(i)

\* The inductive invariant of WsTunnel.
WsInv == WsType /\ \A i \in Tunnels : MessageInv(i) /\ FrameInv(i)

\* The steps of the select loop and of the relay on tunnel i, and the server's.
PageStep(i) == Ws!WsOpen(i) \/ Ws!WsData(i) \/ Ws!WsClose(i)
OpenStep(i) == Ws!OpenFails(i) \/ Ws!OpenDrops(i) \/ Ws!OpenOk(i)
StopStep(i) == Ws!Idle(i) /\ Ws!Stops(i)
RelayStep(i) ==
    \/ Ws!SendChunk(i) \/ Ws!RelayData(i) \/ StopStep(i) \/ Ws!RelayAbandoned(i)
    \/ Ws!ServerSpeaks(i) \/ Ws!PumpSends(i)
TunnelStep(i) == PageStep(i) \/ OpenStep(i) \/ RelayStep(i)

\* A step of WsTunnel is one of these, or the channel closes.
LEMMA WsNext == Ws!Next => Ws!Shutdown \/ \E i \in Tunnels : TunnelStep(i)
BY DEF Ws!Next, Ws!Relay, Ws!RelayRefuses, Ws!RelayEchoes, Ws!ServerCloses, PageStep, OpenStep,
       StopStep, RelayStep, TunnelStep

\* The steps keep the types.
LEMMA WsTypeStep == WsType /\ [Ws!Next]_(Ws!vars) => WsType'
<1> SUFFICES ASSUME WsType, [Ws!Next]_(Ws!vars) PROVE WsType'
  OBVIOUS
<1> USE DEF WsType, Ws!Update
<1>1. CASE Ws!Shutdown
  BY <1>1 DEF Ws!Shutdown, Ws!task
<1>2. CASE UNCHANGED Ws!vars
  BY <1>2 DEF Ws!vars, Ws!page, Ws!task
<1>3. ASSUME NEW i \in Tunnels, PageStep(i) PROVE WsType'
  <2>1. CASE Ws!WsOpen(i)
    <3>1. tunnelSent' \in [Tunnels -> Seq(WsFrames)]
      <4>1. <<"error">> \in Seq(WsFrames)
        BY DEF WsFrames
      <4> QED
        BY <2>1, <4>1 DEF Ws!WsOpen
    <3>2. streams' \subseteq Tunnels
      BY <2>1 DEF Ws!WsOpen, Ws!Reaped
    <3>3. relay' \in [Tunnels -> Ws!Relays]
      BY <2>1 DEF Ws!WsOpen, Ws!Relays
    <3> QED
      BY <2>1, <3>1, <3>2, <3>3 DEF Ws!WsOpen
  <2>2. CASE Ws!WsData(i)
    <3>1. said[i] + 1 \in Nat
      OBVIOUS
    <3>2. buf' \in [Tunnels -> Seq(Nat)]
      <4>1. Append(buf[i], said[i] + 1) \in Seq(Nat)
        BY <3>1
      <4>2. buf' = buf \/ buf' = [buf EXCEPT ![i] = Append(buf[i], said[i] + 1)]
        BY <2>2 DEF Ws!WsData
      <4> QED
        BY <4>1, <4>2
    <3>3. said' \in [Tunnels -> Nat]
      BY <2>2, <3>1 DEF Ws!WsData
    <3>4. lost' \in [Tunnels -> BOOLEAN]
      BY <2>2 DEF Ws!WsData
    <3> QED
      BY <2>2, <3>2, <3>3, <3>4 DEF Ws!WsData, Ws!task
  <2>3. CASE Ws!WsClose(i)
    <3>1. buf' \in [Tunnels -> Seq(Nat)]
      <4>1. Append(buf[i], 0) \in Seq(Nat)
        OBVIOUS
      <4>2. buf' = buf \/ buf' = [buf EXCEPT ![i] = Append(buf[i], 0)]
        BY <2>3 DEF Ws!WsClose, Ws!Close
      <4> QED
        BY <4>1, <4>2
    <3> QED
      BY <2>3, <3>1 DEF Ws!WsClose, Ws!task
  <2> QED
    BY <1>3, <2>1, <2>2, <2>3 DEF PageStep
<1>o. ASSUME NEW i \in Tunnels, NEW f \in WsFrames, out' = [out EXCEPT ![i] = Append(@, f)]
      PROVE  out' \in [Tunnels -> Seq(WsFrames)]
  <2>1. Append(out[i], f) \in Seq(WsFrames)
    OBVIOUS
  <2> QED
    BY <1>o, <2>1
<1>b. ASSUME NEW i \in Tunnels, buf[i] # <<>>, buf' = [buf EXCEPT ![i] = Tail(@)]
      PROVE  buf' \in [Tunnels -> Seq(Nat)]
  <2>1. Tail(buf[i]) \in Seq(Nat)
    BY <1>b
  <2> QED
    BY <1>b, <2>1
<1>c. ASSUME NEW i \in Tunnels, buf' = [buf EXCEPT ![i] = <<>>]
      PROVE  buf' \in [Tunnels -> Seq(Nat)]
  BY <1>c
<1>f. /\ "error" \in WsFrames /\ "ok" \in WsFrames /\ "close" \in WsFrames
      /\ "fin" \in WsFrames /\ "more" \in WsFrames
  BY DEF WsFrames
<1>4. ASSUME NEW i \in Tunnels, OpenStep(i) PROVE WsType'
  <2>1. CASE Ws!OpenFails(i)
    <3>1. buf' \in [Tunnels -> Seq(Nat)] /\ out' \in [Tunnels -> Seq(WsFrames)]
      BY <2>1, <1>c, <1>f, <1>o DEF Ws!OpenFails, Ws!Ends
    <3> QED
      BY <2>1, <3>1 DEF Ws!OpenFails, Ws!Ends, Ws!page, Ws!Relays
  <2>2. CASE Ws!OpenDrops(i)
    <3>1. buf' \in [Tunnels -> Seq(Nat)]
      BY <2>2, <1>b DEF Ws!OpenDrops, Ws!Event
    <3> QED
      BY <2>2, <3>1 DEF Ws!OpenDrops, Ws!task
  <2>3. CASE Ws!OpenOk(i)
    <3>1. out' \in [Tunnels -> Seq(WsFrames)]
      BY <2>3, <1>f, <1>o DEF Ws!OpenOk
    <3> QED
      BY <2>3, <3>1 DEF Ws!OpenOk, Ws!page, Ws!Relays
  <2> QED
    BY <1>4, <2>1, <2>2, <2>3 DEF OpenStep
<1>5. ASSUME NEW i \in Tunnels, RelayStep(i) PROVE WsType'
  <2>1. CASE Ws!SendChunk(i)
    <3>1. CASE tunnelOpen
      <4>1. out' \in [Tunnels -> Seq(WsFrames)]
        BY <2>1, <3>1, <1>f, <1>o DEF Ws!SendChunk
      <4>2. chunks' \in [Tunnels -> Nat]
        <5>1. chunks[i] - 1 \in Nat /\ chunks' = [chunks EXCEPT ![i] = chunks[i] - 1]
          BY <2>1, <3>1 DEF Ws!SendChunk
        <5> QED
          BY <5>1
      <4> QED
        BY <2>1, <3>1, <4>1, <4>2 DEF Ws!SendChunk, Ws!page
    <3>2. CASE ~tunnelOpen
      <4>1. buf' \in [Tunnels -> Seq(Nat)]
        BY <2>1, <3>2, <1>c DEF Ws!SendChunk
      <4>2. relay' \in [Tunnels -> Ws!Relays]
        BY <2>1, <3>2 DEF Ws!SendChunk, Ws!Relays
      <4>3. chunks' \in [Tunnels -> Nat]
        <5>1. chunks' = [chunks EXCEPT ![i] = 0]
          BY <2>1, <3>2 DEF Ws!SendChunk
        <5> QED
          BY <5>1
      <4> QED
        BY <2>1, <3>2, <4>1, <4>2, <4>3 DEF Ws!SendChunk, Ws!page
    <3> QED
      BY <3>1, <3>2
  <2>2. CASE Ws!RelayData(i)
    <3>1. buf' \in [Tunnels -> Seq(Nat)] /\ buf[i] # <<>>
      BY <2>2, <1>b DEF Ws!RelayData, Ws!Event
    <3>2. Append(partial[i], Head(buf[i])) \in Seq(Nat) /\ <<>> \in Seq(Nat)
      BY <3>1
    <3>3. Append(server[i], Append(partial[i], Head(buf[i]))) \in Seq(Seq(Nat))
      BY <3>2
    <3>4. partial' \in [Tunnels -> Seq(Nat)]
      BY <2>2, <3>2 DEF Ws!RelayData
    <3>5. server' \in [Tunnels -> Seq(Seq(Nat))]
      BY <2>2, <3>3 DEF Ws!RelayData
    <3> QED
      BY <2>2, <3>1, <3>4, <3>5 DEF Ws!RelayData, Ws!page
  <2>3. CASE StopStep(i)
    <3>1. buf' \in [Tunnels -> Seq(Nat)] /\ out' \in [Tunnels -> Seq(WsFrames)]
      BY <2>3, <1>c, <1>f, <1>o DEF StopStep, Ws!Stops, Ws!Ends
    <3> QED
      BY <2>3, <3>1 DEF StopStep, Ws!Stops, Ws!Ends, Ws!page, Ws!Relays
  <2>4. CASE Ws!RelayAbandoned(i)
    BY <2>4 DEF Ws!RelayAbandoned, Ws!page, Ws!Relays
  <2>5. CASE Ws!ServerSpeaks(i)
    BY <2>5 DEF Ws!ServerSpeaks, Ws!page
  <2>6. CASE Ws!PumpSends(i)
    <3>1. Head(out[i]) \in WsFrames /\ Tail(out[i]) \in Seq(WsFrames)
      BY <2>6 DEF Ws!PumpSends
    <3>2. Append(tunnelSent[i], Head(out[i])) \in Seq(WsFrames)
      BY <3>1
    <3>3. out' \in [Tunnels -> Seq(WsFrames)]
      <4>1. \/ out' = [out EXCEPT ![i] = Tail(@)]
            \/ out' = [out EXCEPT ![i] = <<>>]
        BY <2>6 DEF Ws!PumpSends
      <4>2. <<>> \in Seq(WsFrames)
        OBVIOUS
      <4> QED
        BY <3>1, <4>1, <4>2
    <3>4. tunnelSent' \in [Tunnels -> Seq(WsFrames)]
      BY <2>6, <3>2 DEF Ws!PumpSends
    <3> QED
      BY <2>6, <3>3, <3>4 DEF Ws!PumpSends, Ws!page
  <2> QED
    BY <1>5, <2>1, <2>2, <2>3, <2>4, <2>5, <2>6 DEF RelayStep
<1> QED
  BY <1>1, <1>2, <1>3, <1>4, <1>5, WsNext DEF TunnelStep

\* The fragments that the server has got are ones that the page has said.
LEMMA UptoFacts ==
  ASSUME WsType, NEW i \in Tunnels, Intact(i)
  PROVE  \A k \in 0 .. Len(server[i]) : Ws!Upto(i, k) \in Nat /\ Ws!Upto(i, k) <= said[i]
<1>1. server[i] \in Seq(Seq(Nat)) /\ said[i] \in Nat
  BY DEF WsType
<1> SUFFICES ASSUME NEW k \in 1 .. Len(server[i])
             PROVE  Ws!Upto(i, k) \in Nat /\ Ws!Upto(i, k) <= said[i]
  BY <1>1 DEF Ws!Upto
<1>2. server[i][k] \in Seq(Nat) /\ server[i][k] # <<>>
  BY <1>1 DEF Intact
<1>3. Len(server[i][k]) \in DOMAIN server[i][k]
  BY <1>2
<1>4. server[i][k][Len(server[i][k])] \in (Ws!Upto(i, k - 1) + 1) .. said[i]
  BY <1>1, <1>3 DEF Intact, Fragmented
<1>5. server[i][k][Len(server[i][k])] \in Nat
  BY <1>2, <1>3
<1> QED
  BY <1>1, <1>4, <1>5 DEF Ws!Upto, Ws!Last

\* The cursor is at a fragment that the page has said, and not before the last
\* one that the server has got; without gaps if none was dropped.
LEMMA CursorFacts ==
  ASSUME WsType, NEW i \in Tunnels, Intact(i), Putting(i)
  PROVE  /\ Cursor(i) \in Nat /\ Cursor(i) <= said[i]
         /\ Ws!Upto(i, Len(server[i])) \in Nat
         /\ Ws!Upto(i, Len(server[i])) <= Cursor(i)
         /\ \A a \in DOMAIN partial[i] : partial[i][a] <= Cursor(i)
         /\ ~lost[i] => Cursor(i) = Ws!Upto(i, Len(server[i])) + Len(partial[i])
<1> DEFINE u == Ws!Upto(i, Len(server[i]))
<1>1. u \in Nat /\ u <= said[i] /\ said[i] \in Nat
  <2>1. Len(server[i]) \in 0 .. Len(server[i])
    BY DEF WsType
  <2> QED
    BY <2>1, UptoFacts DEF WsType
<1>2. partial[i] \in Seq(Nat)
  BY DEF WsType
<1>3. CASE partial[i] = <<>>
  BY <1>1, <1>3 DEF Cursor
<1>4. CASE partial[i] # <<>>
  <2> DEFINE n == Len(partial[i])
  <2>1. n \in Nat /\ n \in DOMAIN partial[i] /\ DOMAIN partial[i] = 1 .. n
    BY <1>2, <1>4
  <2>2. Cursor(i) = partial[i][n] /\ partial[i][n] \in Nat
    BY <1>2, <1>4, <2>1 DEF Cursor
  <2> HIDE DEF u, n
  <2>3. Fragmented(i, partial[i], u, 0)
    BY DEF Putting, u
  <2>4. partial[i][n] \in (u + 1) .. said[i] /\ (~lost[i] => partial[i][n] = u + n)
    BY <2>1, <2>3 DEF Fragmented
  <2>5. \A a \in DOMAIN partial[i] : partial[i][a] <= partial[i][n]
    <3> SUFFICES ASSUME NEW a \in DOMAIN partial[i] PROVE partial[i][a] <= partial[i][n]
      OBVIOUS
    <3>1. CASE a = n
      BY <2>2, <3>1
    <3>2. CASE a # n
      <4>1. a < n /\ partial[i][a] \in Nat
        BY <1>2, <2>1, <3>2
      <4> QED
        BY <2>1, <2>2, <2>3, <4>1 DEF Fragmented
    <3> QED
      BY <3>1, <3>2
  <2> QED
    BY <1>1, <2>1, <2>2, <2>4, <2>5 DEF u, n
<1> QED
  BY <1>3, <1>4

\* What the invariant of the messages is about.
messageState(i) == <<partial[i], server[i], said[i], lost[i]>>

\* Where the page says nothing more, the server gets what it would have got; and a
\* relay that ends has dropped its buffer.
LEMMA MessagesKept ==
  ASSUME NEW i \in Tunnels, Buffered(i), Putting(i), Intact(i),
         messageState(i)' = messageState(i), i \in streams' => i \in streams,
         \/ buf[i]' = buf[i] /\ (relay[i]' = relay[i] \/ relay[i] # "done")
         \/ buf[i]' = <<>> /\ relay[i]' = "done"
  PROVE  Buffered(i)' /\ Putting(i)' /\ Intact(i)'
<1>1. \A k : Ws!Upto(i, k)' = Ws!Upto(i, k)
  BY DEF Ws!Upto, messageState
<1>2. Cursor(i)' = Cursor(i)
  BY <1>1 DEF Cursor, messageState
<1>3. Putting(i)' /\ Intact(i)'
  BY <1>1 DEF Putting, Intact, Fragmented, messageState
<1>4. CASE buf[i]' = <<>> /\ relay[i]' = "done"
  BY <1>4, <1>3 DEF Buffered
<1>5. CASE buf[i]' = buf[i] /\ (relay[i]' = relay[i] \/ relay[i] # "done")
  BY <1>2, <1>3, <1>5 DEF Buffered, messageState
<1> QED
  BY <1>4, <1>5

\* A fragment that is dropped leaves the others in order.
LEMMA BufferTail ==
  ASSUME WsType, NEW i \in Tunnels, Buffered(i), buf[i] # <<>>, buf[i]' = Tail(buf[i]),
         Head(buf[i]) # 0
  PROVE  /\ Head(buf[i]) = buf[i][1] /\ 1 \in DOMAIN buf[i] /\ buf[i][1] \in Nat
         /\ Len(buf[i]) \in Nat /\ Len(buf[i]') = Len(buf[i]) - 1
         /\ \A k \in DOMAIN buf[i]' :
                /\ k \in Nat /\ k + 1 \in DOMAIN buf[i] /\ buf[i]'[k] = buf[i][k + 1]
                /\ buf[i]'[k] \in Nat
                /\ buf[i]'[k] # 0 => buf[i][1] < buf[i]'[k]
<1>1. buf[i] \in Seq(Nat)
  BY DEF WsType
<1>2. /\ Head(buf[i]) = buf[i][1] /\ 1 \in DOMAIN buf[i] /\ buf[i][1] \in Nat
      /\ Len(buf[i]) \in Nat /\ Len(buf[i]') = Len(buf[i]) - 1
      /\ \A k \in DOMAIN buf[i]' :
             /\ k \in Nat /\ k > 0 /\ k + 1 \in DOMAIN buf[i] /\ buf[i]'[k] = buf[i][k + 1]
             /\ buf[i]'[k] \in Nat
  BY <1>1
<1>3. ASSUME NEW k \in DOMAIN buf[i]', buf[i]'[k] # 0 PROVE buf[i][1] < buf[i]'[k]
  <2>1. k + 1 \in DOMAIN buf[i] /\ buf[i][k + 1] # 0 /\ 1 < k + 1 /\ buf[i]'[k] = buf[i][k + 1]
    BY <1>2, <1>3
  <2> QED
    BY <1>2, <2>1 DEF Buffered
<1> QED
  BY <1>2, <1>3

\* The page opens a tunnel, says a fragment or closes.
LEMMA PageKeeps ==
  ASSUME WsInv, NEW i \in Tunnels, PageStep(i)
  PROVE  MessageInv(i)'
<1>0. WsType /\ Unopened(i) /\ Buffered(i) /\ Putting(i) /\ Intact(i)
  BY DEF WsInv, MessageInv
<1>t. /\ buf[i] \in Seq(Nat) /\ said[i] \in Nat /\ Len(buf[i]) \in Nat
      /\ DOMAIN buf[i] = 1 .. Len(buf[i])
  BY <1>0 DEF WsType
<1>c. Cursor(i) \in Nat /\ Cursor(i) <= said[i]
  BY <1>0, CursorFacts
<1>1. CASE Ws!WsOpen(i)
  <2>1. /\ relay[i] = "none" /\ partial' = partial /\ server' = server /\ said' = said
        /\ lost' = lost /\ buf' = buf /\ out' = out
        /\ \/ relay' = relay /\ tunnelSent'[i] = <<"error">> /\ streams' \subseteq streams
           \/ relay'[i] = "connect" /\ tunnelSent'[i] = <<>>
    BY <1>0, <1>1 DEF Ws!WsOpen, Ws!Update, Ws!Reaped, WsType
  <2>2. /\ buf[i] = <<>> /\ said[i] = 0 /\ i \notin streams /\ partial[i] = <<>>
        /\ server[i] = <<>> /\ out[i] = <<>>
    BY <1>0, <2>1 DEF Unopened
  <2>3. Unopened(i)'
    BY <2>1, <2>2 DEF Unopened
  <2>4. Cursor(i)' = 0
    BY <2>1, <2>2 DEF Cursor, Ws!Upto
  <2>5. Buffered(i)'
    BY <2>1, <2>2, <2>4 DEF Buffered
  <2>6. Putting(i)' /\ Intact(i)'
    BY <2>1, <2>2 DEF Putting, Intact, Fragmented
  <2> QED
    BY <2>3, <2>5, <2>6 DEF MessageInv
<1>2. CASE Ws!WsData(i)
  <2>1. /\ i \in streams /\ streams' = streams /\ said'[i] = said[i] + 1 /\ relay' = relay
        /\ partial' = partial /\ server' = server /\ out' = out /\ tunnelSent' = tunnelSent
        /\ \/ buf[i]' = Append(buf[i], said[i] + 1) /\ lost' = lost
           \/ buf' = buf /\ lost'[i] = TRUE
    BY <1>0, <1>2 DEF Ws!WsData, Ws!Update, WsType, Ws!task
  <2>2. relay[i] # "none"
    BY <1>0, <2>1 DEF Unopened
  <2>3. Unopened(i)'
    BY <1>0, <2>1, <2>2 DEF Unopened
  <2>4. /\ \A k : Ws!Upto(i, k)' = Ws!Upto(i, k)
        /\ Cursor(i)' = Cursor(i)
    BY <2>1 DEF Cursor, Ws!Upto
  <2>5. (~lost[i])' => ~lost[i]
    BY <2>1
  <2>6. \A u, x : x \in (u + 1) .. said[i] => x \in (u + 1) .. said'[i]
    BY <1>t, <2>1
  <2>7. Putting(i)' /\ Intact(i)'
    BY <1>0, <2>1, <2>4, <2>5, <2>6 DEF Putting, Intact, Fragmented
  <2>8. CASE buf' = buf /\ lost'[i] = TRUE
    <3>1. \A k \in DOMAIN buf[i] : buf[i][k] <= said[i] => buf[i][k] <= said'[i]
      BY <1>t, <2>1
    <3> QED
      BY <1>0, <2>1, <2>3, <2>4, <2>7, <2>8, <3>1 DEF MessageInv, Buffered
  <2>9. CASE buf[i]' = Append(buf[i], said[i] + 1) /\ lost' = lost
    <3> DEFINE n == Len(buf[i]) + 1
    <3>1. /\ DOMAIN buf[i]' = 1 .. n /\ Len(buf[i]') = n /\ n \in Nat
          /\ buf[i]'[n] = said[i] + 1 /\ \A k \in 1 .. (n - 1) : buf[i]'[k] = buf[i][k]
      BY <1>t, <2>9
    <3> HIDE DEF n
    <3>2. \A k \in 1 .. (n - 1) : /\ buf[i][k] # 0 /\ buf[i][k] \in Nat /\ buf[i][k] <= said[i]
                                  /\ Cursor(i) < buf[i][k]
                                  /\ \A l \in 1 .. (n - 1) : l < k => buf[i][l] < buf[i][k]
      <4>1. DOMAIN buf[i] = 1 .. (n - 1)
        BY <1>t DEF n
      <4>2. \A k \in 1 .. (n - 1) : buf[i][k] # 0
        BY <1>0, <2>1, <4>1 DEF Buffered
      <4>3. \A k \in 1 .. (n - 1) : buf[i][k] \in Nat
        <5>1. \A k \in 1 .. Len(buf[i]) : buf[i][k] \in Nat
          BY <1>t
        <5> QED
          BY <1>t, <4>1, <5>1
      <4> QED
        BY <1>0, <4>1, <4>2, <4>3 DEF Buffered
    <3>a. \A k \in 1 .. n : k # n => k \in 1 .. (n - 1)
      BY <3>1
    <3>3. ASSUME NEW k \in 1 .. n
          PROVE  /\ buf[i]'[k] # 0 /\ Cursor(i) < buf[i]'[k] /\ buf[i]'[k] <= said'[i]
                 /\ \A l \in 1 .. n : l < k => buf[i]'[l] < buf[i]'[k]
      <4>1. CASE k = n
        <5>1. buf[i]'[k] = said[i] + 1 /\ said'[i] = said[i] + 1
          BY <2>1, <3>1, <4>1
        <5>2. ASSUME NEW l \in 1 .. n, l < k PROVE buf[i]'[l] < buf[i]'[k]
          <6>1. l \in 1 .. (n - 1)
            BY <3>1, <4>1, <5>2
          <6>2. buf[i]'[l] = buf[i][l] /\ buf[i][l] <= said[i] /\ buf[i][l] \in Nat
            BY <3>1, <3>2, <6>1
          <6> QED
            BY <1>t, <5>1, <6>2
        <5> QED
          BY <1>c, <1>t, <5>1, <5>2
      <4>2. CASE k # n
        BY <1>c, <1>t, <2>1, <3>1, <3>2, <4>2
      <4> QED
        BY <4>1, <4>2
    <3>4. ASSUME ~lost[i], relay[i] # "done"
          PROVE  /\ \A k \in 1 .. n : buf[i]'[k] = Cursor(i) + k
                 /\ said'[i] = Cursor(i) + n
      <4>1. said[i] = Cursor(i) + (n - 1) /\ \A k \in 1 .. (n - 1) : buf[i][k] = Cursor(i) + k
        BY <1>0, <1>t, <2>1, <3>2, <3>4 DEF Buffered, n
      <4>2. said[i] + 1 = Cursor(i) + n
        BY <1>c, <1>t, <3>1, <4>1
      <4>3. ASSUME NEW k \in 1 .. n PROVE buf[i]'[k] = Cursor(i) + k
        <5>1. CASE k = n
          BY <3>1, <4>2, <5>1
        <5>2. CASE k # n
          BY <3>1, <3>a, <4>1, <5>2
        <5> QED
          BY <5>1, <5>2
      <4> QED
        BY <2>1, <4>2, <4>3
    <3>5. Buffered(i)'
      BY <2>1, <2>4, <2>9, <3>1, <3>3, <3>4 DEF Buffered
    <3> QED
      BY <2>3, <2>7, <3>5 DEF MessageInv
  <2> QED
    BY <2>1, <2>8, <2>9
<1>3. CASE Ws!WsClose(i)
  <2>1. /\ i \in streams /\ i \notin streams' /\ said' = said /\ relay' = relay
        /\ partial' = partial /\ server' = server /\ out' = out /\ tunnelSent' = tunnelSent
        /\ lost' = lost
        /\ buf' = buf \/ buf[i]' = Append(buf[i], 0)
    BY <1>0, <1>3 DEF Ws!WsClose, Ws!Close, WsType, Ws!task
  <2>2. relay[i] # "none"
    BY <1>0, <2>1 DEF Unopened
  <2>3. Unopened(i)'
    BY <1>0, <2>1, <2>2 DEF Unopened
  <2>4. /\ \A k : Ws!Upto(i, k)' = Ws!Upto(i, k)
        /\ Cursor(i)' = Cursor(i)
    BY <2>1 DEF Cursor, Ws!Upto
  <2>5. Putting(i)' /\ Intact(i)'
    BY <1>0, <2>1, <2>4 DEF Putting, Intact, Fragmented
  <2>6. CASE buf' = buf
    BY <1>0, <2>1, <2>3, <2>4, <2>5, <2>6 DEF MessageInv, Buffered
  <2>7. CASE buf[i]' = Append(buf[i], 0)
    <3> DEFINE n == Len(buf[i]) + 1
    <3>1. /\ DOMAIN buf[i]' = 1 .. n /\ Len(buf[i]') = n /\ n \in Nat
          /\ buf[i]'[n] = 0 /\ \A k \in 1 .. (n - 1) : buf[i]'[k] = buf[i][k]
      BY <1>t, <2>7
    <3> HIDE DEF n
    <3>2. DOMAIN buf[i] = 1 .. (n - 1)
      BY <1>t DEF n
    <3>3. \A k \in 1 .. (n - 1) : buf[i][k] # 0
      BY <1>0, <2>1, <3>2 DEF Buffered
    <3>4. ASSUME NEW k \in 1 .. n, buf[i]'[k] # 0
          PROVE  /\ k \in 1 .. (n - 1) /\ buf[i]'[k] = buf[i][k]
                 /\ \A l \in 1 .. n : l < k => l \in 1 .. (n - 1) /\ buf[i]'[l] = buf[i][l]
      BY <3>1, <3>4
    <3>5. Buffered(i)'
      BY <1>0, <2>1, <2>4, <3>1, <3>2, <3>3, <3>4 DEF Buffered
    <3> QED
      BY <2>3, <2>5, <3>5 DEF MessageInv
  <2> QED
    BY <2>1, <2>6, <2>7
<1> QED
  BY <1>1, <1>2, <1>3 DEF PageStep

\* The relay connects to the server, or does not.
LEMMA OpenKeeps ==
  ASSUME WsInv, NEW i \in Tunnels, OpenStep(i)
  PROVE  MessageInv(i)'
<1>0. WsType /\ Unopened(i) /\ Buffered(i) /\ Putting(i) /\ Intact(i)
  BY DEF WsInv, MessageInv
<1>1. CASE Ws!OpenFails(i) \/ Ws!OpenOk(i)
  <2>1. /\ relay[i] = "connect" /\ relay'[i] \in {"up", "done"}
        /\ streams' = streams /\ messageState(i)' = messageState(i)
        /\ buf[i]' = buf[i] \/ (buf[i]' = <<>> /\ relay'[i] = "done")
    BY <1>0, <1>1 DEF Ws!OpenFails, Ws!OpenOk, Ws!Ends, Ws!Update, Ws!page, WsType, messageState
  <2>2. Buffered(i)' /\ Putting(i)' /\ Intact(i)'
    BY <1>0, <2>1, MessagesKept
  <2> QED
    BY <2>1, <2>2 DEF MessageInv, Unopened
<1>2. CASE Ws!OpenDrops(i)
  <2>1. /\ relay[i] = "connect" /\ relay' = relay /\ buf[i] # <<>> /\ Head(buf[i]) # 0
        /\ buf[i]' = Tail(buf[i]) /\ lost'[i] = TRUE /\ streams' = streams /\ said' = said
        /\ partial' = partial /\ server' = server /\ out' = out /\ tunnelSent' = tunnelSent
    BY <1>0, <1>2 DEF Ws!OpenDrops, Ws!Event, Ws!Close, Ws!Update, WsType, Ws!task
  <2>2. /\ \A k : Ws!Upto(i, k)' = Ws!Upto(i, k)
        /\ Cursor(i)' = Cursor(i)
    BY <2>1 DEF Cursor, Ws!Upto
  <2>3. Putting(i)' /\ Intact(i)'
    BY <1>0, <2>1, <2>2 DEF Putting, Intact, Fragmented
  <2>4. Unopened(i)'
    BY <1>0, <2>1 DEF Unopened
  <2>5. /\ Len(buf[i]) \in Nat /\ Len(buf[i]') = Len(buf[i]) - 1
        /\ \A k \in DOMAIN buf[i]' :
               k \in Nat /\ k + 1 \in DOMAIN buf[i] /\ buf[i]'[k] = buf[i][k + 1]
    BY <1>0, <2>1, BufferTail
  <2>6. Buffered(i)'
    <3> SUFFICES ASSUME NEW k \in DOMAIN buf[i]'
                 PROVE  /\ buf[i]'[k] = 0 => k = Len(buf[i]') /\ i \notin streams'
                        /\ buf[i]'[k] # 0 =>
                             /\ Cursor(i)' < buf[i]'[k] /\ buf[i]'[k] <= said'[i]
                             /\ \A l \in DOMAIN buf[i]' : l < k => buf[i]'[l] < buf[i]'[k]
      BY <2>1 DEF Buffered
    <3>1. \A l \in DOMAIN buf[i]' : l < k => l + 1 < k + 1
      BY <2>5
    <3>2. k + 1 = Len(buf[i]) => k = Len(buf[i]')
      BY <2>5
    <3> QED
      BY <1>0, <2>1, <2>2, <2>5, <3>1, <3>2 DEF Buffered
  <2> QED
    BY <2>3, <2>4, <2>6 DEF MessageInv
<1> QED
  BY <1>1, <1>2 DEF OpenStep

\* A fragment is put to those of its message, and the last one hands the message
\* over.
LEMMA DataKeeps ==
  ASSUME WsInv, NEW i \in Tunnels, Ws!RelayData(i)
  PROVE  MessageInv(i)'
<1> DEFINE h == Head(buf[i])
           m == Append(partial[i], h)
           n == Len(partial[i]) + 1
           u == Ws!Upto(i, Len(server[i]))
           fin == Script[i][h]
<1>0. WsType /\ Unopened(i) /\ Buffered(i) /\ Putting(i) /\ Intact(i)
  BY DEF WsInv, MessageInv
<1>1. /\ relay[i] = "up" /\ relay' = relay /\ buf[i] # <<>> /\ h # 0
      /\ buf[i]' = Tail(buf[i]) /\ lost' = lost /\ streams' = streams /\ said' = said
      /\ fin => partial[i]' = <<>> /\ server[i]' = Append(server[i], m)
      /\ ~fin => partial[i]' = m /\ server' = server
  BY <1>0 DEF Ws!RelayData, Ws!Idle, Ws!Event, Ws!Close, Ws!Update, WsType, Ws!page
<1>t. /\ partial[i] \in Seq(Nat) /\ server[i] \in Seq(Seq(Nat)) /\ said[i] \in Nat
      /\ Len(partial[i]) \in Nat /\ Len(server[i]) \in Nat
  BY <1>0 DEF WsType
<1>c. /\ Cursor(i) \in Nat /\ u \in Nat /\ u <= Cursor(i)
      /\ \A a \in DOMAIN partial[i] : partial[i][a] <= Cursor(i)
      /\ ~lost[i] => Cursor(i) = u + Len(partial[i])
  BY <1>0, CursorFacts
<1>2. /\ h = buf[i][1] /\ 1 \in DOMAIN buf[i] /\ h \in Nat
      /\ Len(buf[i]) \in Nat /\ Len(buf[i]') = Len(buf[i]) - 1
      /\ \A k \in DOMAIN buf[i]' :
             /\ k \in Nat /\ k + 1 \in DOMAIN buf[i] /\ buf[i]'[k] = buf[i][k + 1]
             /\ buf[i]'[k] \in Nat
             /\ buf[i]'[k] # 0 => h < buf[i]'[k]
  BY <1>0, <1>1, BufferTail
<1>3. Cursor(i) < h /\ h <= said[i] /\ (~lost[i] => h = Cursor(i) + 1)
  BY <1>0, <1>1, <1>2 DEF Buffered
<1> HIDE DEF h
<1>4. /\ m \in Seq(Nat) /\ Len(m) = n /\ n \in Nat /\ DOMAIN m = 1 .. n /\ m[n] = h
      /\ DOMAIN partial[i] = 1 .. (n - 1) /\ m # <<>>
      /\ \A a \in 1 .. (n - 1) : m[a] = partial[i][a] /\ partial[i][a] \in Nat
  <2>1. h \in Nat /\ n - 1 = Len(partial[i])
    BY <1>2, <1>t
  <2>2. /\ m \in Seq(Nat) /\ m # <<>> /\ Len(m) = n /\ DOMAIN m = 1 .. n /\ m[n] = h
        /\ DOMAIN partial[i] = 1 .. Len(partial[i])
        /\ \A a \in 1 .. Len(partial[i]) : m[a] = partial[i][a] /\ partial[i][a] \in Nat
    <3>0. m \in Seq(Nat) /\ Len(m) = n
      BY <1>t, <2>1
    <3>1. DOMAIN m = 1 .. n
      BY <3>0
    <3>6. m # <<>>
      <4>1. n # 0
        BY <1>t
      <4> QED
        BY <3>0, <4>1, EmptySeq
    <3>2. m[n] = h
      BY <1>t, <2>1
    <3>3. DOMAIN partial[i] = 1 .. Len(partial[i])
      BY <1>t
    <3>4. \A a \in 1 .. Len(partial[i]) : m[a] = partial[i][a]
      BY <1>t, <2>1
    <3>5. \A a \in 1 .. Len(partial[i]) : partial[i][a] \in Nat
      BY <1>t
    <3> QED
      BY <3>0, <3>1, <3>2, <3>3, <3>4, <3>5, <3>6
  <2>3. n \in Nat
    BY <1>t
  <2> HIDE DEF m, n
  <2> QED
    BY <2>1, <2>2, <2>3
<1>p. Fragmented(i, partial[i], u, 0)
  BY <1>0 DEF Putting
<1> HIDE DEF m, n, u, fin
<1>n. n = Len(partial[i]) + 1 /\ fin = Script[i][h] /\ u = Ws!Upto(i, Len(server[i]))
  BY DEF n, fin, u
<1>5. ASSUME NEW e, fin <=> n = e, \A a \in 1 .. (n - 1) : a # e
      PROVE  Fragmented(i, m, u, e)
  <2> SUFFICES ASSUME NEW a \in 1 .. n
               PROVE  /\ m[a] \in (u + 1) .. said[i]
                      /\ Script[i][m[a]] <=> a = e
                      /\ \A b \in 1 .. n : a < b => m[a] < m[b]
                      /\ ~lost[i] => m[a] = u + a
    BY <1>4 DEF Fragmented
  <2>1. CASE a = n
    <3>1. m[a] = h
      BY <1>4, <2>1
    <3>2. h \in (u + 1) .. said[i]
      BY <1>2, <1>3, <1>c, <1>t
    <3>3. Script[i][m[a]] <=> a = e
      BY <1>5, <1>n, <2>1, <3>1
    <3>4. \A b \in 1 .. n : ~(a < b)
      BY <1>4, <2>1
    <3>5. ~lost[i] => h = u + n
      BY <1>3, <1>c, <1>n, <1>t
    <3> QED
      BY <2>1, <3>1, <3>2, <3>3, <3>4, <3>5
  <2>2. CASE a # n
    <3>1. a \in 1 .. (n - 1) /\ m[a] = partial[i][a] /\ a \in DOMAIN partial[i] /\ a # 0
      BY <1>4, <2>2
    <3>2. /\ partial[i][a] \in (u + 1) .. said[i] /\ (~lost[i] => partial[i][a] = u + a)
          /\ Script[i][partial[i][a]] <=> a = 0
          /\ \A b \in DOMAIN partial[i] : a < b => partial[i][a] < partial[i][b]
      BY <1>p, <3>1 DEF Fragmented
    <3>3. Script[i][m[a]] <=> a = e
      BY <1>5, <3>1, <3>2
    <3>4. ASSUME NEW b \in 1 .. n, a < b PROVE m[a] < m[b]
      <4>1. CASE b = n
        <5>1. m[a] <= Cursor(i) /\ m[a] \in Nat /\ m[b] = h
          BY <1>4, <1>c, <3>1, <4>1
        <5> QED
          BY <1>2, <1>3, <1>c, <5>1
      <4>2. CASE b # n
        <5>1. b \in 1 .. (n - 1)
          BY <1>4, <4>2
        <5> QED
          BY <1>4, <3>1, <3>2, <3>4, <5>1
      <4> QED
        BY <4>1, <4>2
    <3> QED
      BY <3>1, <3>2, <3>3, <3>4
  <2> QED
    BY <2>1, <2>2
<1>6. Unopened(i)'
  BY <1>1 DEF Unopened
<1>7. Cursor(i)' = h /\ Putting(i)' /\ Intact(i)'
  <2>1. CASE fin
    <3> DEFINE s == server[i]'
    <3>0. PICK q \in Nat : q = Len(server[i]) + 1
      BY <1>t
    <3>1. s = Append(server[i], m) /\ partial[i]' = <<>>
      BY <1>1, <2>1
    <3>2. /\ DOMAIN s = 1 .. q /\ Len(s) = q /\ s[q] = m /\ q \in Nat
          /\ DOMAIN server[i] = 1 .. (q - 1) /\ \A k \in 1 .. (q - 1) : s[k] = server[i][k]
      BY <1>4, <1>t, <3>0, <3>1
    <3>3. \A k \in 0 .. (q - 1) : Ws!Upto(i, k)' = Ws!Upto(i, k)
      BY <3>2 DEF Ws!Upto
    <3>4. Ws!Upto(i, q)' = h
      <4>1. q # 0 /\ server[i]'[q] = m
        BY <1>t, <3>0, <3>2
      <4>2. Ws!Last(m) = h
        BY <1>4 DEF Ws!Last
      <4> QED
        BY <4>1, <4>2 DEF Ws!Upto
    <3>q. q - 1 = Len(server[i])
      BY <1>t, <3>0
    <3> HIDE DEF s
    <3>5. Cursor(i)' = h
      <4>1. Ws!Upto(i, Len(server[i]))' = Ws!Upto(i, q)'
        BY <3>2 DEF s, Ws!Upto
      <4> QED
        BY <3>1, <3>4, <4>1 DEF Cursor
    <3>6. Putting(i)'
      BY <3>1 DEF Putting, Fragmented
    <3>7. Fragmented(i, m, u, n)
      BY <1>4, <1>5, <2>1
    <3>8. ASSUME NEW k \in 1 .. q
          PROVE  s[k] # <<>> /\ Fragmented(i, s[k], Ws!Upto(i, k - 1)', Len(s[k]))
      <4>1. CASE k = q
        <5>1. Ws!Upto(i, k - 1)' = u
          BY <1>n, <3>2, <3>3, <3>q, <4>1
        <5> QED
          BY <1>4, <3>2, <3>7, <4>1, <5>1
      <4>2. CASE k # q
        <5>1. k \in 1 .. (q - 1) /\ k - 1 \in 0 .. (q - 1)
          BY <3>2, <4>2
        <5>2. Ws!Upto(i, k - 1)' = Ws!Upto(i, k - 1) /\ s[k] = server[i][k]
          BY <3>2, <3>3, <5>1
        <5>3. server[i][k] # <<>>
              /\ Fragmented(i, server[i][k], Ws!Upto(i, k - 1), Len(server[i][k]))
          BY <1>0, <3>2, <5>1 DEF Intact
        <5> QED
          BY <5>2, <5>3
      <4> QED
        BY <4>1, <4>2
    <3>9. Intact(i)'
      BY <1>1, <3>2, <3>8 DEF Intact, Fragmented, s
    <3> QED
      BY <3>5, <3>6, <3>9
  <2>2. CASE ~fin
    <3>1. partial[i]' = m /\ server' = server
      BY <1>1, <2>2
    <3>2. \A k : Ws!Upto(i, k)' = Ws!Upto(i, k)
      BY <3>1 DEF Ws!Upto
    <3>3. Cursor(i)' = h
      BY <1>4, <3>1 DEF Cursor
    <3>4. Fragmented(i, m, u, 0)
      BY <1>4, <1>5, <2>2, <1>n, <1>t
    <3>5. Putting(i)'
      BY <1>1, <1>n, <3>1, <3>2, <3>4 DEF Putting, Fragmented
    <3>6. Intact(i)'
      BY <1>0, <1>1, <3>1, <3>2 DEF Intact, Fragmented
    <3> QED
      BY <3>3, <3>5, <3>6
  <2> QED
    BY <2>1, <2>2
<1>8. Buffered(i)'
  <2>1. ASSUME NEW k \in DOMAIN buf[i]'
        PROVE  /\ buf[i]'[k] = 0 => k = Len(buf[i]') /\ i \notin streams
               /\ buf[i]'[k] # 0 =>
                    /\ h < buf[i]'[k] /\ buf[i]'[k] <= said[i]
                    /\ \A l \in DOMAIN buf[i]' : l < k => buf[i]'[l] < buf[i]'[k]
    <3>1. \A l \in DOMAIN buf[i]' : l < k => l + 1 < k + 1
      BY <1>2
    <3>2. k + 1 = Len(buf[i]) => k = Len(buf[i]')
      BY <1>2
    <3>3. /\ k + 1 \in DOMAIN buf[i] /\ buf[i]'[k] = buf[i][k + 1]
          /\ buf[i]'[k] # 0 => h < buf[i]'[k]
          /\ \A l \in DOMAIN buf[i]' : l + 1 \in DOMAIN buf[i] /\ buf[i]'[l] = buf[i][l + 1]
      BY <1>2
    <3> QED
      BY <1>0, <3>1, <3>2, <3>3 DEF Buffered
  <2>2. ASSUME ~lost[i]
        PROVE  /\ \A k \in DOMAIN buf[i]' : buf[i]'[k] # 0 => buf[i]'[k] = h + k
               /\ i \in streams => said[i] = h + Len(buf[i]')
    <3>1. /\ \A k \in DOMAIN buf[i] : buf[i][k] # 0 => buf[i][k] = Cursor(i) + k
          /\ i \in streams => said[i] = Cursor(i) + Len(buf[i])
      BY <1>0, <1>1, <2>2 DEF Buffered
    <3>2. h = Cursor(i) + 1
      BY <1>3, <2>2
    <3>3. ASSUME NEW k \in DOMAIN buf[i]', buf[i]'[k] # 0 PROVE buf[i]'[k] = h + k
      <4>1. k \in Nat /\ buf[i]'[k] = Cursor(i) + (k + 1)
        BY <1>2, <3>1, <3>3
      <4> QED
        BY <1>c, <3>2, <4>1
    <3>4. ASSUME i \in streams PROVE said[i] = h + Len(buf[i]')
      <4>1. said[i] = Cursor(i) + Len(buf[i])
        BY <3>1, <3>4
      <4>2. Len(buf[i]) \in Nat /\ Len(buf[i]') = Len(buf[i]) - 1
        BY <1>2
      <4> QED
        BY <1>c, <3>2, <4>1, <4>2
    <3> QED
      BY <3>3, <3>4
  <2> QED
    BY <1>1, <1>7, <2>1, <2>2 DEF Buffered
<1> QED
  BY <1>6, <1>7, <1>8 DEF MessageInv

\* The relay goes on.
LEMMA RelayKeeps ==
  ASSUME WsInv, NEW i \in Tunnels, RelayStep(i)
  PROVE  MessageInv(i)'
<1>0. WsType /\ Unopened(i) /\ Buffered(i) /\ Putting(i) /\ Intact(i)
  BY DEF WsInv, MessageInv
<1>1. CASE ~Ws!RelayData(i)
  <2>1. /\ streams' = streams /\ messageState(i)' = messageState(i)
        /\ \/ buf[i]' = buf[i] /\ (relay[i]' = relay[i] \/ relay[i] # "done")
           \/ buf[i]' = <<>> /\ relay[i]' = "done"
    BY <1>0, <1>1
       DEF RelayStep, StopStep, Ws!SendChunk, Ws!Stops, Ws!Ends, Ws!RelayAbandoned, Ws!Idle,
           Ws!ServerSpeaks, Ws!PumpSends, Ws!Update, Ws!page, WsType, messageState
  <2>2. relay[i] \notin {"none", "connect"} /\ relay[i]' \notin {"none", "connect"}
    BY <1>0, <1>1
       DEF RelayStep, StopStep, Ws!SendChunk, Ws!Stops, Ws!Ends, Ws!RelayAbandoned, Ws!Idle,
           Ws!ServerSpeaks, Ws!PumpSends, Ws!Update, WsType, Unopened
  <2>3. Buffered(i)' /\ Putting(i)' /\ Intact(i)'
    BY <1>0, <2>1, MessagesKept
  <2> QED
    BY <2>2, <2>3 DEF MessageInv, Unopened
<1> QED
  BY <1>1, DataKeeps

\* What the invariant of the frames is about.
frameState(i) == <<tunnelSent[i], out[i], relay[i], chunks[i]>>

\* Where the relay says nothing, the device gets what it would have got.
LEMMA FramesKept ==
  ASSUME NEW i \in Tunnels, FrameInv(i), frameState(i)' = frameState(i),
         tunnelOpen' => tunnelOpen
  PROVE  FrameInv(i)'
BY DEF FrameInv, Ordered, Continues, frameState

\* The relay says a frame: what is on its way still continues what was sent.
LEMMA FrameSaid ==
  ASSUME WsType, NEW i \in Tunnels, FrameInv(i), NEW f \in WsFrames,
         out[i]' = Append(out[i], f), tunnelSent[i]' = tunnelSent[i], tunnelOpen' = tunnelOpen,
         \/ /\ relay[i] = "connect" /\ out[i] = <<>> /\ tunnelSent[i] = <<>>
            /\ \/ f = "ok"
               \/ f = "error" /\ relay'[i] = "done"
         \/ /\ relay[i] = "up"
            /\ \/ f = "fin" /\ relay'[i] = "up"
               \/ f = "more" /\ relay'[i] = "up" /\ chunks'[i] # 0
               \/ f = "close" /\ relay'[i] = "done" /\ chunks[i] = 0
  PROVE  FrameInv(i)'
<1> DEFINE n == Len(out[i]) + 1
<1>1. out[i] \in Seq(WsFrames) /\ tunnelSent[i] \in Seq(WsFrames)
  BY DEF WsType
<1>2. /\ DOMAIN out[i]' = 1 .. n /\ Len(out[i]') = n /\ n \in Nat /\ n > 0
      /\ DOMAIN out[i] = 1 .. (n - 1) /\ out[i]' # <<>>
      /\ out[i]'[n] = f /\ \A k \in 1 .. (n - 1) : out[i]'[k] = out[i][k]
  BY <1>1
<1>3. Ordered(tunnelSent[i])'
  BY DEF FrameInv
<1>4. ASSUME tunnelOpen PROVE Continues(i)'
  <2>1. CASE relay[i] = "connect"
    <3>1. n = 1 /\ f \in {"ok", "error"} /\ (f = "error" => relay'[i] = "done") /\ tunnelSent[i] = <<>>
      BY <2>1
    <3> HIDE DEF n
    <3>2. \A k \in 1 .. n : out[i]'[k] = f /\ k = 1
      BY <1>2, <3>1
    <3> QED
      BY <1>2, <3>1, <3>2 DEF Continues
  <2>2. CASE relay[i] = "up"
    <3>0. Continues(i)
      BY <1>4, <2>2 DEF FrameInv
    <3>1. tunnelSent[i] = <<>> => n > 1
      <4>1. tunnelSent[i] = <<>> => out[i] # <<>>
        BY <3>0 DEF Continues
      <4> QED
        BY <1>1, <4>1
    <3>2. n = 1 <=> out[i] = <<>>
      BY <1>1
    <3>3. n - 1 = Len(out[i])
      BY <1>1
    <3> HIDE DEF n
    <3>f. /\ f \in {"fin", "more", "close"}
          /\ f = "close" => relay'[i] = "done" /\ chunks[i] = 0
          /\ f = "more" => chunks'[i] # 0
      BY <2>2
    <3>4. ASSUME NEW k \in 1 .. n
          PROVE  /\ out[i]'[k] \in {"ok", "error"} <=> (k = 1 /\ tunnelSent[i] = <<>>)
                 /\ out[i]'[k] \in {"error", "close"} => k = n /\ relay'[i] = "done"
                 /\ (out[i]'[k] = "close" /\ k > 1) => out[i]'[k - 1] # "more"
                 /\ (out[i]'[k] = "close" /\ k = 1) => tunnelSent[i][Len(tunnelSent[i])] # "more"
      <4>1. CASE k = n
        <5>1. out[i]'[k] = f /\ (k = 1 => tunnelSent[i] # <<>>)
          BY <1>2, <3>1, <4>1
        <5>2. ASSUME f = "close", k > 1 PROVE out[i]'[k - 1] # "more"
          <6>1. out[i][n - 1] # "more"
            BY <2>2, <3>0, <3>2, <3>3, <3>f, <4>1, <5>2 DEF Continues
          <6>2. n - 1 \in 1 .. (n - 1)
            BY <1>2, <4>1, <5>2
          <6> QED
            BY <1>2, <4>1, <6>1, <6>2
        <5>3. ASSUME f = "close", k = 1 PROVE tunnelSent[i][Len(tunnelSent[i])] # "more"
          BY <2>2, <3>0, <3>2, <3>f, <4>1, <5>3 DEF Continues
        <5> QED
          BY <3>f, <4>1, <5>1, <5>2, <5>3
      <4>2. CASE k # n
        <5>1. k \in 1 .. (n - 1)
          BY <1>2, <4>2
        <5>2. /\ out[i]'[k] = out[i][k] /\ k \in DOMAIN out[i]
              /\ out[i][k] \notin {"error", "close"}
              /\ out[i][k] \in {"ok", "error"} <=> (k = 1 /\ tunnelSent[i] = <<>>)
          BY <1>2, <2>2, <3>0, <5>1 DEF Continues
        <5> QED
          BY <5>2
      <4> QED
        BY <4>1, <4>2
    <3>5. \A k \in DOMAIN tunnelSent[i] : tunnelSent[i][k] \notin {"error", "close"}
      BY <2>2, <3>0 DEF Continues
    <3>6. (relay'[i] = "up" /\ chunks'[i] = 0) => out[i]'[n] # "more"
      BY <1>2, <3>f
    <3> QED
      BY <1>2, <3>4, <3>5, <3>6 DEF Continues
  <2> QED
    BY <2>1, <2>2
<1> QED
  BY <1>3, <1>4 DEF FrameInv

\* The pump sends a frame that is on its way.
LEMMA FrameSent ==
  ASSUME WsInv, NEW i \in Tunnels, Ws!PumpSends(i)
  PROVE  FrameInv(i)'
<1>0. WsType /\ Unopened(i) /\ FrameInv(i)
  BY DEF WsInv, MessageInv
<1>1. CASE ~tunnelOpen
  BY <1>0, <1>1 DEF Ws!PumpSends, FrameInv
<1>2. CASE tunnelOpen
  <2> DEFINE f == out[i][1]
             n == Len(tunnelSent[i]) + 1
  <2>1. /\ out[i] # <<>> /\ relay' = relay /\ chunks' = chunks
        /\ tunnelSent[i]' = Append(tunnelSent[i], f) /\ out[i]' = Tail(out[i])
    BY <1>0, <1>2 DEF Ws!PumpSends, WsType
  <2>2. relay[i] \in {"up", "done"}
    BY <1>0, <2>1 DEF Unopened, WsType, Ws!Relays
  <2>3. Continues(i) /\ Ordered(tunnelSent[i])
    BY <1>0, <1>2, <2>2 DEF FrameInv
  <2>t. out[i] \in Seq(WsFrames) /\ tunnelSent[i] \in Seq(WsFrames)
    BY <1>0 DEF WsType
  <2>4. /\ 1 \in DOMAIN out[i] /\ Len(out[i]) \in Nat /\ Len(out[i]) >= 1
        /\ Len(out[i]') = Len(out[i]) - 1 /\ DOMAIN out[i]' = 1 .. (Len(out[i]) - 1)
        /\ DOMAIN out[i] = 1 .. Len(out[i])
        /\ \A k \in 1 .. (Len(out[i]) - 1) : out[i]'[k] = out[i][k + 1]
    BY <2>1, <2>t
  <2>l. /\ Len(out[i]) \in Nat /\ Len(out[i]) >= 1 /\ Len(Tail(out[i])) = Len(out[i]) - 1
        /\ f \in WsFrames
    BY <2>1, <2>t
  <2> HIDE DEF f
  <2>5. /\ DOMAIN tunnelSent[i]' = 1 .. n /\ Len(tunnelSent[i]') = n /\ n \in Nat /\ n > 0
        /\ DOMAIN tunnelSent[i] = 1 .. (n - 1) /\ tunnelSent[i]' # <<>>
        /\ tunnelSent[i]'[n] = f
        /\ \A k \in 1 .. (n - 1) : tunnelSent[i]'[k] = tunnelSent[i][k]
    BY <2>1, <2>l, <2>t
  <2>6. n = 1 <=> tunnelSent[i] = <<>>
    BY <2>t
  <2>7. n - 1 = Len(tunnelSent[i])
    BY <2>t
  <2>8. out[i]' = <<>> <=> Len(out[i]) = 1
    <3>1. Tail(out[i]) \in Seq(WsFrames)
      BY <2>1, <2>t
    <3> QED
      <4>1. Tail(out[i]) = <<>> <=> Len(Tail(out[i])) = 0
        BY <3>1, EmptySeq
      <4>2. Len(out[i]) - 1 = 0 <=> Len(out[i]) = 1
        BY <2>t
      <4> QED
        BY <2>1, <2>l, <4>1, <4>2
  <2> HIDE DEF n
  <2>9. /\ f \in {"ok", "error"} <=> n = 1
        /\ f \in {"error", "close"} => Len(out[i]) = 1 /\ relay[i] = "done"
        /\ (f = "close" /\ n > 1) => tunnelSent[i][n - 1] # "more"
    BY <2>3, <2>4, <2>6, <2>7 DEF Continues, f
  <2>10. \A k \in 1 .. (n - 1) : tunnelSent[i][k] \notin {"error", "close"}
    BY <2>1, <2>3, <2>5 DEF Continues
  <2>11. ASSUME NEW k \in 1 .. n
         PROVE  /\ tunnelSent[i]'[k] \in {"error", "close"} => k = n
                /\ tunnelSent[i]'[k] \in {"ok", "error"} <=> k = 1
                /\ tunnelSent[i]'[k] = "close" => tunnelSent[i]'[k - 1] # "more"
    <3>1. CASE k = n
      <4>1. f = "close" => n > 1
        BY <2>5, <2>9
      <4>2. n > 1 => n - 1 \in 1 .. (n - 1)
        BY <2>5
      <4> QED
        BY <2>5, <2>9, <3>1, <4>1, <4>2
    <3>2. CASE k # n
      <4>1. k \in 1 .. (n - 1) /\ tunnelSent[i]'[k] = tunnelSent[i][k]
        BY <2>5, <3>2
      <4>2. tunnelSent[i][k] \in {"ok", "error"} <=> k = 1
        BY <2>3, <2>5, <4>1 DEF Ordered
      <4> QED
        BY <2>10, <4>1, <4>2
    <3> QED
      BY <3>1, <3>2
  <2>12. Ordered(tunnelSent[i])'
    BY <2>5, <2>11 DEF Ordered
  <2>13. ASSUME NEW k \in 1 .. (Len(out[i]) - 1)
         PROVE  /\ out[i]'[k] \notin {"ok", "error"}
                /\ out[i]'[k] \in {"error", "close"} => k = Len(out[i]') /\ relay[i] = "done"
                /\ (out[i]'[k] = "close" /\ k > 1) => out[i]'[k - 1] # "more"
                /\ (out[i]'[k] = "close" /\ k = 1) => f # "more"
    <3>1. k \in Nat /\ k + 1 \in DOMAIN out[i] /\ k + 1 > 1 /\ out[i]'[k] = out[i][k + 1]
      BY <2>4
    <3>2. /\ out[i][k + 1] \notin {"ok", "error"}
          /\ out[i][k + 1] \in {"error", "close"} => k + 1 = Len(out[i]) /\ relay[i] = "done"
          /\ out[i][k + 1] = "close" => out[i][(k + 1) - 1] # "more"
      BY <2>3, <3>1 DEF Continues
    <3>3. (k + 1) - 1 = k /\ (k = 1 => out[i][k] = f)
      BY <3>1 DEF f
    <3>4. k > 1 => k - 1 \in 1 .. (Len(out[i]) - 1) /\ (k - 1) + 1 = k
      BY <2>4, <3>1
    <3>5. k > 1 => out[i]'[k - 1] = out[i][k]
      BY <2>4, <3>4
    <3>6. k + 1 = Len(out[i]) => k = Len(out[i]')
      BY <2>4, <3>1
    <3> QED
      BY <3>1, <3>2, <3>3, <3>5, <3>6
  <2>14. \A k \in 1 .. n : tunnelSent[i]'[k] \in {"error", "close"} => out[i]' = <<>> /\ relay[i] = "done"
    <3> SUFFICES ASSUME NEW k \in 1 .. n, tunnelSent[i]'[k] \in {"error", "close"}
                 PROVE  out[i]' = <<>> /\ relay[i] = "done"
      OBVIOUS
    <3>1. k = n
      BY <2>11
    <3> QED
      BY <2>5, <2>8, <2>9, <3>1
  <2>15. ASSUME relay[i] = "up", chunks[i] = 0
         PROVE  IF out[i]' = <<>> THEN f # "more" ELSE out[i]'[Len(out[i]')] # "more"
    <3>1. out[i][Len(out[i])] # "more"
      BY <2>1, <2>3, <2>15 DEF Continues
    <3>2. CASE Len(out[i]) = 1
      BY <2>8, <3>1, <3>2 DEF f
    <3>3. CASE Len(out[i]) # 1
      <4>1. Len(out[i]) - 1 \in 1 .. (Len(out[i]) - 1) /\ (Len(out[i]) - 1) + 1 = Len(out[i])
        <5>1. \A l \in Nat : (l >= 1 /\ l # 1) => l - 1 \in 1 .. (l - 1) /\ (l - 1) + 1 = l
          OBVIOUS
        <5> QED
          BY <2>l, <3>3, <5>1
      <4> QED
        BY <2>4, <2>8, <3>1, <3>3, <4>1
    <3> QED
      BY <3>2, <3>3
  <2>16. Continues(i)'
    BY <2>1, <2>4, <2>5, <2>13, <2>14, <2>15 DEF Continues
  <2> QED
    BY <2>12, <2>16 DEF FrameInv
<1> QED
  BY <1>1, <1>2

\* The steps on a tunnel keep what the device gets of it in order.
LEMMA FrameKeeps ==
  ASSUME WsInv, NEW i \in Tunnels, TunnelStep(i)
  PROVE  FrameInv(i)'
<1>0. WsType /\ Unopened(i) /\ FrameInv(i)
  BY DEF WsInv, MessageInv
<1>f. /\ "error" \in WsFrames /\ "ok" \in WsFrames /\ "close" \in WsFrames
      /\ "fin" \in WsFrames /\ "more" \in WsFrames
  BY DEF WsFrames
<1>t. relay \in [Tunnels -> Ws!Relays] /\ out \in [Tunnels -> Seq(WsFrames)]
      /\ chunks \in [Tunnels -> Nat] /\ tunnelSent \in [Tunnels -> Seq(WsFrames)]
  BY <1>0 DEF WsType
<1>1. CASE Ws!WsOpen(i)
  <2>1. /\ relay[i] = "none" /\ tunnelSent[i] = <<>> /\ relay'[i] \in {"none", "connect"}
        /\ tunnelSent'[i] \in {<<>>, <<"error">>}
    BY <1>1, <1>t DEF Ws!WsOpen, Ws!Update
  <2>2. Ordered(<<>>) /\ Ordered(<<"error">>)
    BY DEF Ordered
  <2> QED
    BY <2>1, <2>2 DEF FrameInv
<1>2. CASE Ws!WsData(i) \/ Ws!WsClose(i) \/ Ws!OpenDrops(i) \/ Ws!RelayData(i)
  <2>1. frameState(i)' = frameState(i) /\ tunnelOpen' = tunnelOpen
    BY <1>2 DEF Ws!WsData, Ws!WsClose, Ws!OpenDrops, Ws!RelayData, Ws!task, frameState
  <2> QED
    BY <1>0, <2>1, FramesKept
<1>3. CASE Ws!OpenFails(i)
  <2>1. /\ relay[i] = "connect" /\ relay'[i] = "done" /\ out[i]' = Append(out[i], "error")
        /\ tunnelSent' = tunnelSent /\ tunnelOpen' = tunnelOpen
    BY <1>3, <1>t DEF Ws!OpenFails, Ws!Ends, Ws!Update
  <2>2. out[i] = <<>> /\ tunnelSent[i] = <<>>
    BY <1>0, <2>1 DEF Unopened
  <2> QED
    BY <1>0, <1>f, <2>1, <2>2, FrameSaid
<1>4. CASE Ws!OpenOk(i)
  <2>1. /\ relay[i] = "connect" /\ relay'[i] = "up" /\ out[i]' = Append(out[i], "ok")
        /\ tunnelSent' = tunnelSent /\ tunnelOpen' = tunnelOpen
    BY <1>4, <1>t DEF Ws!OpenOk, Ws!Update
  <2>2. out[i] = <<>> /\ tunnelSent[i] = <<>>
    BY <1>0, <2>1 DEF Unopened
  <2> QED
    BY <1>0, <1>f, <2>1, <2>2, FrameSaid
<1>5. CASE Ws!SendChunk(i)
  <2>1. CASE ~tunnelOpen
    BY <1>0, <1>5, <2>1 DEF Ws!SendChunk, FrameInv
  <2>2. CASE tunnelOpen
    <3>1. /\ relay[i] = "up" /\ relay' = relay /\ tunnelSent' = tunnelSent
          /\ tunnelOpen' = tunnelOpen /\ chunks'[i] = chunks[i] - 1
          /\ out[i]' = Append(out[i], IF chunks[i] = 1 THEN "fin" ELSE "more")
      BY <1>5, <1>t, <2>2 DEF Ws!SendChunk
    <3>2. CASE chunks[i] = 1
      BY <1>0, <1>f, <3>1, <3>2, FrameSaid
    <3>3. CASE chunks[i] # 1
      <4>1. chunks'[i] # 0
        BY <1>t, <3>1, <3>3
      <4> QED
        BY <1>0, <1>f, <3>1, <3>3, <4>1, FrameSaid
    <3> QED
      BY <3>2, <3>3
  <2> QED
    BY <2>1, <2>2
<1>6. CASE StopStep(i)
  <2>1. /\ relay[i] = "up" /\ chunks[i] = 0 /\ relay'[i] = "done" /\ tunnelSent' = tunnelSent
        /\ tunnelOpen' = tunnelOpen /\ out[i]' = Append(out[i], "close")
    BY <1>6, <1>t DEF StopStep, Ws!Idle, Ws!Stops, Ws!Ends, Ws!Update
  <2> QED
    BY <1>0, <1>f, <2>1, FrameSaid
<1>7. CASE Ws!RelayAbandoned(i)
  <2>1. /\ relay[i] = "up" /\ relay'[i] = "done" /\ tunnelSent' = tunnelSent /\ out' = out
        /\ tunnelOpen' = tunnelOpen
    BY <1>7, <1>t DEF Ws!RelayAbandoned, Ws!Idle, Ws!Update
  <2> QED
    BY <1>0, <2>1 DEF FrameInv, Continues, Ordered
<1>8. CASE Ws!ServerSpeaks(i)
  <2>1. /\ relay[i] = "up" /\ relay' = relay /\ tunnelSent' = tunnelSent /\ out' = out
        /\ tunnelOpen' = tunnelOpen /\ chunks'[i] # 0
    BY <1>8, <1>t DEF Ws!ServerSpeaks, Ws!Idle, Ws!Update
  <2> QED
    BY <1>0, <2>1 DEF FrameInv, Continues, Ordered
<1> QED
  BY <1>1, <1>2, <1>3, <1>4, <1>5, <1>6, <1>7, <1>8, FrameSent
     DEF TunnelStep, PageStep, OpenStep, RelayStep

\* A step on one tunnel leaves the others alone.
LEMMA OtherTunnels ==
  ASSUME WsType, NEW i \in Tunnels, TunnelStep(i), NEW j \in Tunnels, j # i
  PROVE  /\ messageState(j)' = messageState(j) /\ frameState(j)' = frameState(j)
         /\ buf[j]' = buf[j] /\ (j \in streams' => j \in streams) /\ tunnelOpen' = tunnelOpen
<1> USE DEF WsType, Ws!Update, messageState, frameState, Ws!page, Ws!task
<1>1. CASE PageStep(i)
  BY <1>1 DEF PageStep, Ws!WsOpen, Ws!WsData, Ws!WsClose, Ws!Reaped
<1>2. CASE OpenStep(i)
  BY <1>2 DEF OpenStep, Ws!OpenFails, Ws!OpenDrops, Ws!OpenOk, Ws!Ends
<1>3. CASE RelayStep(i)
  BY <1>3
     DEF RelayStep, StopStep, Ws!SendChunk, Ws!RelayData, Ws!Stops, Ws!Ends, Ws!RelayAbandoned,
         Ws!ServerSpeaks, Ws!PumpSends
<1> QED
  BY <1>1, <1>2, <1>3 DEF TunnelStep

\* No tunnel is open yet.
LEMMA WsInit == Ws!Init => WsInv
<1> SUFFICES ASSUME Ws!Init PROVE WsInv
  OBVIOUS
<1>1. WsType
  BY DEF Ws!Init, WsType, Ws!Relays
<1>2. ASSUME NEW i \in Tunnels PROVE MessageInv(i) /\ FrameInv(i)
  BY DEF Ws!Init, MessageInv, Unopened, Buffered, Putting, Intact, Fragmented, FrameInv, Ordered
<1> QED
  BY <1>1, <1>2 DEF WsInv

\* A tunnel that a step leaves alone keeps its invariant.
LEMMA TunnelKept ==
  ASSUME WsInv, NEW j \in Tunnels, messageState(j)' = messageState(j),
         frameState(j)' = frameState(j), buf[j]' = buf[j], j \in streams' => j \in streams,
         tunnelOpen' => tunnelOpen
  PROVE  MessageInv(j)' /\ FrameInv(j)'
<1>1. Unopened(j) /\ Buffered(j) /\ Putting(j) /\ Intact(j) /\ FrameInv(j)
  BY DEF WsInv, MessageInv
<1>2. Unopened(j)'
  BY <1>1 DEF Unopened, messageState, frameState
<1>3. Buffered(j)' /\ Putting(j)' /\ Intact(j)'
  BY <1>1, MessagesKept DEF frameState
<1> QED
  BY <1>1, <1>2, <1>3, FramesKept DEF MessageInv

\* Every step of WsTunnel keeps the invariant.
LEMMA WsStep == WsInv /\ [Ws!Next]_(Ws!vars) => WsInv'
<1> SUFFICES ASSUME WsInv, [Ws!Next]_(Ws!vars) PROVE WsInv'
  OBVIOUS
<1>1. WsType /\ WsType'
  BY WsTypeStep DEF WsInv
<1>2. ASSUME NEW j \in Tunnels PROVE MessageInv(j)' /\ FrameInv(j)'
  <2>1. CASE UNCHANGED Ws!vars
    BY <2>1, TunnelKept DEF Ws!vars, Ws!page, Ws!task, messageState, frameState
  <2>2. CASE Ws!Shutdown
    BY <2>2, TunnelKept DEF Ws!Shutdown, Ws!task, messageState, frameState
  <2>3. ASSUME NEW i \in Tunnels, TunnelStep(i) PROVE MessageInv(j)' /\ FrameInv(j)'
    <3>1. CASE j = i
      BY <2>3, <3>1, PageKeeps, OpenKeeps, RelayKeeps, FrameKeeps DEF TunnelStep
    <3>2. CASE j # i
      BY <1>1, <2>3, <3>2, OtherTunnels, TunnelKept
    <3> QED
      BY <3>1, <3>2
  <2> QED
    BY <2>1, <2>2, <2>3, WsNext
<1> QED
  BY <1>1, <1>2 DEF WsInv

\* Whatever the page, the server, the select loop and the relay do in whatever
\* order, the server gets the page's messages in order, whole as long as no
\* fragment was dropped, and the device whole messages and at most one close
\* (ws_forward.rs 77, 301-363).
THEOREM WsTunnelSound ==
  Ws!Init /\ [][Ws!Next]_(Ws!vars) => [](Ws!MessagesIntact /\ Ws!FramesInOrder)
<1>1. WsInv => Ws!MessagesIntact /\ Ws!FramesInOrder
  BY DEF WsInv, MessageInv, Intact, Fragmented, FrameInv, Ordered, Ws!MessagesIntact,
         Ws!FramesInOrder
<1> QED
  BY WsInit, WsStep, <1>1, PTL

-----------------------------------------------------------------------------
(* The composition.                                                        *)

\* Each component of the composition behaves as its own specification says, but
\* for the fairness of the forwarding tasks, which no invariant needs.
LEMMA Components ==
  Spec => /\ Channels!Spec /\ Signed!Spec /\ Cipher!Spec /\ Local!Spec /\ Control!Spec
          /\ Http!Init /\ [][Http!Next]_(Http!vars)
          /\ Ws!Init /\ [][Ws!Next]_(Ws!vars)
<1>1. Init => /\ Channels!Init /\ Signed!Init /\ Cipher!Init /\ Local!Init /\ Control!Init
              /\ Http!Init /\ Ws!Init
  BY DEF Init
<1>2. [Next]_vars => [Channels!Next]_(Channels!vars)
  BY DEF Next, Stay, vars, channelsVars, Channels!vars, Channels!channelVars, Channels!authVars,
         Channels!trustVars
<1>3. [Next]_vars => [Signed!Next]_(Signed!vars)
  BY DEF Next, Stay, vars, signedVars, Signed!vars
<1>4. [Next]_vars => [Cipher!Next]_(Cipher!vars)
  BY DEF Next, Stay, vars, cipherVars, Cipher!vars
<1>5. [Next]_vars => [Local!Next]_(Local!vars)
  BY DEF Next, Stay, vars, localVars, Local!vars, Local!command, Local!daemon, Local!shell
<1>6. [Next]_vars => [Control!Next]_(Control!vars)
  BY DEF Next, Stay, vars, controlVars, Control!vars
<1>7. [Next]_vars => [Http!Next]_(Http!vars)
  BY DEF Next, Stay, vars, httpVars, Http!vars, Http!requests, Http!tasks
<1>8. [Next]_vars => [Ws!Next]_(Ws!vars)
  BY DEF Next, Stay, vars, wsVars, Ws!vars, Ws!page, Ws!task
<1> QED
  BY <1>1, <1>2, <1>3, <1>4, <1>5, <1>6, <1>7, <1>8, PTL
     DEF Spec, Channels!Spec, Signed!Spec, Cipher!Spec, Local!Spec, Control!Spec

\* No more requests run than the cap allows, a response reaches the device whole
\* or as an error, and no tunnel mixes up, repeats or cuts a message
\* (http_forward.rs 679-834, 1152-1247; ws_forward.rs 301-363).
THEOREM ForwardingIsSound == Spec => []ForwardingSound
<1>1. Http!LoadBounded /\ Http!ResponseWhole /\ Ws!MessagesIntact /\ Ws!FramesInOrder
        => ForwardingSound
  BY DEF ForwardingSound
<1> QED
  BY Components, HttpForwardSound, WsTunnelSound, <1>1, PTL

\* What the run channels checks, for every value of the constants.
THEOREM ChannelsSound ==
  Spec => [](/\ AuthSound /\ HttpPerChannel /\ HandledOnce /\ CipherSound
             /\ LocalClientsServed /\ WatchdogSound /\ ForwardingSound)
BY Components, ChannelsAuthSound, ChannelsHttpSound, SignedHandledOnce, CipherInOrderOnce,
   LocalServed, ControlWatchdog, ForwardingIsSound, PTL

=============================================================================
