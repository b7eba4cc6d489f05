----------------------------- MODULE Host_proofs -----------------------------
(***************************************************************************)
(* Proofs about the components of MCHost, each for every value of its      *)
(* constants that its assumption admits.  The theorems are about the       *)
(* specifications of the components; the last section carries them over to *)
(* the composition that TLC checks.                                        *)
(***************************************************************************)
EXTENDS MCHost, FiniteSetTheorems, SequenceTheorems, TLAPS

-----------------------------------------------------------------------------
(* ExposedPorts: which ports outlast a restart.                            *)

\* A list that is persistent only where the operator has asked for it.
TypedOnly(list) == \A n \in Ports : list[n] = "persistent" => n \in portsTyped \ {0}

\* The file is such a list, every list that a writer has read is, and what it is
\* about to change keeps it one.
PortsInv ==
    /\ Exposed!TypeOK
    /\ TypedOnly(portsFile)
    /\ \A w \in Exposed!Writers :
          /\ TypedOnly(portsOp[w].read)
          /\ portsOp[w].as = "persistent" => portsOp[w].port \in portsTyped \ {0}

\* The invariant holds before any writer has begun.
LEMMA PortsInit == Exposed!Init => PortsInv
BY PortsAssumption
   DEF Exposed!PortsAssumption, Exposed!Init, PortsInv, TypedOnly, Exposed!TypeOK, Exposed!Listed,
       Exposed!Empty, Exposed!Idle, Exposed!Writers

\* A writer that begins keeps the invariant, with an operation that has read the
\* file, or none.
LEMMA PortsBegins ==
  ASSUME PortsInv, NEW w \in Exposed!Writers, Exposed!Begins(w), UNCHANGED portsFile,
         NEW o \in [do : {"idle", "set", "purge"}, port : Ports \cup {0},
                    as : {"none", "ephemeral", "persistent"}, read : Exposed!Listed],
         portsOp' = [portsOp EXCEPT ![w] = o],
         o = Exposed!Idle \/ o.read = portsFile,
         portsTyped \subseteq portsTyped', portsTyped' \subseteq Ports,
         o.as = "persistent" => o.port \in portsTyped' \ {0}
  PROVE  PortsInv'
<1>1. ops' \in 0..OpMax
  BY PortsAssumption DEF PortsInv, Exposed!TypeOK, Exposed!Begins, Exposed!PortsAssumption
<1>2. Exposed!TypeOK'
  BY <1>1 DEF PortsInv, Exposed!TypeOK
<1>3. TypedOnly(portsFile)'
  BY DEF PortsInv, TypedOnly
<1>4. ASSUME NEW v \in Exposed!Writers
      PROVE  /\ TypedOnly(portsOp[v].read)'
             /\ portsOp'[v].as = "persistent" => portsOp'[v].port \in portsTyped' \ {0}
  <2>1. CASE v = w
    <3>1. portsOp'[v] = o
      BY <2>1 DEF PortsInv, Exposed!TypeOK
    <3>2. \A n \in Ports : o.read[n] = "persistent" => n \in portsTyped' \ {0}
      BY DEF PortsInv, TypedOnly, Exposed!Idle, Exposed!Empty
    <3> QED
      BY <3>1, <3>2 DEF TypedOnly
  <2>2. CASE v # w
    <3>1. portsOp'[v] = portsOp[v]
      BY <2>2 DEF PortsInv, Exposed!TypeOK
    <3> QED
      BY <3>1 DEF PortsInv, TypedOnly
  <2> QED
    BY <2>1, <2>2
<1> QED
  BY <1>2, <1>3, <1>4 DEF PortsInv

\* Every step of the writers keeps the invariant.
LEMMA PortsStep == PortsInv /\ [Exposed!Next]_(Exposed!vars) => PortsInv'
<1> SUFFICES ASSUME PortsInv, [Exposed!Next]_(Exposed!vars)
             PROVE  PortsInv'
  OBVIOUS
<1> DEFINE Op == [do : {"idle", "set", "purge"}, port : Ports \cup {0},
                  as : {"none", "ephemeral", "persistent"}, read : Exposed!Listed]
<1>0. portsFile \in Exposed!Listed /\ Exposed!Idle \in Op
  BY DEF PortsInv, Exposed!TypeOK, Exposed!Idle, Exposed!Empty, Exposed!Listed
<1>1. ASSUME NEW w \in {"cli", "rpc"}, NEW n \in Ports, NEW as \in {"ephemeral", "persistent"},
             Exposed!Add(w, n, as), as = "persistent" => w = "cli"
      PROVE  PortsInv'
  <2> DEFINE o == [do |-> "set", port |-> n, as |-> as, read |-> portsFile]
  <2>1. o \in Op /\ o.read = portsFile /\ w \in Exposed!Writers
    BY <1>0 DEF Exposed!Writers
  <2>2. /\ Exposed!Begins(w) /\ UNCHANGED portsFile /\ portsOp' = [portsOp EXCEPT ![w] = o]
        /\ portsTyped \subseteq portsTyped' /\ portsTyped' \subseteq Ports
        /\ o.as = "persistent" => o.port \in portsTyped' \ {0}
    BY <1>1 DEF Exposed!Add, PortsInv, Exposed!TypeOK
  <2> QED
    BY <2>1, <2>2, PortsBegins
<1>2. ASSUME NEW w \in {"cli", "rpc"}, NEW n \in Ports, Exposed!Remove(w, n)
      PROVE  PortsInv'
  <2> DEFINE o == IF portsFile[n] = "none" THEN Exposed!Idle
                  ELSE [do |-> "set", port |-> n, as |-> "none", read |-> portsFile]
  <2>1. o \in Op /\ (o = Exposed!Idle \/ o.read = portsFile) /\ w \in Exposed!Writers
    BY <1>0 DEF Exposed!Writers
  <2>2. /\ Exposed!Begins(w) /\ UNCHANGED portsFile /\ portsOp' = [portsOp EXCEPT ![w] = o]
        /\ portsTyped \subseteq portsTyped' /\ portsTyped' \subseteq Ports
    BY <1>2 DEF Exposed!Remove, PortsInv, Exposed!TypeOK
  <2>3. o.as = "none"
    BY DEF Exposed!Idle
  <2> QED
    BY <2>1, <2>2, <2>3, PortsBegins
<1>3. ASSUME Exposed!Purge
      PROVE  PortsInv'
  <2> DEFINE o == IF \E n \in Ports : portsFile[n] = "ephemeral"
                  THEN [do |-> "purge", port |-> 0, as |-> "none", read |-> portsFile]
                  ELSE Exposed!Idle
  <2>1. o \in Op /\ (o = Exposed!Idle \/ o.read = portsFile) /\ "boot" \in Exposed!Writers
    BY <1>0 DEF Exposed!Writers
  <2>2. /\ Exposed!Begins("boot") /\ UNCHANGED portsFile /\ portsOp' = [portsOp EXCEPT !["boot"] = o]
        /\ portsTyped \subseteq portsTyped' /\ portsTyped' \subseteq Ports
    BY <1>3 DEF Exposed!Purge, PortsInv, Exposed!TypeOK
  <2>3. o.as = "none"
    BY DEF Exposed!Idle
  <2> QED
    BY <2>1, <2>2, <2>3, PortsBegins
<1>4. ASSUME NEW w \in Exposed!Writers, portsOp' = [portsOp EXCEPT ![w] = Exposed!Idle],
             UNCHANGED <<portsTyped, ops>>, portsFile' \in Exposed!Listed, TypedOnly(portsFile')
      PROVE  PortsInv'
  <2>1. Exposed!TypeOK'
    BY <1>0, <1>4 DEF PortsInv, Exposed!TypeOK
  <2>2. \A n \in Ports : Exposed!Idle.read[n] # "persistent"
    BY DEF Exposed!Idle, Exposed!Empty
  <2>3. \A v \in Exposed!Writers : portsOp'[v] = IF v = w THEN Exposed!Idle ELSE portsOp[v]
    BY <1>4 DEF PortsInv, Exposed!TypeOK
  <2>4. Exposed!Idle.as = "none"
    BY DEF Exposed!Idle
  <2> QED
    BY <1>4, <2>1, <2>2, <2>3, <2>4 DEF PortsInv, TypedOnly
<1>5. ASSUME NEW w \in Exposed!Writers, Exposed!Write(w)
      PROVE  PortsInv'
  <2>1. portsOp[w] \in Op
    BY DEF PortsInv, Exposed!TypeOK
  <2>2. portsOp[w].read \in Exposed!Listed /\ TypedOnly(portsOp[w].read)
    BY <2>1 DEF PortsInv
  <2>3. CASE portsOp[w].do = "purge"
    <3>1. portsFile' = Exposed!Kept(portsOp[w].read)
      BY <1>5, <2>3 DEF Exposed!Write
    <3>2. portsFile' \in Exposed!Listed /\ TypedOnly(portsFile')
      BY <3>1, <2>2 DEF Exposed!Kept, Exposed!Listed, TypedOnly
    <3> QED
      BY <1>4, <1>5, <3>2 DEF Exposed!Write
  <2>4. CASE portsOp[w].do # "purge"
    <3>1. portsFile' = [portsOp[w].read EXCEPT ![portsOp[w].port] = portsOp[w].as]
      BY <1>5, <2>4 DEF Exposed!Write
    <3>2. portsFile' \in Exposed!Listed
      BY <3>1, <2>1, <2>2 DEF Exposed!Listed
    <3>3. TypedOnly(portsFile')
      BY <3>1, <2>1, <2>2 DEF PortsInv, Exposed!Listed, TypedOnly
    <3> QED
      BY <1>4, <1>5, <3>2, <3>3 DEF Exposed!Write
  <2> QED
    BY <2>3, <2>4
<1>6. ASSUME NEW w \in Exposed!Writers, Exposed!WriteFails(w)
      PROVE  PortsInv'
  <2>1. portsFile' \in Exposed!Listed /\ TypedOnly(portsFile')
    BY <1>0, <1>6 DEF PortsInv, Exposed!WriteFails
  <2> QED
    BY <1>4, <1>6, <2>1 DEF Exposed!WriteFails
<1>7. CASE UNCHANGED Exposed!vars
  BY <1>7 DEF Exposed!vars, PortsInv, TypedOnly, Exposed!TypeOK
<1>8. CASE Exposed!Next
  BY <1>1, <1>2, <1>3, <1>5, <1>6, <1>8
     DEF Exposed!Next, Exposed!Expose, Exposed!HandleExposePort
<1> QED
  BY <1>7, <1>8

\* However the CLI, the phone and starting daemons rewrite the list over each
\* other, and whichever writes fail, a port stays listed over a restart only if
\* the operator asked for that on the host, and port 0 never is: for every set
\* of ports and any number of operations (exposed_ports.rs 85-140, rpc.rs).
THEOREM PhonePortsDoNotLast == Exposed!Spec => []PersistentOnlyTyped
<1>1. PortsInv => PersistentOnlyTyped
  BY DEF PortsInv, TypedOnly, PersistentOnlyTyped, Exposed!PersistentOnlyTyped
<1> QED
  BY PortsInit, PortsStep, <1>1, PTL DEF Exposed!Spec

-----------------------------------------------------------------------------
(* Attention: when the phone is called.                                    *)

\* An event is armed only while there is input to answer for, none has fired
\* for that input, and the time left with the time of silence is a quiet period.
MarksInv ==
    /\ fire_in \in Nat /\ quiet_for \in 0..QuietFor
    /\ input_age \in Nat \cup {Marks!Never}
    /\ input_age # Marks!Never => raised = 0
    /\ armed # Marks!None => input_age # Marks!Never /\ fire_in + quiet_for >= QuietFor

\* Every step of the reader, the tick and the user keeps the invariant.
LEMMA MarksStep == MarksInv /\ [Marks!Next]_(Marks!vars) => MarksInv'
<1> SUFFICES ASSUME MarksInv, [Marks!Next]_(Marks!vars)
             PROVE  MarksInv'
  OBVIOUS
<1> USE AttentionAssumption DEF Marks!AttentionAssumption
<1>1. ASSUME NEW chunk \in Chunks, Marks!OnBytes(chunk)
      PROVE  MarksInv'
  <2>1. CASE input_age = Marks!Never
    BY <1>1, <2>1 DEF Marks!OnBytes, Marks!debouncer, MarksInv
  <2>2. CASE input_age # Marks!Never
    <3>1. /\ quiet_for' = 0 /\ UNCHANGED <<input_age, raised>>
          /\ armed' = Marks!None => fire_in' = 0
          /\ armed' # Marks!None => fire_in' = QuietFor
      BY <1>1, <2>2 DEF Marks!OnBytes, Marks!OnOutput
    <3> QED
      BY <2>2, <3>1 DEF MarksInv
  <2> QED
    BY <2>1, <2>2
<1>2. CASE Marks!NoteUserInput
  BY <1>2 DEF Marks!NoteUserInput, Marks!debouncer, MarksInv, Marks!Never
<1>3. CASE Marks!TakeReady
  BY <1>3 DEF Marks!TakeReady, MarksInv
<1>4. CASE Marks!Tick
  <2>1. input_age' \in Nat \cup {Marks!Never} /\ (input_age' = Marks!Never <=> input_age = Marks!Never)
    BY <1>4 DEF Marks!Tick, Marks!Older, Marks!AtMost, MarksInv, Marks!Never
  <2>2. fire_in' \in Nat /\ quiet_for' \in 0..QuietFor
    BY <1>4 DEF Marks!Tick, Marks!AtMost, MarksInv
  <2>3. fire_in + quiet_for >= QuietFor => fire_in' + quiet_for' >= QuietFor
    BY <1>4 DEF Marks!Tick, Marks!AtMost, MarksInv
  <2> QED
    BY <1>4, <2>1, <2>2, <2>3 DEF Marks!Tick, MarksInv
<1>5. CASE UNCHANGED Marks!vars
  BY <1>5 DEF Marks!vars, MarksInv
<1> QED
  BY <1>1, <1>2, <1>3, <1>4, <1>5 DEF Marks!Next

\* An armed event waits for a full quiet period without any output, and at most
\* one fires for a submitted line, for every chunking of the output, limit and
\* period (terminal_marks.rs 405-599).
THEOREM AttentionIsEarned == Marks!Spec => []AttentionEarned
<1>1. Marks!Init => MarksInv
  BY AttentionAssumption DEF Marks!AttentionAssumption, Marks!Init, MarksInv
<1>2. MarksInv => AttentionEarned
  BY DEF MarksInv, AttentionEarned, Marks!AttentionEarned
<1> QED
  BY <1>1, <1>2, MarksStep, PTL DEF Marks!Spec

-----------------------------------------------------------------------------
(* HostTransfer: whose answer, whose file.                                 *)

\* What the source sends, and what its loop hears of.
Frames == {"start", "chunk", "end"}
SourceEvents ==
    {Transfer!Cleanup} \cup {Transfer!Failed(a) : a \in Attempts} \cup {Transfer!Done(a) : a \in Attempts}

\* 1 if the last frame on the wire is the end of the file.
Ends(w) == IF w # <<>> /\ w[Len(w)] = "end" THEN 1 ELSE 0

\* The frames w of an open channel, where rd chunks were read by a task that is
\* at tk, and wr of them were written: the start comes first and the end last, and what is
\* written with what is on the wire is what was read.
Wired(w, tk, rd, wr) ==
    /\ \A i \in 1..Len(w) : w[i] = "start" => i = 1 /\ wr = -1
    /\ \A i \in 1..Len(w) : w[i] = "end" => i = Len(w) /\ tk \in {"await", "done"}
    /\ wr # -1 => wr + Len(w) - Ends(w) = rd
    /\ w # <<>> /\ w[1] = "start" => Len(w) - 1 - Ends(w) = rd

\* One attempt: its channel c, who heard it close, and the rest as above.
AttemptSound(c, h, w, tk, rd, wr) ==
    /\ c \in {"none", "offered", "connecting"} => tk = "idle" /\ rd = 0 /\ wr = -1
    /\ c # "open" => w = <<>>
    /\ "dst" \in h => c = "closed"
    /\ c = "open" => tk # "idle" /\ Wired(w, tk, rd, wr)

Attempted(a) == AttemptSound(chan[a], heard[a], wire[a], sending[a], read[a], upload[a])

\* An attempt that was not requested has left no trace.
Unrequested(a) ==
    /\ chan[a] = "none" /\ out # a /\ inb # a
    /\ <<"offer", a>> \notin net /\ <<"answer", a>> \notin net

SignalTypes ==
    /\ out \in Attempts \cup {0} /\ inb \in Attempts \cup {0} /\ requested \in Nat
    /\ answer \in [Attempts -> Attempts \cup {0}]

ChannelTypes ==
    /\ chan \in [Attempts -> {"none", "offered", "connecting", "open", "closed"}]
    /\ heard \in [Attempts -> SUBSET {"src", "dst"}]
    /\ wire \in [Attempts -> Seq(Frames)] /\ back \in [Attempts -> Seq({"ok", "error"})]

SourceTypes ==
    /\ sending \in [Attempts -> {"idle", "sending", "await", "done"}]
    /\ read \in [Attempts -> Nat] /\ slot \in [Attempts -> {"empty", "ok", "error"}]

TargetTypes ==
    /\ upload \in [Attempts -> Nat \cup {-1}] /\ tmp \subseteq Attempts
    /\ file \in [by : Attempts \cup {0}, size : Nat]

TransferTypes ==
    SignalTypes /\ ChannelTypes /\ SourceTypes /\ TargetTypes /\ srcEvents \in Seq(SourceEvents)

\* The destination is of an attempt whose file was read to its end.
FileRead ==
    file.by # 0 => sending[file.by] \in {"await", "done"} /\ file.size = read[file.by]

\* Nobody has heard of a success while the destination is the file of before.
NoOk ==
    /\ \A a \in Attempts : slot[a] # "ok" /\ \A i \in 1..Len(back[a]) : back[a][i] # "ok"
    /\ \A a \in Attempts, i \in 1..Len(srcEvents) : srcEvents[i] # Transfer!Done(a)
    /\ \A a \in Attempts : <<"ok", a>> \notin results

\* The inductive invariant of HostTransfer.
TransferInv ==
    /\ TransferTypes
    /\ \A a \in Attempts : Attempted(a) /\ (a > requested => Unrequested(a))
    /\ FileRead /\ (file.by = 0 => NoOk)
    /\ Transfer!AnswersMatch /\ Transfer!NoTmpLeft

\* The invariant holds before the first request.
LEMMA TransferInit == Transfer!Init => TransferInv
<1> SUFFICES ASSUME Transfer!Init PROVE TransferInv
  OBVIOUS
<1> USE TransferAssumption DEF Transfer!TransferAssumption, Transfer!Init
<1>1. TransferTypes
  BY DEF TransferTypes, SignalTypes, ChannelTypes, SourceTypes, TargetTypes
<1>2. \A a \in Attempts : Attempted(a) /\ Unrequested(a)
  BY DEF Attempted, AttemptSound, Unrequested
<1> QED
  BY <1>1, <1>2 DEF TransferInv, FileRead, NoOk, Transfer!AnswersMatch, Transfer!NoTmpLeft

\* A frame that is sent while the file is read keeps the wire sound.
LEMMA WireSent ==
  ASSUME NEW w \in Seq(Frames), NEW rd \in Nat, NEW wr \in Nat \cup {-1},
         Wired(w, "sending", rd, wr)
  PROVE  /\ Wired(Append(w, "chunk"), "sending", rd + 1, wr)
         /\ Wired(Append(w, "end"), "await", rd, wr)
<1> DEFINE n == Len(w)
<1>0. n \in Nat /\ Ends(w) = 0
  BY DEF Wired, Ends
<1>1. ASSUME NEW f \in {"chunk", "end"}
      PROVE  /\ Len(Append(w, f)) = n + 1 /\ Append(w, f) # <<>>
             /\ \A i \in 1..n : Append(w, f)[i] = w[i]
             /\ Append(w, f)[n + 1] = f
  BY <1>0
<1>2. w = <<>> <=> n = 0
  OBVIOUS
<1> HIDE DEF n
<1>3. Ends(Append(w, "chunk")) = 0 /\ Ends(Append(w, "end")) = 1
  BY <1>0, <1>1 DEF Ends
<1>4. Wired(Append(w, "chunk"), "sending", rd + 1, wr)
  BY <1>0, <1>1, <1>2, <1>3 DEF Wired, n
<1>5. Wired(Append(w, "end"), "await", rd, wr)
  BY <1>0, <1>1, <1>2, <1>3 DEF Wired, n
<1> QED
  BY <1>4, <1>5

\* A frame that is taken leaves a sound wire, if it was the start, if a chunk was
\* written, and if the upload is over; and at the end all that was read is written.
LEMMA WireTaken ==
  ASSUME NEW w \in Seq(Frames), w # <<>>, NEW tk, NEW rd \in Nat, NEW wr \in Nat \cup {-1},
         Wired(w, tk, rd, wr)
  PROVE  /\ Tail(w) \in Seq(Frames)
         /\ Wired(Tail(w), tk, rd, -1)
         /\ Head(w) = "start" => Wired(Tail(w), tk, rd, 0)
         /\ Head(w) = "chunk" /\ wr # -1 => Wired(Tail(w), tk, rd, wr + 1)
         /\ Head(w) = "end" => tk \in {"await", "done"} /\ (wr # -1 => wr = rd)
<1> DEFINE n == Len(w)
<1>a. n \in Nat \ {0} /\ Head(w) = w[1]
  OBVIOUS
<1>b. Tail(w) \in Seq(Frames) /\ Len(Tail(w)) = n - 1
  BY HeadTailProperties
<1>c. \A i \in 1..(n - 1) : Tail(w)[i] = w[i + 1]
  BY HeadTailProperties
<1>d. Tail(w) = <<>> <=> n = 1
  <2>1. Tail(w) = <<>> => Len(Tail(w)) = 0
    BY EmptySeq
  <2>2. Tail(w) # <<>> => Len(Tail(w)) # 0
    BY <1>b, EmptySeq
  <2> QED
    BY <2>1, <2>2, <1>a, <1>b
<1>0. /\ n \in Nat \ {0} /\ Head(w) = w[1] /\ Tail(w) \in Seq(Frames) /\ Len(Tail(w)) = n - 1
      /\ \A i \in 1..(n - 1) : Tail(w)[i] = w[i + 1]
      /\ Tail(w) = <<>> <=> n = 1
  BY <1>a, <1>b, <1>c, <1>d
<1>e. /\ \A i \in 1..n : w[i] = "start" => i = 1 /\ wr = -1
      /\ \A i \in 1..n : w[i] = "end" => i = n /\ tk \in {"await", "done"}
      /\ wr # -1 => wr + n - Ends(w) = rd
      /\ w[1] = "start" => n - 1 - Ends(w) = rd
      /\ Ends(w) = IF w[n] = "end" THEN 1 ELSE 0
  BY DEF Wired, Ends
<1> HIDE DEF n
<1>1. ASSUME NEW i \in 1..(n - 1)
      PROVE  /\ Tail(w)[i] # "start"
             /\ Tail(w)[i] = "end" => i = n - 1 /\ tk \in {"await", "done"}
  <2>1. i + 1 \in 1..n /\ Tail(w)[i] = w[i + 1] /\ i + 1 # 1
    BY <1>0
  <2>2. i + 1 = n => i = n - 1
    BY <1>0
  <2> QED
    BY <2>1, <2>2, <1>e
<1>3. Head(w) # "end" => Ends(Tail(w)) = Ends(w)
  <2>1. n > 1 => Tail(w)[n - 1] = w[n]
    BY <1>0
  <2> QED
    BY <2>1, <1>0, <1>e DEF Ends
<1>4. Ends(w) \in {0, 1} /\ Ends(Tail(w)) \in {0, 1}
  BY DEF Ends
<1>5. Wired(Tail(w), tk, rd, -1)
  BY <1>0, <1>1 DEF Wired
<1>6. Head(w) = "start" => Wired(Tail(w), tk, rd, 0)
  BY <1>0, <1>1, <1>3, <1>4, <1>e DEF Wired
<1>7. Head(w) = "chunk" /\ wr # -1 => Wired(Tail(w), tk, rd, wr + 1)
  BY <1>0, <1>1, <1>3, <1>4, <1>e DEF Wired
<1>8. Head(w) = "end" => tk \in {"await", "done"} /\ (wr # -1 => wr = rd)
  <2>1. Head(w) = "end" => n = 1 /\ tk \in {"await", "done"}
    BY <1>0, <1>e
  <2> QED
    BY <2>1, <1>0, <1>e
<1> QED
  BY <1>0, <1>5, <1>6, <1>7, <1>8

\* A sequence without certain elements.
Avoids(s, bad) == \A i \in 1..Len(s) : s[i] \notin bad

\* It stays without them when others are appended, and when its head is taken.
LEMMA AvoidsKept ==
  ASSUME NEW S, NEW bad, NEW s \in Seq(S), Avoids(s, bad)
  PROVE  /\ \A e \in S \ bad : Append(s, e) \in Seq(S) /\ Avoids(Append(s, e), bad)
         /\ \A e \in S \ bad, f \in S \ bad : s \o <<e, f>> \in Seq(S) /\ Avoids(s \o <<e, f>>, bad)
         /\ s # <<>> => /\ Tail(s) \in Seq(S) /\ Avoids(Tail(s), bad)
                        /\ Head(s) \in S \ bad
<1>1. ASSUME NEW e \in S \ bad
      PROVE  Append(s, e) \in Seq(S) /\ Avoids(Append(s, e), bad)
  BY DEF Avoids
<1>2. ASSUME NEW e \in S \ bad, NEW f \in S \ bad
      PROVE  s \o <<e, f>> \in Seq(S) /\ Avoids(s \o <<e, f>>, bad)
  <2>1. /\ <<e, f>> \in Seq(S) /\ Len(<<e, f>>) = 2 /\ Len(s) \in Nat
        /\ \A i \in 1..2 : <<e, f>>[i] \notin bad
    OBVIOUS
  <2>2. /\ s \o <<e, f>> \in Seq(S) /\ Len(s \o <<e, f>>) = Len(s) + 2
        /\ \A i \in 1..(Len(s) + 2) :
              (s \o <<e, f>>)[i] = IF i <= Len(s) THEN s[i] ELSE <<e, f>>[i - Len(s)]
    BY <2>1, ConcatProperties
  <2>3. ASSUME NEW i \in 1..(Len(s) + 2)
        PROVE  (s \o <<e, f>>)[i] \notin bad
    <3>1. CASE i <= Len(s)
      BY <2>1, <2>2, <3>1 DEF Avoids
    <3>2. CASE i > Len(s)
      <4>1. i - Len(s) \in 1..2
        BY <2>1, <3>2
      <4> QED
        BY <2>1, <2>2, <3>2, <4>1
    <3> QED
      BY <3>1, <3>2, <2>1
  <2> QED
    BY <2>2, <2>3 DEF Avoids
<1>3. ASSUME s # <<>>
      PROVE  /\ Tail(s) \in Seq(S) /\ Avoids(Tail(s), bad) /\ Head(s) \in S \ bad
  <2>1. /\ Head(s) \in S /\ Tail(s) \in Seq(S) /\ Len(Tail(s)) = Len(s) - 1
        /\ \A i \in 1..(Len(s) - 1) : Tail(s)[i] = s[i + 1]
    BY <1>3, HeadTailProperties
  <2>2. Len(s) \in Nat \ {0} /\ Head(s) = s[1]
    BY <1>3
  <2>3. ASSUME NEW i \in 1..Len(Tail(s))
        PROVE  Tail(s)[i] \notin bad
    <3>1. i + 1 \in 1..Len(s) /\ Tail(s)[i] = s[i + 1]
      BY <2>1, <2>2
    <3> QED
      BY <3>1 DEF Avoids
  <2> QED
    BY <2>1, <2>2, <2>3 DEF Avoids
<1> QED
  BY <1>1, <1>2, <1>3

\* The results that count as a success, on the way back and in the loop.
Dones == {Transfer!Done(a) : a \in Attempts}

\* Every step of the two hosts, the network and the channel keeps the invariant.
LEMMA TransferStep == TransferInv /\ [Transfer!Next]_(Transfer!vars) => TransferInv'
<1> SUFFICES ASSUME TransferInv, [Transfer!Next]_(Transfer!vars)
             PROVE  TransferInv'
  OBVIOUS
<1> USE TransferAssumption DEF Transfer!TransferAssumption
<1>0. /\ TransferTypes
      /\ \A b \in Attempts : Attempted(b) /\ (b > requested => Unrequested(b))
      /\ FileRead /\ (file.by = 0 => NoOk)
      /\ Transfer!AnswersMatch /\ Transfer!NoTmpLeft
  BY DEF TransferInv
<1> USE <1>0
<1>a. /\ SignalTypes /\ ChannelTypes /\ SourceTypes /\ TargetTypes /\ srcEvents \in Seq(SourceEvents)
      /\ \A b \in Attempts : wire[b] \in Seq(Frames) /\ back[b] \in Seq({"ok", "error"})
  BY DEF TransferTypes, ChannelTypes
<1>b. /\ Transfer!Cleanup \in SourceEvents \ Dones
      /\ \A b \in Attempts : Transfer!Failed(b) \in SourceEvents \ Dones /\ Transfer!Done(b) \in SourceEvents
  <2>1. \A b \in Attempts : Transfer!Done(b).status = "ok" /\ Transfer!Done(b).type = "result"
    BY DEF Transfer!Done
  <2>2. \A b \in Attempts : Transfer!Failed(b).status = "error"
    BY DEF Transfer!Failed
  <2>3. Transfer!Cleanup.type = "cleanup"
    BY DEF Transfer!Cleanup
  <2> QED
    BY <2>1, <2>2, <2>3 DEF SourceEvents, Dones
<1>c. /\ \A e \in SourceEvents : Append(srcEvents, e) \in Seq(SourceEvents)
      /\ \A e \in SourceEvents, f \in SourceEvents : srcEvents \o <<e, f>> \in Seq(SourceEvents)
      /\ srcEvents # <<>> => Tail(srcEvents) \in Seq(SourceEvents) /\ Head(srcEvents) \in SourceEvents
  BY <1>a, HeadTailProperties, ConcatProperties
<1>d. ASSUME NEW b \in Attempts
      PROVE  /\ \A e \in Frames : Append(wire[b], e) \in Seq(Frames)
             /\ wire[b] # <<>> => Tail(wire[b]) \in Seq(Frames)
             /\ \A e \in {"ok", "error"} : Append(back[b], e) \in Seq({"ok", "error"})
             /\ back[b] # <<>> => Tail(back[b]) \in Seq({"ok", "error"}) /\ Head(back[b]) \in {"ok", "error"}
  BY <1>a, HeadTailProperties
<1>e. <<>> \in Seq(Frames) /\ <<"start">> \in Seq(Frames) /\ <<>> \in Seq({"ok", "error"})
  BY DEF Frames
<1>f. ASSUME NoOk
      PROVE  /\ Avoids(srcEvents, Dones)
             /\ \A b \in Attempts : Avoids(back[b], {"ok"}) /\ slot[b] # "ok" /\ <<"ok", b>> \notin results
  BY <1>f DEF NoOk, Avoids, Dones
<1>g. ASSUME Avoids(srcEvents', Dones),
             \A b \in Attempts : Avoids(back'[b], {"ok"}) /\ slot'[b] # "ok" /\ <<"ok", b>> \notin results'
      PROVE  NoOk'
  BY <1>g DEF NoOk, Avoids, Dones
<1>h. ASSUME NoOk
      PROVE  /\ \A e \in SourceEvents \ Dones : Avoids(Append(srcEvents, e), Dones)
             /\ \A e \in SourceEvents \ Dones, f \in SourceEvents \ Dones :
                   Avoids(srcEvents \o <<e, f>>, Dones)
             /\ srcEvents # <<>> => Avoids(Tail(srcEvents), Dones) /\ Head(srcEvents) \notin Dones
  BY <1>a, <1>f, <1>h, AvoidsKept
<1>i. ASSUME NoOk, NEW b \in Attempts
      PROVE  /\ Avoids(Append(back[b], "error"), {"ok"}) /\ Avoids(<<>>, {"ok"})
             /\ back[b] # <<>> => Avoids(Tail(back[b]), {"ok"}) /\ Head(back[b]) = "error"
  <2>1. /\ \A e \in {"ok", "error"} \ {"ok"} : Avoids(Append(back[b], e), {"ok"})
        /\ back[b] # <<>> => Avoids(Tail(back[b]), {"ok"}) /\ Head(back[b]) \in {"ok", "error"} \ {"ok"}
    <3>1. back[b] \in Seq({"ok", "error"}) /\ Avoids(back[b], {"ok"})
      BY <1>a, <1>f, <1>i
    <3> DEFINE S == {"ok", "error"}
               bad == {"ok"}
    <3>2. back[b] \in Seq(S) /\ Avoids(back[b], bad)
      BY <3>1
    <3> HIDE <1>0 DEF S, bad
    <3>3. /\ \A e \in S \ bad : Avoids(Append(back[b], e), bad)
          /\ back[b] # <<>> => Avoids(Tail(back[b]), bad) /\ Head(back[b]) \in S \ bad
      BY <3>2, AvoidsKept
    <3> QED
      BY <3>3 DEF S, bad
  <2>2. Avoids(<<>>, {"ok"})
    BY DEF Avoids
  <2> QED
    BY <2>1, <2>2
<1>j. \A b \in Attempts : wire[b] # <<>> =>
        chan[b] = "open" /\ Wired(wire[b], sending[b], read[b], upload[b])
  BY DEF Attempted, AttemptSound
<1>1. ASSUME Transfer!SignalLost
      PROVE  TransferInv'
  <2> USE <1>1 DEF Transfer!SignalLost, Transfer!Fault, Transfer!signals, Transfer!source, Transfer!target, Transfer!channel, Transfer!events
  <2>1. TransferTypes'
    <3>1. SignalTypes'
      BY <1>a DEF SignalTypes
    <3>2. ChannelTypes'
      BY <1>a, <1>d, <1>e DEF ChannelTypes, Frames
    <3>3. SourceTypes'
      BY <1>a, <1>d DEF SourceTypes
    <3>4. TargetTypes'
      BY <1>a DEF TargetTypes
    <3>5. (srcEvents \in Seq(SourceEvents))'
      BY <1>a, <1>b, <1>c DEF SignalTypes
    <3> QED
      BY <3>1, <3>2, <3>3, <3>4, <3>5 DEF TransferTypes
  <2>2. \A b \in Attempts : Attempted(b)'
    BY <1>a DEF ChannelTypes, SourceTypes, TargetTypes, Attempted, AttemptSound
  <2>3. \A b \in Attempts : b > requested' => Unrequested(b)'
    BY <1>a DEF SignalTypes, ChannelTypes, Unrequested
  <2>4. FileRead'
    BY <1>a DEF SourceTypes, TargetTypes, FileRead
  <2>5. file'.by = 0 => NoOk'
    <3> SUFFICES ASSUME file'.by = 0 PROVE NoOk'
      OBVIOUS
    <3>1. NoOk
      BY <1>a DEF TargetTypes
    <3>2. Avoids(srcEvents', Dones)
      BY <1>a, <1>b, <1>f, <1>h, <3>1 DEF SignalTypes
    <3>3. ASSUME NEW b \in Attempts
          PROVE  Avoids(back'[b], {"ok"}) /\ slot'[b] # "ok"
      BY <1>a, <1>f, <1>i, <3>1 DEF ChannelTypes, SourceTypes
    <3>4. ASSUME NEW b \in Attempts
          PROVE  <<"ok", b>> \notin results'
      BY <1>f, <3>1
    <3> QED
      BY <1>g, <3>2, <3>3, <3>4
  <2>6. Transfer!AnswersMatch'
    BY <1>a DEF SignalTypes, Transfer!AnswersMatch
  <2>7. Transfer!NoTmpLeft'
    BY <1>a, <1>j DEF ChannelTypes, TargetTypes, Attempted, AttemptSound, Transfer!NoTmpLeft
  <2> QED
    BY <2>1, <2>2, <2>3, <2>4, <2>5, <2>6, <2>7 DEF TransferInv
<1>2. ASSUME Transfer!CancelSource
      PROVE  TransferInv'
  <2> USE <1>2 DEF Transfer!CancelSource, Transfer!Closed, Transfer!Fault, Transfer!signals, Transfer!source, Transfer!target, Transfer!channel, Transfer!events
  <2>1. TransferTypes'
    <3>1. SignalTypes'
      BY <1>a DEF SignalTypes
    <3>2. ChannelTypes'
      BY <1>a, <1>d, <1>e DEF ChannelTypes, Frames
    <3>3. SourceTypes'
      BY <1>a, <1>d DEF SourceTypes
    <3>4. TargetTypes'
      BY <1>a DEF TargetTypes
    <3>5. (srcEvents \in Seq(SourceEvents))'
      BY <1>a, <1>b, <1>c DEF SignalTypes
    <3> QED
      BY <3>1, <3>2, <3>3, <3>4, <3>5 DEF TransferTypes
  <2>2. \A b \in Attempts : Attempted(b)'
    BY <1>a DEF ChannelTypes, SourceTypes, TargetTypes, Attempted, AttemptSound
  <2>3. \A b \in Attempts : b > requested' => Unrequested(b)'
    BY <1>a DEF SignalTypes, ChannelTypes, Unrequested
  <2>4. FileRead'
    BY <1>a DEF SourceTypes, TargetTypes, FileRead
  <2>5. file'.by = 0 => NoOk'
    <3> SUFFICES ASSUME file'.by = 0 PROVE NoOk'
      OBVIOUS
    <3>1. NoOk
      BY <1>a DEF TargetTypes
    <3>2. Avoids(srcEvents', Dones)
      BY <1>a, <1>b, <1>f, <1>h, <3>1 DEF SignalTypes
    <3>3. ASSUME NEW b \in Attempts
          PROVE  Avoids(back'[b], {"ok"}) /\ slot'[b] # "ok"
      BY <1>a, <1>f, <1>i, <3>1 DEF ChannelTypes, SourceTypes
    <3>4. ASSUME NEW b \in Attempts
          PROVE  <<"ok", b>> \notin results'
      BY <1>f, <3>1
    <3> QED
      BY <1>g, <3>2, <3>3, <3>4
  <2>6. Transfer!AnswersMatch'
    BY <1>a DEF SignalTypes, Transfer!AnswersMatch
  <2>7. Transfer!NoTmpLeft'
    BY <1>a, <1>j DEF ChannelTypes, TargetTypes, Attempted, AttemptSound, Transfer!NoTmpLeft
  <2> QED
    BY <2>1, <2>2, <2>3, <2>4, <2>5, <2>6, <2>7 DEF TransferInv
<1>3. ASSUME Transfer!CancelTarget
      PROVE  TransferInv'
  <2> USE <1>3 DEF Transfer!CancelTarget, Transfer!Closed, Transfer!Fault, Transfer!signals, Transfer!source, Transfer!target, Transfer!channel, Transfer!events
  <2>1. TransferTypes'
    <3>1. SignalTypes'
      BY <1>a DEF SignalTypes
    <3>2. ChannelTypes'
      BY <1>a, <1>d, <1>e DEF ChannelTypes, Frames
    <3>3. SourceTypes'
      BY <1>a, <1>d DEF SourceTypes
    <3>4. TargetTypes'
      BY <1>a DEF TargetTypes
    <3>5. (srcEvents \in Seq(SourceEvents))'
      BY <1>a, <1>b, <1>c DEF SignalTypes
    <3> QED
      BY <3>1, <3>2, <3>3, <3>4, <3>5 DEF TransferTypes
  <2>2. \A b \in Attempts : Attempted(b)'
    BY <1>a DEF ChannelTypes, SourceTypes, TargetTypes, Attempted, AttemptSound
  <2>3. \A b \in Attempts : b > requested' => Unrequested(b)'
    BY <1>a DEF SignalTypes, ChannelTypes, Unrequested
  <2>4. FileRead'
    BY <1>a DEF SourceTypes, TargetTypes, FileRead
  <2>5. file'.by = 0 => NoOk'
    <3> SUFFICES ASSUME file'.by = 0 PROVE NoOk'
      OBVIOUS
    <3>1. NoOk
      BY <1>a DEF TargetTypes
    <3>2. Avoids(srcEvents', Dones)
      BY <1>a, <1>b, <1>f, <1>h, <3>1 DEF SignalTypes
    <3>3. ASSUME NEW b \in Attempts
          PROVE  Avoids(back'[b], {"ok"}) /\ slot'[b] # "ok"
      BY <1>a, <1>f, <1>i, <3>1 DEF ChannelTypes, SourceTypes
    <3>4. ASSUME NEW b \in Attempts
          PROVE  <<"ok", b>> \notin results'
      BY <1>f, <3>1
    <3> QED
      BY <1>g, <3>2, <3>3, <3>4
  <2>6. Transfer!AnswersMatch'
    BY <1>a DEF SignalTypes, Transfer!AnswersMatch
  <2>7. Transfer!NoTmpLeft'
    BY <1>a, <1>j DEF ChannelTypes, TargetTypes, Attempted, AttemptSound, Transfer!NoTmpLeft
  <2> QED
    BY <2>1, <2>2, <2>3, <2>4, <2>5, <2>6, <2>7 DEF TransferInv
<1>4. ASSUME Transfer!Expire
      PROVE  TransferInv'
  <2> USE <1>4 DEF Transfer!Expire, Transfer!Fault, Transfer!signals, Transfer!source, Transfer!target, Transfer!channel, Transfer!events
  <2>1. TransferTypes'
    <3>1. SignalTypes'
      BY <1>a DEF SignalTypes
    <3>2. ChannelTypes'
      BY <1>a, <1>d, <1>e DEF ChannelTypes, Frames
    <3>3. SourceTypes'
      BY <1>a, <1>d DEF SourceTypes
    <3>4. TargetTypes'
      BY <1>a DEF TargetTypes
    <3>5. (srcEvents \in Seq(SourceEvents))'
      BY <1>a, <1>b, <1>c DEF SignalTypes
    <3> QED
      BY <3>1, <3>2, <3>3, <3>4, <3>5 DEF TransferTypes
  <2>2. \A b \in Attempts : Attempted(b)'
    BY <1>a DEF ChannelTypes, SourceTypes, TargetTypes, Attempted, AttemptSound
  <2>3. \A b \in Attempts : b > requested' => Unrequested(b)'
    BY <1>a DEF SignalTypes, ChannelTypes, Unrequested
  <2>4. FileRead'
    BY <1>a DEF SourceTypes, TargetTypes, FileRead
  <2>5. file'.by = 0 => NoOk'
    <3> SUFFICES ASSUME file'.by = 0 PROVE NoOk'
      OBVIOUS
    <3>1. NoOk
      BY <1>a DEF TargetTypes
    <3>2. Avoids(srcEvents', Dones)
      BY <1>a, <1>b, <1>f, <1>h, <3>1 DEF SignalTypes
    <3>3. ASSUME NEW b \in Attempts
          PROVE  Avoids(back'[b], {"ok"}) /\ slot'[b] # "ok"
      BY <1>a, <1>f, <1>i, <3>1 DEF ChannelTypes, SourceTypes
    <3>4. ASSUME NEW b \in Attempts
          PROVE  <<"ok", b>> \notin results'
      BY <1>f, <3>1
    <3> QED
      BY <1>g, <3>2, <3>3, <3>4
  <2>6. Transfer!AnswersMatch'
    BY <1>a DEF SignalTypes, Transfer!AnswersMatch
  <2>7. Transfer!NoTmpLeft'
    BY <1>a, <1>j DEF ChannelTypes, TargetTypes, Attempted, AttemptSound, Transfer!NoTmpLeft
  <2> QED
    BY <2>1, <2>2, <2>3, <2>4, <2>5, <2>6, <2>7 DEF TransferInv
<1>5. ASSUME Transfer!SourceEvent
      PROVE  TransferInv'
  <2> USE <1>5 DEF Transfer!SourceEvent, Transfer!Closed, Transfer!signals, Transfer!source, Transfer!target, Transfer!channel, Transfer!events
  <2>1. TransferTypes'
    <3>1. SignalTypes'
      BY <1>a DEF SignalTypes
    <3>2. ChannelTypes'
      <4>1. \/ UNCHANGED <<chan, wire, back>>
            \/ \E c \in Attempts : Transfer!Closed(c)
        BY <1>a DEF SignalTypes
      <4>2. heard' = heard
        OBVIOUS
      <4> HIDE <1>0, <1>5
      <4>3. CASE UNCHANGED <<chan, wire, back>>
        BY <4>2, <4>3, <1>a DEF ChannelTypes
      <4>4. ASSUME NEW c \in Attempts, Transfer!Closed(c)
            PROVE  ChannelTypes'
        BY <4>2, <4>4, <1>a, <1>e DEF ChannelTypes, Transfer!Closed
      <4> QED
        BY <4>1, <4>3, <4>4
    <3>3. SourceTypes'
      BY <1>a, <1>d DEF SourceTypes
    <3>4. TargetTypes'
      BY <1>a DEF TargetTypes
    <3>5. (srcEvents \in Seq(SourceEvents))'
      BY <1>a, <1>b, <1>c DEF SignalTypes
    <3> QED
      BY <3>1, <3>2, <3>3, <3>4, <3>5 DEF TransferTypes
  <2>2. \A b \in Attempts : Attempted(b)'
    BY <1>a DEF ChannelTypes, SourceTypes, TargetTypes, Attempted, AttemptSound
  <2>3. \A b \in Attempts : b > requested' => Unrequested(b)'
    BY <1>a DEF SignalTypes, ChannelTypes, Unrequested
  <2>4. FileRead'
    BY <1>a DEF SourceTypes, TargetTypes, FileRead
  <2>5. file'.by = 0 => NoOk'
    <3> SUFFICES ASSUME file'.by = 0 PROVE NoOk'
      OBVIOUS
    <3>1. NoOk
      BY <1>a DEF TargetTypes
    <3>2. Avoids(srcEvents', Dones)
      BY <1>a, <1>b, <1>f, <1>h, <3>1 DEF SignalTypes
    <3>3. ASSUME NEW b \in Attempts
          PROVE  Avoids(back'[b], {"ok"}) /\ slot'[b] # "ok"
      BY <1>a, <1>f, <1>i, <3>1 DEF ChannelTypes, SourceTypes
    <3>4. ASSUME NEW b \in Attempts
          PROVE  <<"ok", b>> \notin results'
      <4>1. CASE Head(srcEvents) = Transfer!Cleanup
        BY <4>1, <1>f, <3>1
      <4>2. CASE Head(srcEvents) # Transfer!Cleanup
        <5>1. PICK c \in Attempts : Head(srcEvents) = Transfer!Failed(c)
          BY <4>2, <1>c, <1>h, <3>1 DEF SourceEvents, Dones
        <5>2. Head(srcEvents).status = "error"
          BY <5>1 DEF Transfer!Failed
        <5>3. <<Head(srcEvents).status, Head(srcEvents).attempt>> # <<"ok", b>>
          BY <5>2
        <5> QED
          BY <4>2, <5>3, <1>f, <3>1
      <4> QED
        BY <4>1, <4>2
    <3> QED
      BY <1>g, <3>2, <3>3, <3>4
  <2>6. Transfer!AnswersMatch'
    BY <1>a DEF SignalTypes, Transfer!AnswersMatch
  <2>7. Transfer!NoTmpLeft'
    BY <1>a, <1>j DEF ChannelTypes, TargetTypes, Attempted, AttemptSound, Transfer!NoTmpLeft
  <2> QED
    BY <2>1, <2>2, <2>3, <2>4, <2>5, <2>6, <2>7 DEF TransferInv
<1>6. ASSUME Transfer!TargetEvent
      PROVE  TransferInv'
  <2> USE <1>6 DEF Transfer!TargetEvent, Transfer!Closed, Transfer!signals, Transfer!source, Transfer!target, Transfer!channel, Transfer!events
  <2>1. TransferTypes'
    <3>1. SignalTypes'
      BY <1>a DEF SignalTypes
    <3>2. ChannelTypes'
      BY <1>a, <1>d, <1>e, ZenonT(60) DEF ChannelTypes, Frames
    <3>3. SourceTypes'
      BY <1>a, <1>d DEF SourceTypes
    <3>4. TargetTypes'
      BY <1>a DEF TargetTypes
    <3>5. (srcEvents \in Seq(SourceEvents))'
      BY <1>a, <1>b, <1>c DEF SignalTypes
    <3> QED
      BY <3>1, <3>2, <3>3, <3>4, <3>5 DEF TransferTypes
  <2>2. \A b \in Attempts : Attempted(b)'
    BY <1>a DEF ChannelTypes, SourceTypes, TargetTypes, Attempted, AttemptSound
  <2>3. \A b \in Attempts : b > requested' => Unrequested(b)'
    BY <1>a DEF SignalTypes, ChannelTypes, Unrequested
  <2>4. FileRead'
    BY <1>a DEF SourceTypes, TargetTypes, FileRead
  <2>5. file'.by = 0 => NoOk'
    <3> SUFFICES ASSUME file'.by = 0 PROVE NoOk'
      OBVIOUS
    <3>1. NoOk
      BY <1>a DEF TargetTypes
    <3>2. Avoids(srcEvents', Dones)
      BY <1>a, <1>b, <1>f, <1>h, <3>1 DEF SignalTypes
    <3>3. ASSUME NEW b \in Attempts
          PROVE  Avoids(back'[b], {"ok"}) /\ slot'[b] # "ok"
      BY <1>a, <1>f, <1>i, <3>1 DEF ChannelTypes, SourceTypes
    <3>4. ASSUME NEW b \in Attempts
          PROVE  <<"ok", b>> \notin results'
      BY <1>f, <3>1
    <3> QED
      BY <1>g, <3>2, <3>3, <3>4
  <2>6. Transfer!AnswersMatch'
    BY <1>a DEF SignalTypes, Transfer!AnswersMatch
  <2>7. Transfer!NoTmpLeft'
    BY <1>a, <1>j DEF ChannelTypes, TargetTypes, Attempted, AttemptSound, Transfer!NoTmpLeft
  <2> QED
    BY <2>1, <2>2, <2>3, <2>4, <2>5, <2>6, <2>7 DEF TransferInv
<1>7. ASSUME NEW a \in Attempts, Transfer!RequestRefused(a)
      PROVE  TransferInv'
  <2> USE <1>7 DEF Transfer!RequestRefused, Transfer!signals, Transfer!source, Transfer!target, Transfer!channel, Transfer!events
  <2>1. TransferTypes'
    <3>1. SignalTypes'
      BY <1>a DEF SignalTypes
    <3>2. ChannelTypes'
      BY <1>a, <1>d, <1>e DEF ChannelTypes, Frames
    <3>3. SourceTypes'
      BY <1>a, <1>d DEF SourceTypes
    <3>4. TargetTypes'
      BY <1>a DEF TargetTypes
    <3>5. (srcEvents \in Seq(SourceEvents))'
      BY <1>a, <1>b, <1>c DEF SignalTypes
    <3> QED
      BY <3>1, <3>2, <3>3, <3>4, <3>5 DEF TransferTypes
  <2>2. \A b \in Attempts : Attempted(b)'
    BY <1>a DEF ChannelTypes, SourceTypes, TargetTypes, Attempted, AttemptSound
  <2>3. \A b \in Attempts : b > requested' => Unrequested(b)'
    BY <1>a DEF SignalTypes, ChannelTypes, Unrequested
  <2>4. FileRead'
    BY <1>a DEF SourceTypes, TargetTypes, FileRead
  <2>5. file'.by = 0 => NoOk'
    <3> SUFFICES ASSUME file'.by = 0 PROVE NoOk'
      OBVIOUS
    <3>1. NoOk
      BY <1>a DEF TargetTypes
    <3>2. Avoids(srcEvents', Dones)
      BY <1>a, <1>b, <1>f, <1>h, <3>1 DEF SignalTypes
    <3>3. ASSUME NEW b \in Attempts
          PROVE  Avoids(back'[b], {"ok"}) /\ slot'[b] # "ok"
      BY <1>a, <1>f, <1>i, <3>1 DEF ChannelTypes, SourceTypes
    <3>4. ASSUME NEW b \in Attempts
          PROVE  <<"ok", b>> \notin results'
      BY <1>f, <3>1
    <3> QED
      BY <1>g, <3>2, <3>3, <3>4
  <2>6. Transfer!AnswersMatch'
    BY <1>a DEF SignalTypes, Transfer!AnswersMatch
  <2>7. Transfer!NoTmpLeft'
    BY <1>a, <1>j DEF ChannelTypes, TargetTypes, Attempted, AttemptSound, Transfer!NoTmpLeft
  <2> QED
    BY <2>1, <2>2, <2>3, <2>4, <2>5, <2>6, <2>7 DEF TransferInv
<1>8. ASSUME NEW a \in Attempts, Transfer!Request(a)
      PROVE  TransferInv'
  <2> USE <1>8 DEF Transfer!Request, Transfer!signals, Transfer!source, Transfer!target, Transfer!channel, Transfer!events
  <2>1. TransferTypes'
    <3>1. SignalTypes'
      BY <1>a DEF SignalTypes
    <3>2. ChannelTypes'
      BY <1>a, <1>d, <1>e DEF ChannelTypes, Frames
    <3>3. SourceTypes'
      BY <1>a, <1>d DEF SourceTypes
    <3>4. TargetTypes'
      BY <1>a DEF TargetTypes
    <3>5. (srcEvents \in Seq(SourceEvents))'
      BY <1>a, <1>b, <1>c DEF SignalTypes
    <3> QED
      BY <3>1, <3>2, <3>3, <3>4, <3>5 DEF TransferTypes
  <2>0. a > requested /\ chan[a] = "none"
    <3>1. a > requested
      BY <1>a DEF SignalTypes
    <3> QED
      BY <3>1 DEF Unrequested
  <2>2. \A b \in Attempts : Attempted(b)'
    BY <1>a, <2>0 DEF ChannelTypes, Attempted, AttemptSound
  <2>3. ASSUME NEW b \in Attempts, b > requested'
        PROVE  Unrequested(b)'
    <3>1. b # a /\ b > requested
      BY <2>3, <1>a DEF SignalTypes
    <3>2. <<"offer", b>> # <<"offer", a>> /\ <<"answer", b>> # <<"offer", a>>
      BY <3>1
    <3> QED
      BY <1>a, <3>1, <3>2 DEF SignalTypes, ChannelTypes, Unrequested
  <2>4. FileRead'
    BY <1>a DEF SourceTypes, TargetTypes, FileRead
  <2>5. file'.by = 0 => NoOk'
    <3> SUFFICES ASSUME file'.by = 0 PROVE NoOk'
      OBVIOUS
    <3>1. NoOk
      BY <1>a DEF TargetTypes
    <3>2. Avoids(srcEvents', Dones)
      BY <1>a, <1>b, <1>f, <1>h, <3>1 DEF SignalTypes
    <3>3. ASSUME NEW b \in Attempts
          PROVE  Avoids(back'[b], {"ok"}) /\ slot'[b] # "ok"
      BY <1>a, <1>f, <1>i, <3>1 DEF ChannelTypes, SourceTypes
    <3>4. ASSUME NEW b \in Attempts
          PROVE  <<"ok", b>> \notin results'
      BY <1>f, <3>1
    <3> QED
      BY <1>g, <3>2, <3>3, <3>4
  <2>6. Transfer!AnswersMatch'
    BY <1>a DEF SignalTypes, Transfer!AnswersMatch
  <2>7. Transfer!NoTmpLeft'
    BY <1>a, <1>j DEF ChannelTypes, TargetTypes, Attempted, AttemptSound, Transfer!NoTmpLeft
  <2> QED
    BY <2>1, <2>2, <2>3, <2>4, <2>5, <2>6, <2>7 DEF TransferInv
<1>9. ASSUME NEW a \in Attempts, Transfer!OfferRefused(a)
      PROVE  TransferInv'
  <2> USE <1>9 DEF Transfer!OfferRefused, Transfer!signals, Transfer!source, Transfer!target, Transfer!channel, Transfer!events
  <2>1. TransferTypes'
    <3>1. SignalTypes'
      BY <1>a DEF SignalTypes
    <3>2. ChannelTypes'
      BY <1>a, <1>d, <1>e DEF ChannelTypes, Frames
    <3>3. SourceTypes'
      BY <1>a, <1>d DEF SourceTypes
    <3>4. TargetTypes'
      BY <1>a DEF TargetTypes
    <3>5. (srcEvents \in Seq(SourceEvents))'
      BY <1>a, <1>b, <1>c DEF SignalTypes
    <3> QED
      BY <3>1, <3>2, <3>3, <3>4, <3>5 DEF TransferTypes
  <2>2. \A b \in Attempts : Attempted(b)'
    BY <1>a DEF ChannelTypes, SourceTypes, TargetTypes, Attempted, AttemptSound
  <2>3. \A b \in Attempts : b > requested' => Unrequested(b)'
    BY <1>a DEF SignalTypes, ChannelTypes, Unrequested
  <2>4. FileRead'
    BY <1>a DEF SourceTypes, TargetTypes, FileRead
  <2>5. file'.by = 0 => NoOk'
    <3> SUFFICES ASSUME file'.by = 0 PROVE NoOk'
      OBVIOUS
    <3>1. NoOk
      BY <1>a DEF TargetTypes
    <3>2. Avoids(srcEvents', Dones)
      BY <1>a, <1>b, <1>f, <1>h, <3>1 DEF SignalTypes
    <3>3. ASSUME NEW b \in Attempts
          PROVE  Avoids(back'[b], {"ok"}) /\ slot'[b] # "ok"
      BY <1>a, <1>f, <1>i, <3>1 DEF ChannelTypes, SourceTypes
    <3>4. ASSUME NEW b \in Attempts
          PROVE  <<"ok", b>> \notin results'
      BY <1>f, <3>1
    <3> QED
      BY <1>g, <3>2, <3>3, <3>4
  <2>6. Transfer!AnswersMatch'
    BY <1>a DEF SignalTypes, Transfer!AnswersMatch
  <2>7. Transfer!NoTmpLeft'
    BY <1>a, <1>j DEF ChannelTypes, TargetTypes, Attempted, AttemptSound, Transfer!NoTmpLeft
  <2> QED
    BY <2>1, <2>2, <2>3, <2>4, <2>5, <2>6, <2>7 DEF TransferInv
<1>10. ASSUME NEW a \in Attempts, Transfer!Offer(a)
      PROVE  TransferInv'
  <2> USE <1>10 DEF Transfer!Offer, Transfer!signals, Transfer!source, Transfer!target, Transfer!channel, Transfer!events
  <2>1. TransferTypes'
    <3>1. SignalTypes'
      BY <1>a DEF SignalTypes
    <3>2. ChannelTypes'
      BY <1>a, <1>d, <1>e DEF ChannelTypes, Frames
    <3>3. SourceTypes'
      BY <1>a, <1>d DEF SourceTypes
    <3>4. TargetTypes'
      BY <1>a DEF TargetTypes
    <3>5. (srcEvents \in Seq(SourceEvents))'
      BY <1>a, <1>b, <1>c DEF SignalTypes
    <3> QED
      BY <3>1, <3>2, <3>3, <3>4, <3>5 DEF TransferTypes
  <2>2. \A b \in Attempts : Attempted(b)'
    BY <1>a DEF ChannelTypes, SourceTypes, TargetTypes, Attempted, AttemptSound
  <2>3. \A b \in Attempts : b > requested' => Unrequested(b)'
    BY <1>a DEF SignalTypes, ChannelTypes, Unrequested
  <2>4. FileRead'
    BY <1>a DEF SourceTypes, TargetTypes, FileRead
  <2>5. file'.by = 0 => NoOk'
    <3> SUFFICES ASSUME file'.by = 0 PROVE NoOk'
      OBVIOUS
    <3>1. NoOk
      BY <1>a DEF TargetTypes
    <3>2. Avoids(srcEvents', Dones)
      BY <1>a, <1>b, <1>f, <1>h, <3>1 DEF SignalTypes
    <3>3. ASSUME NEW b \in Attempts
          PROVE  Avoids(back'[b], {"ok"}) /\ slot'[b] # "ok"
      BY <1>a, <1>f, <1>i, <3>1 DEF ChannelTypes, SourceTypes
    <3>4. ASSUME NEW b \in Attempts
          PROVE  <<"ok", b>> \notin results'
      BY <1>f, <3>1
    <3> QED
      BY <1>g, <3>2, <3>3, <3>4
  <2>6. Transfer!AnswersMatch'
    BY <1>a DEF SignalTypes, Transfer!AnswersMatch
  <2>7. Transfer!NoTmpLeft'
    BY <1>a, <1>j DEF ChannelTypes, TargetTypes, Attempted, AttemptSound, Transfer!NoTmpLeft
  <2> QED
    BY <2>1, <2>2, <2>3, <2>4, <2>5, <2>6, <2>7 DEF TransferInv
<1>11. ASSUME NEW a \in Attempts, Transfer!Answer(a)
      PROVE  TransferInv'
  <2> USE <1>11 DEF Transfer!Answer, Transfer!signals, Transfer!source, Transfer!target, Transfer!channel, Transfer!events
  <2>1. TransferTypes'
    <3>1. SignalTypes'
      BY <1>a DEF SignalTypes
    <3>2. ChannelTypes'
      BY <1>a, <1>d, <1>e DEF ChannelTypes, Frames
    <3>3. SourceTypes'
      BY <1>a, <1>d DEF SourceTypes
    <3>4. TargetTypes'
      BY <1>a DEF TargetTypes
    <3>5. (srcEvents \in Seq(SourceEvents))'
      BY <1>a, <1>b, <1>c DEF SignalTypes
    <3> QED
      BY <3>1, <3>2, <3>3, <3>4, <3>5 DEF TransferTypes
  <2>2. \A b \in Attempts : Attempted(b)'
    BY <1>a, SMTT(30) DEF ChannelTypes, SourceTypes, TargetTypes, Attempted, AttemptSound
  <2>3. \A b \in Attempts : b > requested' => Unrequested(b)'
    BY <1>a DEF SignalTypes, ChannelTypes, Unrequested
  <2>4. FileRead'
    BY <1>a DEF SourceTypes, TargetTypes, FileRead
  <2>5. file'.by = 0 => NoOk'
    <3> SUFFICES ASSUME file'.by = 0 PROVE NoOk'
      OBVIOUS
    <3>1. NoOk
      BY <1>a DEF TargetTypes
    <3>2. Avoids(srcEvents', Dones)
      BY <1>a, <1>b, <1>f, <1>h, <3>1 DEF SignalTypes
    <3>3. ASSUME NEW b \in Attempts
          PROVE  Avoids(back'[b], {"ok"}) /\ slot'[b] # "ok"
      BY <1>a, <1>f, <1>i, <3>1 DEF ChannelTypes, SourceTypes
    <3>4. ASSUME NEW b \in Attempts
          PROVE  <<"ok", b>> \notin results'
      BY <1>f, <3>1
    <3> QED
      BY <1>g, <3>2, <3>3, <3>4
  <2>6. Transfer!AnswersMatch'
    BY <1>a DEF SignalTypes, Transfer!AnswersMatch
  <2>7. Transfer!NoTmpLeft'
    BY <1>a, <1>j DEF ChannelTypes, TargetTypes, Attempted, AttemptSound, Transfer!NoTmpLeft
  <2> QED
    BY <2>1, <2>2, <2>3, <2>4, <2>5, <2>6, <2>7 DEF TransferInv
<1>12. ASSUME NEW a \in Attempts, Transfer!Opens(a)
      PROVE  TransferInv'
  <2> USE <1>12 DEF Transfer!Opens, Transfer!signals, Transfer!source, Transfer!target, Transfer!channel, Transfer!events
  <2>1. TransferTypes'
    <3>1. SignalTypes'
      BY <1>a DEF SignalTypes
    <3>2. ChannelTypes'
      BY <1>a, <1>d, <1>e DEF ChannelTypes, Frames
    <3>3. SourceTypes'
      BY <1>a, <1>d DEF SourceTypes
    <3>4. TargetTypes'
      BY <1>a DEF TargetTypes
    <3>5. (srcEvents \in Seq(SourceEvents))'
      BY <1>a, <1>b, <1>c DEF SignalTypes
    <3> QED
      BY <3>1, <3>2, <3>3, <3>4, <3>5 DEF TransferTypes
  <2>0. /\ chan[a] = "connecting" /\ sending[a] = "idle" /\ read[a] = 0 /\ upload[a] = -1
        /\ "dst" \notin heard[a]
    BY DEF Attempted, AttemptSound
  <2>00. Wired(<<"start">>, "sending", 0, -1)
    BY DEF Wired, Ends
  <2>2. \A b \in Attempts : Attempted(b)'
    BY <1>a, <2>0, <2>00 DEF ChannelTypes, SourceTypes, TargetTypes, Attempted, AttemptSound
  <2>3. \A b \in Attempts : b > requested' => Unrequested(b)'
    BY <1>a DEF SignalTypes, ChannelTypes, Unrequested
  <2>4. FileRead'
    BY <1>a DEF SourceTypes, TargetTypes, FileRead, Attempted, AttemptSound
  <2>5. file'.by = 0 => NoOk'
    <3> SUFFICES ASSUME file'.by = 0 PROVE NoOk'
      OBVIOUS
    <3>1. NoOk
      BY <1>a DEF TargetTypes
    <3>2. Avoids(srcEvents', Dones)
      BY <1>a, <1>b, <1>f, <1>h, <3>1 DEF SignalTypes
    <3>3. ASSUME NEW b \in Attempts
          PROVE  Avoids(back'[b], {"ok"}) /\ slot'[b] # "ok"
      BY <1>a, <1>f, <1>i, <3>1 DEF ChannelTypes, SourceTypes
    <3>4. ASSUME NEW b \in Attempts
          PROVE  <<"ok", b>> \notin results'
      BY <1>f, <3>1
    <3> QED
      BY <1>g, <3>2, <3>3, <3>4
  <2>6. Transfer!AnswersMatch'
    BY <1>a DEF SignalTypes, Transfer!AnswersMatch
  <2>7. Transfer!NoTmpLeft'
    BY <1>a, <1>j DEF ChannelTypes, TargetTypes, Attempted, AttemptSound, Transfer!NoTmpLeft
  <2> QED
    BY <2>1, <2>2, <2>3, <2>4, <2>5, <2>6, <2>7 DEF TransferInv
<1>13. ASSUME NEW a \in Attempts, Transfer!SendFails(a)
      PROVE  TransferInv'
  <2> USE <1>13 DEF Transfer!SendFails, Transfer!signals, Transfer!source, Transfer!target, Transfer!channel, Transfer!events
  <2>1. TransferTypes'
    <3>1. SignalTypes'
      BY <1>a DEF SignalTypes
    <3>2. ChannelTypes'
      BY <1>a, <1>d, <1>e DEF ChannelTypes, Frames
    <3>3. SourceTypes'
      BY <1>a, <1>d DEF SourceTypes
    <3>4. TargetTypes'
      BY <1>a DEF TargetTypes
    <3>5. (srcEvents \in Seq(SourceEvents))'
      BY <1>a, <1>b, <1>c DEF SignalTypes
    <3> QED
      BY <3>1, <3>2, <3>3, <3>4, <3>5 DEF TransferTypes
  <2>2. \A b \in Attempts : Attempted(b)'
    BY <1>a, SMTT(30) DEF ChannelTypes, SourceTypes, TargetTypes, Attempted, AttemptSound, Wired
  <2>3. \A b \in Attempts : b > requested' => Unrequested(b)'
    BY <1>a DEF SignalTypes, ChannelTypes, Unrequested
  <2>4. FileRead'
    BY <1>a DEF SourceTypes, TargetTypes, FileRead
  <2>5. file'.by = 0 => NoOk'
    <3> SUFFICES ASSUME file'.by = 0 PROVE NoOk'
      OBVIOUS
    <3>1. NoOk
      BY <1>a DEF TargetTypes
    <3>2. Avoids(srcEvents', Dones)
      BY <1>a, <1>b, <1>f, <1>h, <3>1 DEF SignalTypes
    <3>3. ASSUME NEW b \in Attempts
          PROVE  Avoids(back'[b], {"ok"}) /\ slot'[b] # "ok"
      BY <1>a, <1>f, <1>i, <3>1 DEF ChannelTypes, SourceTypes
    <3>4. ASSUME NEW b \in Attempts
          PROVE  <<"ok", b>> \notin results'
      BY <1>f, <3>1
    <3> QED
      BY <1>g, <3>2, <3>3, <3>4
  <2>6. Transfer!AnswersMatch'
    BY <1>a DEF SignalTypes, Transfer!AnswersMatch
  <2>7. Transfer!NoTmpLeft'
    BY <1>a, <1>j DEF ChannelTypes, TargetTypes, Attempted, AttemptSound, Transfer!NoTmpLeft
  <2> QED
    BY <2>1, <2>2, <2>3, <2>4, <2>5, <2>6, <2>7 DEF TransferInv
<1>14. ASSUME NEW a \in Attempts, Transfer!SendChunk(a)
      PROVE  TransferInv'
  <2> USE <1>14 DEF Transfer!SendChunk, Transfer!signals, Transfer!source, Transfer!target, Transfer!channel, Transfer!events
  <2>1. TransferTypes'
    <3>1. SignalTypes'
      BY <1>a DEF SignalTypes
    <3>2. ChannelTypes'
      BY <1>a, <1>d, <1>e DEF ChannelTypes, Frames
    <3>3. SourceTypes'
      BY <1>a, <1>d DEF SourceTypes
    <3>4. TargetTypes'
      BY <1>a DEF TargetTypes
    <3>5. (srcEvents \in Seq(SourceEvents))'
      BY <1>a, <1>b, <1>c DEF SignalTypes
    <3> QED
      BY <3>1, <3>2, <3>3, <3>4, <3>5 DEF TransferTypes
  <2>2. ASSUME NEW b \in Attempts PROVE Attempted(b)'
    <3>1. Wired(Append(wire[a], "chunk"), "sending", read[a] + 1, upload[a])
          /\ Wired(Append(wire[a], "end"), "await", read[a], upload[a])
      BY <1>a, WireSent DEF ChannelTypes, SourceTypes, TargetTypes, Attempted, AttemptSound
    <3> QED
      BY <1>a, <3>1 DEF ChannelTypes, SourceTypes, TargetTypes, Attempted, AttemptSound
  <2>3. \A b \in Attempts : b > requested' => Unrequested(b)'
    BY <1>a DEF SignalTypes, ChannelTypes, Unrequested
  <2>4. FileRead'
    BY <1>a DEF SourceTypes, TargetTypes, FileRead
  <2>5. file'.by = 0 => NoOk'
    <3> SUFFICES ASSUME file'.by = 0 PROVE NoOk'
      OBVIOUS
    <3>1. NoOk
      BY <1>a DEF TargetTypes
    <3>2. Avoids(srcEvents', Dones)
      BY <1>a, <1>b, <1>f, <1>h, <3>1 DEF SignalTypes
    <3>3. ASSUME NEW b \in Attempts
          PROVE  Avoids(back'[b], {"ok"}) /\ slot'[b] # "ok"
      BY <1>a, <1>f, <1>i, <3>1 DEF ChannelTypes, SourceTypes
    <3>4. ASSUME NEW b \in Attempts
          PROVE  <<"ok", b>> \notin results'
      BY <1>f, <3>1
    <3> QED
      BY <1>g, <3>2, <3>3, <3>4
  <2>6. Transfer!AnswersMatch'
    BY <1>a DEF SignalTypes, Transfer!AnswersMatch
  <2>7. Transfer!NoTmpLeft'
    BY <1>a, <1>j DEF ChannelTypes, TargetTypes, Attempted, AttemptSound, Transfer!NoTmpLeft
  <2> QED
    BY <2>1, <2>2, <2>3, <2>4, <2>5, <2>6, <2>7 DEF TransferInv
<1>15. ASSUME NEW a \in Attempts, Transfer!SendEnd(a)
      PROVE  TransferInv'
  <2> USE <1>15 DEF Transfer!SendEnd, Transfer!signals, Transfer!source, Transfer!target, Transfer!channel, Transfer!events
  <2>1. TransferTypes'
    <3>1. SignalTypes'
      BY <1>a DEF SignalTypes
    <3>2. ChannelTypes'
      BY <1>a, <1>d, <1>e DEF ChannelTypes, Frames
    <3>3. SourceTypes'
      BY <1>a, <1>d DEF SourceTypes
    <3>4. TargetTypes'
      BY <1>a DEF TargetTypes
    <3>5. (srcEvents \in Seq(SourceEvents))'
      BY <1>a, <1>b, <1>c DEF SignalTypes
    <3> QED
      BY <3>1, <3>2, <3>3, <3>4, <3>5 DEF TransferTypes
  <2>2. ASSUME NEW b \in Attempts PROVE Attempted(b)'
    <3>1. Wired(Append(wire[a], "chunk"), "sending", read[a] + 1, upload[a])
          /\ Wired(Append(wire[a], "end"), "await", read[a], upload[a])
      BY <1>a, WireSent DEF ChannelTypes, SourceTypes, TargetTypes, Attempted, AttemptSound
    <3> QED
      BY <1>a, <3>1 DEF ChannelTypes, SourceTypes, TargetTypes, Attempted, AttemptSound
  <2>3. \A b \in Attempts : b > requested' => Unrequested(b)'
    BY <1>a DEF SignalTypes, ChannelTypes, Unrequested
  <2>4. FileRead'
    BY <1>a DEF SourceTypes, TargetTypes, FileRead
  <2>5. file'.by = 0 => NoOk'
    <3> SUFFICES ASSUME file'.by = 0 PROVE NoOk'
      OBVIOUS
    <3>1. NoOk
      BY <1>a DEF TargetTypes
    <3>2. Avoids(srcEvents', Dones)
      BY <1>a, <1>b, <1>f, <1>h, <3>1 DEF SignalTypes
    <3>3. ASSUME NEW b \in Attempts
          PROVE  Avoids(back'[b], {"ok"}) /\ slot'[b] # "ok"
      BY <1>a, <1>f, <1>i, <3>1 DEF ChannelTypes, SourceTypes
    <3>4. ASSUME NEW b \in Attempts
          PROVE  <<"ok", b>> \notin results'
      BY <1>f, <3>1
    <3> QED
      BY <1>g, <3>2, <3>3, <3>4
  <2>6. Transfer!AnswersMatch'
    BY <1>a DEF SignalTypes, Transfer!AnswersMatch
  <2>7. Transfer!NoTmpLeft'
    BY <1>a, <1>j DEF ChannelTypes, TargetTypes, Attempted, AttemptSound, Transfer!NoTmpLeft
  <2> QED
    BY <2>1, <2>2, <2>3, <2>4, <2>5, <2>6, <2>7 DEF TransferInv
<1>16. ASSUME NEW a \in Attempts, Transfer!Breaks(a)
      PROVE  TransferInv'
  <2> USE <1>16 DEF Transfer!Breaks, Transfer!Closed, Transfer!Fault, Transfer!signals, Transfer!source, Transfer!target, Transfer!channel, Transfer!events
  <2>1. TransferTypes'
    <3>1. SignalTypes'
      BY <1>a DEF SignalTypes
    <3>2. ChannelTypes'
      BY <1>a, <1>d, <1>e DEF ChannelTypes, Frames
    <3>3. SourceTypes'
      BY <1>a, <1>d DEF SourceTypes
    <3>4. TargetTypes'
      BY <1>a DEF TargetTypes
    <3>5. (srcEvents \in Seq(SourceEvents))'
      BY <1>a, <1>b, <1>c DEF SignalTypes
    <3> QED
      BY <3>1, <3>2, <3>3, <3>4, <3>5 DEF TransferTypes
  <2>2. \A b \in Attempts : Attempted(b)'
    BY <1>a DEF ChannelTypes, SourceTypes, TargetTypes, Attempted, AttemptSound
  <2>3. \A b \in Attempts : b > requested' => Unrequested(b)'
    BY <1>a DEF SignalTypes, ChannelTypes, Unrequested
  <2>4. FileRead'
    BY <1>a DEF SourceTypes, TargetTypes, FileRead
  <2>5. file'.by = 0 => NoOk'
    <3> SUFFICES ASSUME file'.by = 0 PROVE NoOk'
      OBVIOUS
    <3>1. NoOk
      BY <1>a DEF TargetTypes
    <3>2. Avoids(srcEvents', Dones)
      BY <1>a, <1>b, <1>f, <1>h, <3>1 DEF SignalTypes
    <3>3. ASSUME NEW b \in Attempts
          PROVE  Avoids(back'[b], {"ok"}) /\ slot'[b] # "ok"
      BY <1>a, <1>f, <1>i, <3>1 DEF ChannelTypes, SourceTypes
    <3>4. ASSUME NEW b \in Attempts
          PROVE  <<"ok", b>> \notin results'
      BY <1>f, <3>1
    <3> QED
      BY <1>g, <3>2, <3>3, <3>4
  <2>6. Transfer!AnswersMatch'
    BY <1>a DEF SignalTypes, Transfer!AnswersMatch
  <2>7. Transfer!NoTmpLeft'
    BY <1>a, <1>j DEF ChannelTypes, TargetTypes, Attempted, AttemptSound, Transfer!NoTmpLeft
  <2> QED
    BY <2>1, <2>2, <2>3, <2>4, <2>5, <2>6, <2>7 DEF TransferInv
<1>17. ASSUME NEW a \in Attempts, Transfer!Settles(a)
      PROVE  TransferInv'
  <2> USE <1>17 DEF Transfer!Settles, Transfer!Reports, Transfer!signals, Transfer!source, Transfer!target, Transfer!channel, Transfer!events
  <2>1. TransferTypes'
    <3>1. SignalTypes'
      BY <1>a DEF SignalTypes
    <3>2. ChannelTypes'
      BY <1>a, <1>d, <1>e DEF ChannelTypes, Frames
    <3>3. SourceTypes'
      BY <1>a, <1>d DEF SourceTypes
    <3>4. TargetTypes'
      BY <1>a DEF TargetTypes
    <3>5. (srcEvents \in Seq(SourceEvents))'
      BY <1>a, <1>b, <1>c DEF SignalTypes
    <3> QED
      BY <3>1, <3>2, <3>3, <3>4, <3>5 DEF TransferTypes
  <2>2. \A b \in Attempts : Attempted(b)'
    BY <1>a, SMTT(30) DEF ChannelTypes, SourceTypes, TargetTypes, Attempted, AttemptSound, Wired
  <2>3. \A b \in Attempts : b > requested' => Unrequested(b)'
    BY <1>a DEF SignalTypes, ChannelTypes, Unrequested
  <2>4. FileRead'
    BY <1>a DEF SourceTypes, TargetTypes, FileRead
  <2>5. file'.by = 0 => NoOk'
    <3> SUFFICES ASSUME file'.by = 0 PROVE NoOk'
      OBVIOUS
    <3>1. NoOk
      BY <1>a DEF TargetTypes
    <3>2. Avoids(srcEvents', Dones)
      BY <1>a, <1>b, <1>f, <1>h, <3>1 DEF SignalTypes
    <3>3. ASSUME NEW b \in Attempts
          PROVE  Avoids(back'[b], {"ok"}) /\ slot'[b] # "ok"
      BY <1>a, <1>f, <1>i, <3>1 DEF ChannelTypes, SourceTypes
    <3>4. ASSUME NEW b \in Attempts
          PROVE  <<"ok", b>> \notin results'
      BY <1>f, <3>1
    <3> QED
      BY <1>g, <3>2, <3>3, <3>4
  <2>6. Transfer!AnswersMatch'
    BY <1>a DEF SignalTypes, Transfer!AnswersMatch
  <2>7. Transfer!NoTmpLeft'
    BY <1>a, <1>j DEF ChannelTypes, TargetTypes, Attempted, AttemptSound, Transfer!NoTmpLeft
  <2> QED
    BY <2>1, <2>2, <2>3, <2>4, <2>5, <2>6, <2>7 DEF TransferInv
<1>18. ASSUME NEW a \in Attempts, Transfer!AwaitTimesOut(a)
      PROVE  TransferInv'
  <2> USE <1>18 DEF Transfer!AwaitTimesOut, Transfer!Reports, Transfer!signals, Transfer!source, Transfer!target, Transfer!channel, Transfer!events
  <2>1. TransferTypes'
    <3>1. SignalTypes'
      BY <1>a DEF SignalTypes
    <3>2. ChannelTypes'
      BY <1>a, <1>d, <1>e DEF ChannelTypes, Frames
    <3>3. SourceTypes'
      BY <1>a, <1>d DEF SourceTypes
    <3>4. TargetTypes'
      BY <1>a DEF TargetTypes
    <3>5. (srcEvents \in Seq(SourceEvents))'
      BY <1>a, <1>b, <1>c DEF SignalTypes
    <3> QED
      BY <3>1, <3>2, <3>3, <3>4, <3>5 DEF TransferTypes
  <2>2. \A b \in Attempts : Attempted(b)'
    BY <1>a, SMTT(30) DEF ChannelTypes, SourceTypes, TargetTypes, Attempted, AttemptSound, Wired
  <2>3. \A b \in Attempts : b > requested' => Unrequested(b)'
    BY <1>a DEF SignalTypes, ChannelTypes, Unrequested
  <2>4. FileRead'
    BY <1>a DEF SourceTypes, TargetTypes, FileRead
  <2>5. file'.by = 0 => NoOk'
    <3> SUFFICES ASSUME file'.by = 0 PROVE NoOk'
      OBVIOUS
    <3>1. NoOk
      BY <1>a DEF TargetTypes
    <3>2. Avoids(srcEvents', Dones)
      BY <1>a, <1>b, <1>f, <1>h, <3>1 DEF SignalTypes
    <3>3. ASSUME NEW b \in Attempts
          PROVE  Avoids(back'[b], {"ok"}) /\ slot'[b] # "ok"
      BY <1>a, <1>f, <1>i, <3>1 DEF ChannelTypes, SourceTypes
    <3>4. ASSUME NEW b \in Attempts
          PROVE  <<"ok", b>> \notin results'
      BY <1>f, <3>1
    <3> QED
      BY <1>g, <3>2, <3>3, <3>4
  <2>6. Transfer!AnswersMatch'
    BY <1>a DEF SignalTypes, Transfer!AnswersMatch
  <2>7. Transfer!NoTmpLeft'
    BY <1>a, <1>j DEF ChannelTypes, TargetTypes, Attempted, AttemptSound, Transfer!NoTmpLeft
  <2> QED
    BY <2>1, <2>2, <2>3, <2>4, <2>5, <2>6, <2>7 DEF TransferInv
<1>19. ASSUME NEW a \in Attempts, Transfer!Acknowledged(a)
      PROVE  TransferInv'
  <2> USE <1>19 DEF Transfer!Acknowledged, Transfer!signals, Transfer!source, Transfer!target, Transfer!channel, Transfer!events
  <2>1. TransferTypes'
    <3>1. SignalTypes'
      BY <1>a DEF SignalTypes
    <3>2. ChannelTypes'
      BY <1>a, <1>d, <1>e DEF ChannelTypes, Frames
    <3>3. SourceTypes'
      BY <1>a, <1>d DEF SourceTypes
    <3>4. TargetTypes'
      BY <1>a DEF TargetTypes
    <3>5. (srcEvents \in Seq(SourceEvents))'
      BY <1>a, <1>b, <1>c DEF SignalTypes
    <3> QED
      BY <3>1, <3>2, <3>3, <3>4, <3>5 DEF TransferTypes
  <2>2. \A b \in Attempts : Attempted(b)'
    BY <1>a DEF ChannelTypes, SourceTypes, TargetTypes, Attempted, AttemptSound
  <2>3. \A b \in Attempts : b > requested' => Unrequested(b)'
    BY <1>a DEF SignalTypes, ChannelTypes, Unrequested
  <2>4. FileRead'
    BY <1>a DEF SourceTypes, TargetTypes, FileRead
  <2>5. file'.by = 0 => NoOk'
    <3> SUFFICES ASSUME file'.by = 0 PROVE NoOk'
      OBVIOUS
    <3>1. NoOk
      BY <1>a DEF TargetTypes
    <3>2. Avoids(srcEvents', Dones)
      BY <1>a, <1>b, <1>f, <1>h, <3>1 DEF SignalTypes
    <3>3. ASSUME NEW b \in Attempts
          PROVE  Avoids(back'[b], {"ok"}) /\ slot'[b] # "ok"
      BY <1>a, <1>f, <1>i, <3>1 DEF ChannelTypes, SourceTypes
    <3>4. ASSUME NEW b \in Attempts
          PROVE  <<"ok", b>> \notin results'
      BY <1>f, <3>1
    <3> QED
      BY <1>g, <3>2, <3>3, <3>4
  <2>6. Transfer!AnswersMatch'
    BY <1>a DEF SignalTypes, Transfer!AnswersMatch
  <2>7. Transfer!NoTmpLeft'
    BY <1>a, <1>j DEF ChannelTypes, TargetTypes, Attempted, AttemptSound, Transfer!NoTmpLeft
  <2> QED
    BY <2>1, <2>2, <2>3, <2>4, <2>5, <2>6, <2>7 DEF TransferInv
<1>20. ASSUME NEW a \in Attempts, Transfer!SourceHearsClose(a)
      PROVE  TransferInv'
  <2> USE <1>20 DEF Transfer!SourceHearsClose, Transfer!signals, Transfer!source, Transfer!target, Transfer!channel, Transfer!events
  <2>1. TransferTypes'
    <3>1. SignalTypes'
      BY <1>a DEF SignalTypes
    <3>2. ChannelTypes'
      BY <1>a, <1>d, <1>e DEF ChannelTypes, Frames
    <3>3. SourceTypes'
      BY <1>a, <1>d DEF SourceTypes
    <3>4. TargetTypes'
      BY <1>a DEF TargetTypes
    <3>5. (srcEvents \in Seq(SourceEvents))'
      BY <1>a, <1>b, <1>c DEF SignalTypes
    <3> QED
      BY <3>1, <3>2, <3>3, <3>4, <3>5 DEF TransferTypes
  <2>2. \A b \in Attempts : Attempted(b)'
    BY <1>a DEF ChannelTypes, SourceTypes, TargetTypes, Attempted, AttemptSound
  <2>3. \A b \in Attempts : b > requested' => Unrequested(b)'
    BY <1>a DEF SignalTypes, ChannelTypes, Unrequested
  <2>4. FileRead'
    BY <1>a DEF SourceTypes, TargetTypes, FileRead
  <2>5. file'.by = 0 => NoOk'
    <3> SUFFICES ASSUME file'.by = 0 PROVE NoOk'
      OBVIOUS
    <3>1. NoOk
      BY <1>a DEF TargetTypes
    <3>2. Avoids(srcEvents', Dones)
      BY <1>a, <1>b, <1>f, <1>h, <3>1 DEF SignalTypes
    <3>3. ASSUME NEW b \in Attempts
          PROVE  Avoids(back'[b], {"ok"}) /\ slot'[b] # "ok"
      BY <1>a, <1>f, <1>i, <3>1 DEF ChannelTypes, SourceTypes
    <3>4. ASSUME NEW b \in Attempts
          PROVE  <<"ok", b>> \notin results'
      BY <1>f, <3>1
    <3> QED
      BY <1>g, <3>2, <3>3, <3>4
  <2>6. Transfer!AnswersMatch'
    BY <1>a DEF SignalTypes, Transfer!AnswersMatch
  <2>7. Transfer!NoTmpLeft'
    BY <1>a, <1>j DEF ChannelTypes, TargetTypes, Attempted, AttemptSound, Transfer!NoTmpLeft
  <2> QED
    BY <2>1, <2>2, <2>3, <2>4, <2>5, <2>6, <2>7 DEF TransferInv
<1>21. ASSUME NEW a \in Attempts, Transfer!Starts(a)
      PROVE  TransferInv'
  <2> USE <1>21 DEF Transfer!Starts, Transfer!Took, Transfer!GivesUp, Transfer!Answers, Transfer!signals, Transfer!source, Transfer!target, Transfer!channel, Transfer!events
  <2>1. TransferTypes'
    <3>1. SignalTypes'
      BY <1>a DEF SignalTypes
    <3>2. ChannelTypes'
      <4>1. wire' \in [Attempts -> Seq(Frames)]
        BY <1>a, <1>d DEF ChannelTypes
      <4>2. back' \in [Attempts -> Seq({"ok", "error"})]
        BY <1>a, <1>d DEF ChannelTypes
      <4> QED
        BY <1>a, <4>1, <4>2 DEF ChannelTypes
    <3>3. SourceTypes'
      BY <1>a, <1>d DEF SourceTypes
    <3>4. TargetTypes'
      <4>1. upload' \in [Attempts -> Nat \cup {-1}]
        BY <1>a, SMTT(30) DEF TargetTypes
      <4>2. tmp' \subseteq Attempts
        BY <1>a DEF TargetTypes
      <4>3. file' \in [by : Attempts \cup {0}, size : Nat]
        BY <1>a DEF TargetTypes
      <4> QED
        BY <4>1, <4>2, <4>3 DEF TargetTypes
    <3>5. (srcEvents \in Seq(SourceEvents))'
      BY <1>a, <1>b, <1>c DEF SignalTypes
    <3> QED
      BY <3>1, <3>2, <3>3, <3>4, <3>5 DEF TransferTypes
  <2>0. /\ Wired(Tail(wire[a]), sending[a], read[a], -1)
        /\ Head(wire[a]) = "start" => Wired(Tail(wire[a]), sending[a], read[a], 0)
        /\ Head(wire[a]) = "chunk" /\ upload[a] # -1 => Wired(Tail(wire[a]), sending[a], read[a], upload[a] + 1)
        /\ Head(wire[a]) = "end" => sending[a] \in {"await", "done"} /\ (upload[a] # -1 => upload[a] = read[a])
    <3>1. /\ wire[a] \in Seq(Frames) /\ wire[a] # <<>> /\ read[a] \in Nat /\ upload[a] \in Nat \cup {-1}
          /\ Wired(wire[a], sending[a], read[a], upload[a])
      BY <1>a, <1>j DEF SourceTypes, TargetTypes
    <3> HIDE <1>0
    <3> QED
      BY <3>1, WireTaken
  <2>2. ASSUME NEW b \in Attempts PROVE Attempted(b)'
    BY <1>a, <1>j, <2>0 DEF ChannelTypes, SourceTypes, TargetTypes, Attempted, AttemptSound
  <2>3. \A b \in Attempts : b > requested' => Unrequested(b)'
    BY <1>a DEF SignalTypes, ChannelTypes, Unrequested
  <2>4. FileRead'
    BY <1>a DEF SourceTypes, TargetTypes, FileRead
  <2>5. file'.by = 0 => NoOk'
    <3> SUFFICES ASSUME file'.by = 0 PROVE NoOk'
      OBVIOUS
    <3>1. NoOk
      BY <1>a DEF TargetTypes
    <3>2. Avoids(srcEvents', Dones)
      BY <1>a, <1>b, <1>f, <1>h, <3>1 DEF SignalTypes
    <3>3. ASSUME NEW b \in Attempts
          PROVE  Avoids(back'[b], {"ok"}) /\ slot'[b] # "ok"
      BY <1>a, <1>f, <1>i, <3>1 DEF ChannelTypes, SourceTypes
    <3>4. ASSUME NEW b \in Attempts
          PROVE  <<"ok", b>> \notin results'
      BY <1>f, <3>1
    <3> QED
      BY <1>g, <3>2, <3>3, <3>4
  <2>6. Transfer!AnswersMatch'
    BY <1>a DEF SignalTypes, Transfer!AnswersMatch
  <2>7. Transfer!NoTmpLeft'
    BY <1>a, <1>j DEF ChannelTypes, TargetTypes, Attempted, AttemptSound, Transfer!NoTmpLeft
  <2> QED
    BY <2>1, <2>2, <2>3, <2>4, <2>5, <2>6, <2>7 DEF TransferInv
<1>22. ASSUME NEW a \in Attempts, Transfer!Writes(a)
      PROVE  TransferInv'
  <2> USE <1>22 DEF Transfer!Writes, Transfer!Took, Transfer!GivesUp, Transfer!Answers, Transfer!signals, Transfer!source, Transfer!target, Transfer!channel, Transfer!events
  <2>1. TransferTypes'
    <3>1. SignalTypes'
      BY <1>a DEF SignalTypes
    <3>2. ChannelTypes'
      <4>1. wire' \in [Attempts -> Seq(Frames)]
        BY <1>a, <1>d DEF ChannelTypes
      <4>2. back' \in [Attempts -> Seq({"ok", "error"})]
        BY <1>a, <1>d DEF ChannelTypes
      <4> QED
        BY <1>a, <4>1, <4>2 DEF ChannelTypes
    <3>3. SourceTypes'
      BY <1>a, <1>d DEF SourceTypes
    <3>4. TargetTypes'
      <4>1. upload' \in [Attempts -> Nat \cup {-1}]
        BY <1>a DEF TargetTypes
      <4>2. tmp' \subseteq Attempts
        BY <1>a DEF TargetTypes
      <4>3. file' \in [by : Attempts \cup {0}, size : Nat]
        BY <1>a DEF TargetTypes
      <4> QED
        BY <4>1, <4>2, <4>3 DEF TargetTypes
    <3>5. (srcEvents \in Seq(SourceEvents))'
      BY <1>a, <1>b, <1>c DEF SignalTypes
    <3> QED
      BY <3>1, <3>2, <3>3, <3>4, <3>5 DEF TransferTypes
  <2>0. /\ Wired(Tail(wire[a]), sending[a], read[a], -1)
        /\ Head(wire[a]) = "start" => Wired(Tail(wire[a]), sending[a], read[a], 0)
        /\ Head(wire[a]) = "chunk" /\ upload[a] # -1 => Wired(Tail(wire[a]), sending[a], read[a], upload[a] + 1)
        /\ Head(wire[a]) = "end" => sending[a] \in {"await", "done"} /\ (upload[a] # -1 => upload[a] = read[a])
    <3>1. /\ wire[a] \in Seq(Frames) /\ wire[a] # <<>> /\ read[a] \in Nat /\ upload[a] \in Nat \cup {-1}
          /\ Wired(wire[a], sending[a], read[a], upload[a])
      BY <1>a, <1>j DEF SourceTypes, TargetTypes
    <3> HIDE <1>0
    <3> QED
      BY <3>1, WireTaken
  <2>2. ASSUME NEW b \in Attempts PROVE Attempted(b)'
    BY <1>a, <1>j, <2>0, ZenonT(60) DEF ChannelTypes, SourceTypes, TargetTypes, Attempted, AttemptSound
  <2>3. \A b \in Attempts : b > requested' => Unrequested(b)'
    BY <1>a DEF SignalTypes, ChannelTypes, Unrequested
  <2>4. FileRead'
    BY <1>a DEF SourceTypes, TargetTypes, FileRead
  <2>5. file'.by = 0 => NoOk'
    <3> SUFFICES ASSUME file'.by = 0 PROVE NoOk'
      OBVIOUS
    <3>1. NoOk
      BY <1>a DEF TargetTypes
    <3>2. Avoids(srcEvents', Dones)
      BY <1>a, <1>b, <1>f, <1>h, <3>1 DEF SignalTypes
    <3>3. ASSUME NEW b \in Attempts
          PROVE  Avoids(back'[b], {"ok"}) /\ slot'[b] # "ok"
      BY <1>a, <1>f, <1>i, <3>1 DEF ChannelTypes, SourceTypes
    <3>4. ASSUME NEW b \in Attempts
          PROVE  <<"ok", b>> \notin results'
      BY <1>f, <3>1
    <3> QED
      BY <1>g, <3>2, <3>3, <3>4
  <2>6. Transfer!AnswersMatch'
    BY <1>a DEF SignalTypes, Transfer!AnswersMatch
  <2>7. Transfer!NoTmpLeft'
    BY <1>a, <1>j DEF ChannelTypes, TargetTypes, Attempted, AttemptSound, Transfer!NoTmpLeft
  <2> QED
    BY <2>1, <2>2, <2>3, <2>4, <2>5, <2>6, <2>7 DEF TransferInv
<1>23. ASSUME NEW a \in Attempts, Transfer!Finishes(a)
      PROVE  TransferInv'
  <2> USE <1>23 DEF Transfer!Finishes, Transfer!Took, Transfer!GivesUp, Transfer!Answers, Transfer!signals, Transfer!source, Transfer!target, Transfer!channel, Transfer!events
  <2>1. TransferTypes'
    <3>1. SignalTypes'
      BY <1>a DEF SignalTypes
    <3>2. ChannelTypes'
      <4>1. wire' \in [Attempts -> Seq(Frames)]
        BY <1>a, <1>d DEF ChannelTypes
      <4>2. back' \in [Attempts -> Seq({"ok", "error"})]
        BY <1>a, <1>d DEF ChannelTypes
      <4> QED
        BY <1>a, <4>1, <4>2 DEF ChannelTypes
    <3>3. SourceTypes'
      BY <1>a, <1>d DEF SourceTypes
    <3>4. TargetTypes'
      <4>1. upload' \in [Attempts -> Nat \cup {-1}]
        BY <1>a DEF TargetTypes
      <4>2. tmp' \subseteq Attempts
        BY <1>a DEF TargetTypes
      <4>3. file' \in [by : Attempts \cup {0}, size : Nat]
        BY <1>a DEF TargetTypes
      <4> QED
        BY <4>1, <4>2, <4>3 DEF TargetTypes
    <3>5. (srcEvents \in Seq(SourceEvents))'
      BY <1>a, <1>b, <1>c DEF SignalTypes
    <3> QED
      BY <3>1, <3>2, <3>3, <3>4, <3>5 DEF TransferTypes
  <2>0. /\ Wired(Tail(wire[a]), sending[a], read[a], -1)
        /\ Head(wire[a]) = "start" => Wired(Tail(wire[a]), sending[a], read[a], 0)
        /\ Head(wire[a]) = "chunk" /\ upload[a] # -1 => Wired(Tail(wire[a]), sending[a], read[a], upload[a] + 1)
        /\ Head(wire[a]) = "end" => sending[a] \in {"await", "done"} /\ (upload[a] # -1 => upload[a] = read[a])
    <3>1. /\ wire[a] \in Seq(Frames) /\ wire[a] # <<>> /\ read[a] \in Nat /\ upload[a] \in Nat \cup {-1}
          /\ Wired(wire[a], sending[a], read[a], upload[a])
      BY <1>a, <1>j DEF SourceTypes, TargetTypes
    <3> HIDE <1>0
    <3> QED
      BY <3>1, WireTaken
  <2>2. ASSUME NEW b \in Attempts PROVE Attempted(b)'
    BY <1>a, <1>j, <2>0 DEF ChannelTypes, SourceTypes, TargetTypes, Attempted, AttemptSound
  <2>3. \A b \in Attempts : b > requested' => Unrequested(b)'
    BY <1>a DEF SignalTypes, ChannelTypes, Unrequested
  <2>4. FileRead'
    BY <1>a, <2>0 DEF SourceTypes, TargetTypes, FileRead
  <2>5. file'.by = 0 => NoOk'
    <3> SUFFICES ASSUME file'.by = 0 PROVE NoOk'
      OBVIOUS
    <3>1. NoOk
      BY <1>a DEF TargetTypes
    <3>2. Avoids(srcEvents', Dones)
      BY <1>a, <1>b, <1>f, <1>h, <3>1 DEF SignalTypes
    <3>3. ASSUME NEW b \in Attempts
          PROVE  Avoids(back'[b], {"ok"}) /\ slot'[b] # "ok"
      <4>1. \/ back' = [back EXCEPT ![a] = Append(back[a], "error")]
            \/ UNCHANGED back
        BY <1>a, SMTT(30) DEF TargetTypes
      <4> QED
        BY <4>1, <1>a, <1>f, <1>i, <3>1 DEF ChannelTypes, SourceTypes
    <3>4. ASSUME NEW b \in Attempts
          PROVE  <<"ok", b>> \notin results'
      BY <1>f, <3>1
    <3> QED
      BY <1>g, <3>2, <3>3, <3>4
  <2>6. Transfer!AnswersMatch'
    BY <1>a DEF SignalTypes, Transfer!AnswersMatch
  <2>7. Transfer!NoTmpLeft'
    BY <1>a, <1>j DEF ChannelTypes, TargetTypes, Attempted, AttemptSound, Transfer!NoTmpLeft
  <2> QED
    BY <2>1, <2>2, <2>3, <2>4, <2>5, <2>6, <2>7 DEF TransferInv
<1>24. ASSUME NEW a \in Attempts, Transfer!TargetHearsClose(a)
      PROVE  TransferInv'
  <2> USE <1>24 DEF Transfer!TargetHearsClose, Transfer!signals, Transfer!source, Transfer!target, Transfer!channel, Transfer!events
  <2>1. TransferTypes'
    <3>1. SignalTypes'
      BY <1>a DEF SignalTypes
    <3>2. ChannelTypes'
      BY <1>a, <1>d, <1>e DEF ChannelTypes, Frames
    <3>3. SourceTypes'
      BY <1>a, <1>d DEF SourceTypes
    <3>4. TargetTypes'
      BY <1>a DEF TargetTypes
    <3>5. (srcEvents \in Seq(SourceEvents))'
      BY <1>a, <1>b, <1>c DEF SignalTypes
    <3> QED
      BY <3>1, <3>2, <3>3, <3>4, <3>5 DEF TransferTypes
  <2>2. \A b \in Attempts : Attempted(b)'
    BY <1>a DEF ChannelTypes, SourceTypes, TargetTypes, Attempted, AttemptSound
  <2>3. \A b \in Attempts : b > requested' => Unrequested(b)'
    BY <1>a DEF SignalTypes, ChannelTypes, Unrequested
  <2>4. FileRead'
    BY <1>a DEF SourceTypes, TargetTypes, FileRead
  <2>5. file'.by = 0 => NoOk'
    <3> SUFFICES ASSUME file'.by = 0 PROVE NoOk'
      OBVIOUS
    <3>1. NoOk
      BY <1>a DEF TargetTypes
    <3>2. Avoids(srcEvents', Dones)
      BY <1>a, <1>b, <1>f, <1>h, <3>1 DEF SignalTypes
    <3>3. ASSUME NEW b \in Attempts
          PROVE  Avoids(back'[b], {"ok"}) /\ slot'[b] # "ok"
      BY <1>a, <1>f, <1>i, <3>1 DEF ChannelTypes, SourceTypes
    <3>4. ASSUME NEW b \in Attempts
          PROVE  <<"ok", b>> \notin results'
      BY <1>f, <3>1
    <3> QED
      BY <1>g, <3>2, <3>3, <3>4
  <2>6. Transfer!AnswersMatch'
    BY <1>a DEF SignalTypes, Transfer!AnswersMatch
  <2>7. Transfer!NoTmpLeft'
    BY <1>a, <1>j DEF ChannelTypes, TargetTypes, Attempted, AttemptSound, Transfer!NoTmpLeft
  <2> QED
    BY <2>1, <2>2, <2>3, <2>4, <2>5, <2>6, <2>7 DEF TransferInv
<1>25. CASE UNCHANGED Transfer!vars
  <2> USE <1>25 DEF Transfer!vars, Transfer!signals, Transfer!source, Transfer!target, Transfer!channel, Transfer!events
  <2>1. TransferTypes'
    BY <1>a DEF TransferTypes, SignalTypes, ChannelTypes, SourceTypes, TargetTypes
  <2>2. \A b \in Attempts : Attempted(b)' /\ (b > requested' => Unrequested(b)')
    BY DEF Attempted, Unrequested
  <2>3. FileRead' /\ (file'.by = 0 => NoOk') /\ Transfer!AnswersMatch' /\ Transfer!NoTmpLeft'
    BY DEF FileRead, NoOk, Transfer!AnswersMatch, Transfer!NoTmpLeft
  <2> QED
    BY <2>1, <2>2, <2>3 DEF TransferInv
<1> QED
  BY <1>1, <1>2, <1>3, <1>4, <1>5, <1>6, <1>7, <1>8, <1>9, <1>10, <1>11, <1>12, <1>13, <1>14, <1>15, <1>16, <1>17, <1>18, <1>19, <1>20, <1>21, <1>22, <1>23, <1>24, <1>25
     DEF Transfer!Next, Transfer!Source, Transfer!Target

\* No attempt gets the answer of another, the destination is replaced as a whole or
\* not at all, the device hears of success only then, and a closed channel leaves
\* no temporary file: for any number of attempts, sizes and failures
\* (daemon.rs 4252-4256, daemon/files.rs 641-779, 1028-1044).
THEOREM TransferIsSound == Transfer!Init /\ [][Transfer!Next]_(Transfer!vars) => []TransferSound
<1>1. TransferInv => TransferSound
  BY DEF TransferInv, TransferTypes, TargetTypes, FileRead, NoOk, TransferSound, Transfer!FileWhole
<1> QED
  BY TransferInit, TransferStep, <1>1, PTL

-----------------------------------------------------------------------------
(* Pairing: one identity, and as few registrations as can be.              *)

PairTypes ==
    /\ pairing \in {"idle", "wipe", "keypair", "polling", "put", "rename", "persist", "restart"}
    /\ used \in Nat /\ resets \in Nat /\ pairFaults \in Nat
    /\ IsFiniteSet(records) /\ records \subseteq 1..used
    /\ key \in 0..used
    /\ claim \in [key : 0..used, state : {"none", "open", "claimed", "delivered", "expired"}]

\* Every key that is in use is registered, but for that of an open claim; one that
\* was made for want of any other is not registered before it is scanned.
KeysRegistered ==
    /\ {disk, secret, daemon} \subseteq records \cup {0}
    /\ claim.state = "open" => claim.key # 0
    /\ claim.state \in {"claimed", "delivered"} => claim.key \in records
    /\ pairing \in {"put", "rename", "persist", "restart"} => key \in records
    /\ pairing = "polling" =>
          /\ claim.key = key
          /\ claim.state = "open" /\ secret = 0 => key \notin records

\* Registrations that may still follow without another reset or fault: that of the
\* open claim, and that of the key a host without one will make.
OpenToScan == IF claim.state = "open" /\ claim.key \notin records THEN 1 ELSE 0
OpenToMake ==
    IF /\ secret = 0 /\ pairing # "put"
       /\ ~(pairing = "polling" /\ claim.state \in {"open", "claimed"})
    THEN 1 ELSE 0

\* Each of them is paid for.
Budget == Cardinality(records) + OpenToScan + OpenToMake <= 1 + resets + pairFaults

\* What a pairing that succeeded has left is disturbed by a reset or a daemon only.
Agreement ==
    paired # 0 /\ ~undone =>
        /\ pairing \in {"idle", "restart"}
        /\ disk = paired /\ secret = paired /\ pinned = paired /\ paired \in records
        /\ daemon \in {0, paired} \/ pairing = "restart" \/ pairFaults > 0

\* The inductive invariant of Pairing.
PairInv == PairTypes /\ KeysRegistered /\ Budget /\ Agreement

\* The invariant holds for a new host, a paired one and one whose secrets survived.
LEMMA PairInit == Pair!Init => PairInv
<1> SUFFICES ASSUME Pair!Init PROVE PairInv
  OBVIOUS
<1> USE DEF Pair!Init, Pair!NoKey, Pair!NoClaim
<1>0. secret \in {0, 1} /\ records = IF secret = 0 THEN {} ELSE {1}
  OBVIOUS
<1>1. IsFiniteSet(records) /\ Cardinality(records) = IF secret = 0 THEN 0 ELSE 1
  <2>1. CASE secret = 0
    BY <1>0, <2>1, FS_EmptySet
  <2>2. CASE secret = 1
    BY <1>0, <2>2, FS_Singleton
  <2> QED
    BY <1>0, <2>1, <2>2
<1>2. PairTypes
  BY <1>0, <1>1 DEF PairTypes
<1>3. KeysRegistered
  BY <1>0 DEF KeysRegistered
<1>4. Budget
  BY <1>0, <1>1 DEF Budget, OpenToScan, OpenToMake
<1>5. Agreement
  BY <1>0 DEF Agreement
<1> QED
  BY <1>2, <1>3, <1>4, <1>5 DEF PairInv

\* Every step of the command, the backend and the daemon keeps the invariant.
LEMMA PairStep == PairInv /\ [Pair!Next]_(Pair!vars) => PairInv'
<1> SUFFICES ASSUME PairInv, [Pair!Next]_(Pair!vars)
             PROVE  PairInv'
  OBVIOUS
<1> USE PairingAssumption DEF Pair!PairingAssumption, Pair!NoKey
<1>0. PairTypes /\ KeysRegistered /\ Budget /\ Agreement
  BY DEF PairInv
<1>a. Cardinality(records) \in Nat /\ OpenToScan \in {0, 1} /\ OpenToMake \in {0, 1}
  BY <1>0, FS_CardinalityType DEF PairTypes, OpenToScan, OpenToMake
<1>1. CASE Pair!Starts
  <2> USE <1>1 DEF Pair!Starts, Pair!Goes, Pair!Fault, Pair!files, Pair!host, Pair!counts
  <2>1. PairTypes'
    BY <1>0 DEF PairTypes
  <2>2. KeysRegistered'
    BY <1>0 DEF PairTypes, KeysRegistered
  <2>3. Budget'
    BY <1>0, <1>a DEF PairTypes, KeysRegistered, Budget, OpenToScan, OpenToMake
  <2>4. Agreement'
    BY <1>0 DEF PairTypes, KeysRegistered, Agreement
  <2> QED
    BY <2>1, <2>2, <2>3, <2>4 DEF PairInv
<1>2. CASE Pair!ClearSecrets
  <2> USE <1>2 DEF Pair!ClearSecrets, Pair!Goes, Pair!Fault, Pair!files, Pair!host, Pair!counts
  <2>1. PairTypes'
    BY <1>0 DEF PairTypes
  <2>2. KeysRegistered'
    BY <1>0 DEF PairTypes, KeysRegistered
  <2>3. Budget'
    BY <1>0, <1>a DEF PairTypes, KeysRegistered, Budget, OpenToScan, OpenToMake
  <2>4. Agreement'
    BY <1>0 DEF PairTypes, KeysRegistered, Agreement
  <2> QED
    BY <2>1, <2>2, <2>3, <2>4 DEF PairInv
<1>3. CASE Pair!WipeState
  <2> USE <1>3 DEF Pair!WipeState, Pair!Goes, Pair!Fault, Pair!files, Pair!host, Pair!counts
  <2>1. PairTypes'
    BY <1>0 DEF PairTypes
  <2>2. KeysRegistered'
    BY <1>0 DEF PairTypes, KeysRegistered
  <2>3. Budget'
    BY <1>0, <1>a DEF PairTypes, KeysRegistered, Budget, OpenToScan, OpenToMake
  <2>4. Agreement'
    BY <1>0 DEF PairTypes, KeysRegistered, Agreement
  <2> QED
    BY <2>1, <2>2, <2>3, <2>4 DEF PairInv
<1>4. CASE Pair!StartClaim
  <2> USE <1>4 DEF Pair!StartClaim, Pair!Goes, Pair!Fault, Pair!files, Pair!host, Pair!counts, Pair!ChooseKey, Pair!Generate
  <2>1. PairTypes'
    <3>1. used' \in Nat /\ used <= used' /\ key' \in 0..used'
      <4>1. used \in Nat /\ (secret # 0 => secret \in 0..used)
        <5>1. used \in Nat /\ records \subseteq 1..used
          BY <1>0 DEF PairTypes
        <5>2. secret # 0 => secret \in records
          BY <1>0 DEF KeysRegistered
        <5>3. \A x \in records : x \in 1..used
          BY <5>1
        <5>4. \A x \in 1..used : x \in 0..used
          BY <5>1
        <5> QED
          BY <5>1, <5>2, <5>3, <5>4, Zenon
      <4>2. \/ secret # 0 /\ key' = secret /\ used' = used
            \/ key' = used + 1 /\ used' = used + 1
        OBVIOUS
      <4> QED
        BY <4>1, <4>2
    <3>2. records \subseteq 1..used'
      BY <1>0, <3>1 DEF PairTypes
    <3>3. claim' \in [key : 0..used', state : {"none", "open", "claimed", "delivered", "expired"}]
      BY <3>1
    <3> QED
      BY <1>0, <3>1, <3>2, <3>3 DEF PairTypes
  <2>2. KeysRegistered'
    BY <1>0 DEF PairTypes, KeysRegistered
  <2>3. Budget'
    BY <1>0, <1>a DEF PairTypes, KeysRegistered, Budget, OpenToScan, OpenToMake
  <2>4. Agreement'
    BY <1>0 DEF PairTypes, KeysRegistered, Agreement
  <2> QED
    BY <2>1, <2>2, <2>3, <2>4 DEF PairInv
<1>5. CASE Pair!PollClaimed
  <2> USE <1>5 DEF Pair!PollClaimed, Pair!Goes, Pair!Fault, Pair!files, Pair!host, Pair!counts
  <2>1. PairTypes'
    BY <1>0 DEF PairTypes
  <2>2. KeysRegistered'
    BY <1>0 DEF PairTypes, KeysRegistered
  <2>3. Budget'
    BY <1>0, <1>a DEF PairTypes, KeysRegistered, Budget, OpenToScan, OpenToMake
  <2>4. Agreement'
    BY <1>0 DEF PairTypes, KeysRegistered, Agreement
  <2> QED
    BY <2>1, <2>2, <2>3, <2>4 DEF PairInv
<1>6. CASE Pair!PollRefused
  <2> USE <1>6 DEF Pair!PollRefused, Pair!Goes, Pair!Fault, Pair!files, Pair!host, Pair!counts
  <2>1. PairTypes'
    BY <1>0 DEF PairTypes
  <2>2. KeysRegistered'
    BY <1>0 DEF PairTypes, KeysRegistered
  <2>3. Budget'
    BY <1>0, <1>a DEF PairTypes, KeysRegistered, Budget, OpenToScan, OpenToMake
  <2>4. Agreement'
    BY <1>0 DEF PairTypes, KeysRegistered, Agreement
  <2> QED
    BY <2>1, <2>2, <2>3, <2>4 DEF PairInv
<1>7. CASE Pair!PutSecrets
  <2> USE <1>7 DEF Pair!PutSecrets, Pair!Goes, Pair!Fault, Pair!files, Pair!host, Pair!counts
  <2>1. PairTypes'
    BY <1>0 DEF PairTypes
  <2>2. KeysRegistered'
    BY <1>0 DEF PairTypes, KeysRegistered
  <2>3. Budget'
    BY <1>0, <1>a DEF PairTypes, KeysRegistered, Budget, OpenToScan, OpenToMake
  <2>4. Agreement'
    BY <1>0 DEF PairTypes, KeysRegistered, Agreement
  <2> QED
    BY <2>1, <2>2, <2>3, <2>4 DEF PairInv
<1>8. CASE Pair!RenameState
  <2> USE <1>8 DEF Pair!RenameState, Pair!Goes, Pair!Fault, Pair!files, Pair!host, Pair!counts
  <2>1. PairTypes'
    BY <1>0 DEF PairTypes
  <2>2. KeysRegistered'
    BY <1>0 DEF PairTypes, KeysRegistered
  <2>3. Budget'
    BY <1>0, <1>a DEF PairTypes, KeysRegistered, Budget, OpenToScan, OpenToMake
  <2>4. Agreement'
    BY <1>0 DEF PairTypes, KeysRegistered, Agreement
  <2> QED
    BY <2>1, <2>2, <2>3, <2>4 DEF PairInv
<1>9. CASE Pair!PersistDevice
  <2> USE <1>9 DEF Pair!PersistDevice, Pair!Goes, Pair!Fault, Pair!files, Pair!host, Pair!counts
  <2>1. PairTypes'
    BY <1>0 DEF PairTypes
  <2>2. KeysRegistered'
    BY <1>0 DEF PairTypes, KeysRegistered
  <2>3. Budget'
    BY <1>0, <1>a DEF PairTypes, KeysRegistered, Budget, OpenToScan, OpenToMake
  <2>4. Agreement'
    BY <1>0 DEF PairTypes, KeysRegistered, Agreement
  <2> QED
    BY <2>1, <2>2, <2>3, <2>4 DEF PairInv
<1>10. CASE Pair!RestartDaemon
  <2> USE <1>10 DEF Pair!RestartDaemon, Pair!Goes, Pair!Fault, Pair!files, Pair!host, Pair!counts
  <2>1. PairTypes'
    BY <1>0 DEF PairTypes
  <2>2. KeysRegistered'
    BY <1>0 DEF PairTypes, KeysRegistered
  <2>3. Budget'
    BY <1>0, <1>a DEF PairTypes, KeysRegistered, Budget, OpenToScan, OpenToMake
  <2>4. Agreement'
    BY <1>0 DEF PairTypes, KeysRegistered, Agreement
  <2> QED
    BY <2>1, <2>2, <2>3, <2>4 DEF PairInv
<1>11. CASE Pair!Fails
  <2> USE <1>11 DEF Pair!Fails, Pair!Goes, Pair!Fault, Pair!files, Pair!host, Pair!counts
  <2>1. PairTypes'
    BY <1>0 DEF PairTypes
  <2>2. KeysRegistered'
    BY <1>0 DEF PairTypes, KeysRegistered
  <2>3. Budget'
    BY <1>0, <1>a DEF PairTypes, KeysRegistered, Budget, OpenToScan, OpenToMake
  <2>4. Agreement'
    BY <1>0 DEF PairTypes, KeysRegistered, Agreement
  <2> QED
    BY <2>1, <2>2, <2>3, <2>4 DEF PairInv
<1>12. CASE Pair!Scans
  <2> USE <1>12 DEF Pair!Scans, Pair!Goes, Pair!Fault, Pair!files, Pair!host, Pair!counts
  <2>0. /\ IsFiniteSet(records')
        /\ Cardinality(records') = IF claim.key \in records THEN Cardinality(records)
                                   ELSE Cardinality(records) + 1
    BY <1>0, FS_AddElement DEF PairTypes
  <2>1. PairTypes'
    BY <1>0, <2>0 DEF PairTypes, KeysRegistered
  <2>2. KeysRegistered'
    BY <1>0 DEF PairTypes, KeysRegistered
  <2>3. Budget'
    BY <1>0, <1>a, <2>0 DEF PairTypes, KeysRegistered, Budget, OpenToScan, OpenToMake
  <2>4. Agreement'
    BY <1>0 DEF PairTypes, KeysRegistered, Agreement
  <2> QED
    BY <2>1, <2>2, <2>3, <2>4 DEF PairInv
<1>13. CASE Pair!ClaimExpires
  <2> USE <1>13 DEF Pair!ClaimExpires, Pair!Goes, Pair!Fault, Pair!files, Pair!host, Pair!counts
  <2>1. PairTypes'
    BY <1>0 DEF PairTypes
  <2>2. KeysRegistered'
    BY <1>0 DEF PairTypes, KeysRegistered
  <2>3. Budget'
    BY <1>0, <1>a DEF PairTypes, KeysRegistered, Budget, OpenToScan, OpenToMake
  <2>4. Agreement'
    BY <1>0 DEF PairTypes, KeysRegistered, Agreement
  <2> QED
    BY <2>1, <2>2, <2>3, <2>4 DEF PairInv
<1>14. CASE Pair!DaemonPuts
  <2> USE <1>14 DEF Pair!DaemonPuts, Pair!Goes, Pair!Fault, Pair!files, Pair!host, Pair!counts
  <2>1. PairTypes'
    BY <1>0 DEF PairTypes
  <2>2. KeysRegistered'
    BY <1>0 DEF PairTypes, KeysRegistered
  <2>3. Budget'
    BY <1>0, <1>a DEF PairTypes, KeysRegistered, Budget, OpenToScan, OpenToMake
  <2>4. Agreement'
    BY <1>0 DEF PairTypes, KeysRegistered, Agreement
  <2> QED
    BY <2>1, <2>2, <2>3, <2>4 DEF PairInv
<1>15. CASE Pair!DaemonRenames
  <2> USE <1>15 DEF Pair!DaemonRenames, Pair!Goes, Pair!Fault, Pair!files, Pair!host, Pair!counts
  <2>1. PairTypes'
    BY <1>0 DEF PairTypes
  <2>2. KeysRegistered'
    BY <1>0 DEF PairTypes, KeysRegistered
  <2>3. Budget'
    BY <1>0, <1>a DEF PairTypes, KeysRegistered, Budget, OpenToScan, OpenToMake
  <2>4. Agreement'
    BY <1>0 DEF PairTypes, KeysRegistered, Agreement
  <2> QED
    BY <2>1, <2>2, <2>3, <2>4 DEF PairInv
<1>16. CASE UNCHANGED Pair!vars
  BY <1>0, <1>16 DEF Pair!vars, Pair!files, Pair!host, Pair!counts, PairInv, PairTypes, KeysRegistered,
     Budget, OpenToScan, OpenToMake, Agreement
<1> QED
  BY <1>1, <1>2, <1>3, <1>4, <1>5, <1>6, <1>7, <1>8, <1>9, <1>10, <1>11, <1>12, <1>13, <1>14, <1>15, <1>16 DEF Pair!Next, Pair!Pair

\* After a pairing that reported success the file, the secret store, the backend
\* and the pinned device are of one host, and a host is registered again only
\* after a reset or a failure, for any number of them and of keys
\* (main.rs 628-855, store.rs:165).
THEOREM PairingIsSound == Pair!Spec => []PairingSound
<1>1. PairInv => PairingSound
  <2> SUFFICES ASSUME PairInv PROVE PairingSound
    OBVIOUS
  <2>1. Pair!PairedAgrees
    BY DEF PairInv, Agreement, Pair!PairedAgrees, Pair!NoKey
  <2>2. Cardinality(records) \in Nat
    BY FS_CardinalityType DEF PairInv, PairTypes
  <2>3. Pair!FoundAgain
    <3>1. OpenToScan \in {0, 1} /\ OpenToMake \in {0, 1} /\ resets \in Nat /\ pairFaults \in Nat
      BY DEF PairInv, PairTypes, OpenToScan, OpenToMake
    <3>2. Cardinality(records) + OpenToScan + OpenToMake <= 1 + resets + pairFaults
      BY DEF PairInv, Budget
    <3> QED
      BY <2>2, <3>1, <3>2 DEF Pair!FoundAgain, Pair!Cardinality, Cardinality
  <2> QED
    BY <2>1, <2>3 DEF PairingSound, Pair!PairingSound
<1> QED
  BY PairInit, PairStep, <1>1, PTL DEF Pair!Spec


-----------------------------------------------------------------------------
(* SelfUpdate: what is left on disk, and what runs.                        *)

\* The steps of an installer before it touches the binary it replaces.
Before == {"check", "download", "stage", "unlink", "backup"}

\* One installer is at work, a task of the daemon holds the flag, and both know
\* the binary they run.
OneAtWork ==
    /\ \A p \in Update!Installers, q \in Update!Installers : Update!Busy(p) /\ Update!Busy(q) => p = q
    /\ \A p \in Tasks : Update!Busy(p) => flag /\ daemonBinary # Update!None
    /\ flag => \E p \in Tasks : Update!Busy(p)
    /\ Update!Busy("cli") => cliBinary # Update!None

\* Names that hold a binary: there is one, each update adds one at most, and no
\* binary has two names.
ChainSound ==
    /\ \E n \in Update!Names : binaries[n] # Update!None
    /\ \A n \in Update!Names : binaries[n] # Update!None => n <= updatesMade /\ binaries[n].id <= updatesMade
    /\ \A m \in Update!Names, n \in Update!Names :
          binaries[m] # Update!None /\ binaries[m] = binaries[n] => m = n
    /\ installed <= latest

\* What an installer that is at work has found, and has done so far.
WorkSound(p) ==
    LET t == task[p] IN
    /\ t.new.id = updatesMade
    /\ t.pc # "check" => t.want \in 1..latest /\ installed <= t.want
    /\ t.pc \notin {"check", "download"} => t.path < updatesMade
    /\ t.pc \notin {"check", "download", "stage"} => t.new.v = t.want
    /\ t.pc \in {"stage", "unlink", "backup", "chmod", "restart"} => binaries[t.path] # Update!None
    /\ t.pc = "swap" => binaries[t.path + 1] # Update!None
    /\ t.pc \in Before =>
          \A n \in Update!Names : binaries[n] # Update!None => n < updatesMade
    /\ t.pc \in Before \cup {"swap"} =>
          \A n \in Update!Names : binaries[n] # Update!None => binaries[n].id < updatesMade

\* Under a unit, and while nothing fails, the name that ExecStart holds is the
\* one that is replaced, and outside a replacement the daemon runs what it holds.
UnitSound ==
    /\ unitName = 0
    /\ (\A p \in Update!Installers : task[p].pc \in Before \cup {"idle"}) =>
          /\ binaries[0] # Update!None /\ binaries[0].v >= installed
          /\ daemonBinary \in {Update!None, binaries[0]}
          /\ Update!Busy("cli") => cliBinary = binaries[0]
    /\ \A p \in Update!Installers :
          /\ task[p].pc \notin {"idle", "check", "download"} => task[p].path = 0
          /\ task[p].pc = "chmod" => binaries[0] = task[p].new
          /\ task[p].pc = "restart" => binaries[0].v >= installed

\* The inductive invariant of SelfUpdate.
UpdateInv ==
    /\ Update!TypeOK /\ OneAtWork /\ ChainSound
    /\ \A p \in Update!Installers : Update!Busy(p) => WorkSound(p)
    /\ hostKind = "supervised" /\ updateFaults = 0 => UnitSound

\* The invariant holds before the first update.
LEMMA UpdateInit == Update!Init => UpdateInv
<1> SUFFICES ASSUME Update!Init PROVE UpdateInv
  OBVIOUS
<1> USE UpdateAssumption DEF Update!UpdateAssumption, Update!Init, Update!First, Update!None, Update!Idle,
        Update!Names, Update!Installers, Update!Busy, Update!CLI
<1>1. Update!TypeOK
  <2>1. binaries \in [0..Installs -> Update!Inodes \cup {Update!None}] /\ daemonBinary \in Update!Inodes
    BY DEF Update!Inodes
  <2>2. task \in [Tasks \cup {"cli"} ->
          [pc : {"idle", "check", "download", "stage", "unlink", "backup", "swap", "chmod", "restart"},
           want : 0..Releases, path : 0..Installs, new : [v : 0..Releases, id : 0..Installs]]]
    OBVIOUS
  <2>3. unitName \in 0..Installs \cup {Update!NoUnit, Update!DeadUnit}
    BY DEF Update!NoUnit, Update!DeadUnit
  <2>6. hostKind \in Hosts /\ flag \in BOOLEAN
    OBVIOUS
  <2>4. /\ latest \in 1..Releases
        /\ installed \in 0..Releases /\ updatesMade \in 0..Installs /\ updateFaults \in 0..UpdateFaults
    OBVIOUS
  <2>5. cliBinary \in Update!Inodes \cup {Update!None} /\ daemonBinary \in Update!Inodes \cup {Update!None}
    BY <2>1
  <2> HIDE DEF Update!Init, Update!First, Update!None, Update!Idle
  <2> QED
    BY <2>1, <2>2, <2>3, <2>4, <2>5, <2>6 DEF Update!TypeOK
<1>2. 0 \in Update!Names /\ binaries[0] = Update!First
  OBVIOUS
<1>3. OneAtWork
  BY DEF OneAtWork
<1>4. ChainSound
  BY <1>2 DEF ChainSound
<1>5. UnitSound \/ hostKind # "supervised"
  BY <1>2 DEF UnitSound
<1> QED
  BY <1>1, <1>3, <1>4, <1>5 DEF UpdateInv

\* The fields of an installer's record.
Installer ==
    [pc : {"idle", "check", "download", "stage", "unlink", "backup", "swap", "chmod", "restart"},
     want : 0..Releases, path : Update!Names, new : [v : 0..Releases, id : 0..Installs]]

\* Every step of the installers and the service manager keeps the invariant, while
\* the CLI does not update beside the daemon.
LEMMA UpdateStep ==
  ASSUME ~UpdateOverlap
  PROVE  UpdateInv /\ [Update!Next]_(Update!vars) => UpdateInv'
<1> SUFFICES ASSUME UpdateInv, [Update!Next]_(Update!vars)
             PROVE  UpdateInv'
  OBVIOUS
<1> USE UpdateAssumption DEF Update!UpdateAssumption
<1>0. /\ Update!TypeOK /\ OneAtWork /\ ChainSound
      /\ \A p \in Update!Installers : Update!Busy(p) => WorkSound(p)
      /\ hostKind = "supervised" /\ updateFaults = 0 => UnitSound
  BY DEF UpdateInv
<1>a. /\ hostKind \in Hosts /\ latest \in 1..Releases
      /\ binaries \in [Update!Names -> Update!Inodes \cup {Update!None}]
      /\ task \in [Update!Installers -> Installer]
      /\ cliBinary \in Update!Inodes \cup {Update!None} /\ daemonBinary \in Update!Inodes \cup {Update!None}
      /\ flag \in BOOLEAN /\ unitName \in Update!Names \cup {Update!NoUnit, Update!DeadUnit}
      /\ installed \in 0..Releases /\ updatesMade \in 0..Installs /\ updateFaults \in 0..UpdateFaults
  BY <1>0 DEF Update!TypeOK, Installer
<1>b. ASSUME /\ hostKind' \in Hosts /\ latest' \in 1..Releases
             /\ binaries' \in [Update!Names -> Update!Inodes \cup {Update!None}],
             task' \in [Update!Installers -> Installer],
             cliBinary' \in Update!Inodes \cup {Update!None}, daemonBinary' \in Update!Inodes \cup {Update!None},
             flag' \in BOOLEAN, unitName' \in Update!Names \cup {Update!NoUnit, Update!DeadUnit},
             installed' \in 0..Releases, updatesMade' \in 0..Installs, updateFaults' \in 0..UpdateFaults
      PROVE  Update!TypeOK'
  BY <1>b DEF Update!TypeOK, Installer
<1>c. /\ Update!None.v = 0 /\ Update!None \notin Update!Inodes
      /\ Update!Idle \in Installer /\ Update!Idle.pc = "idle"
      /\ "cli" \in Update!Installers /\ "cli" \notin Tasks /\ Tasks \subseteq Update!Installers
      /\ \A p \in Update!Installers : p = "cli" \/ p \in Tasks
      /\ Update!Names = 0..Installs
  BY DEF Update!None, Update!Inodes, Update!Idle, Installer, Update!Installers, Update!CLI, Update!Names
<1>e. /\ \A n \in Update!Names : binaries[n] # Update!None =>
            binaries[n] \in Update!Inodes /\ binaries[n].v \in 1..Releases /\ binaries[n].id \in 0..Installs
      /\ \A p \in Update!Installers :
            /\ task[p].want \in 0..Releases /\ task[p].path \in 0..Installs
            /\ task[p].new = [v |-> task[p].new.v, id |-> task[p].new.id]
            /\ task[p].new.v \in 0..Releases /\ task[p].new.id \in 0..Installs
  BY <1>a, <1>c DEF Installer, Update!Inodes
<1>1. ASSUME Update!Publish
      PROVE  UpdateInv'
  <2> USE <1>1 DEF Update!Publish, Update!CLI
  <2>1. task' \in [Update!Installers -> Installer]
    BY <1>a, <1>c DEF Installer
  <2>2. binaries' \in [Update!Names -> Update!Inodes \cup {Update!None}]
    BY <1>a, <1>c
  <2>3. Update!TypeOK'
    BY <1>a, <1>b, <1>c, <2>1, <2>2
  <2>4. OneAtWork'
    BY <1>0, <1>a, <1>c, <2>1 DEF OneAtWork, Update!Busy
  <2>5. ChainSound'
    BY <1>0, <1>a, <1>c, <2>2 DEF ChainSound
  <2>6. ASSUME NEW q \in Update!Installers, Update!Busy(q)'
        PROVE  WorkSound(q)'
    BY <1>0, <1>a, <1>c, <2>1, <2>2, <2>6 DEF OneAtWork, ChainSound, WorkSound, Update!Busy, Before
  <2>7. ASSUME hostKind' = "supervised", updateFaults' = 0
        PROVE  UnitSound'
    BY <1>0, <1>a, <1>c, <2>1, <2>2, <2>7 DEF OneAtWork, ChainSound, WorkSound, UnitSound, Update!Busy, Before
  <2> QED
    BY <2>3, <2>4, <2>5, <2>6, <2>7 DEF UpdateInv
<1>2. ASSUME Update!CliUpdate
      PROVE  UpdateInv'
  <2> USE <1>2 DEF Update!CliUpdate, Update!Begins, Update!Busy, Update!CLI
  <2>1. task' \in [Update!Installers -> Installer]
    <3>1. task["cli"] \in Installer
      BY <1>a, <1>c
    <3>2. task' = [task EXCEPT !["cli"] = [task["cli"] EXCEPT !.pc = "check", !.new.id = updatesMade + 1]]
      OBVIOUS
    <3>3. [task["cli"] EXCEPT !.pc = "check", !.new.id = updatesMade + 1] \in Installer
      <4>1. updatesMade + 1 \in 0..Installs
        BY <1>a
      <4> QED
        BY <4>1, <3>1 DEF Installer
    <3> QED
      BY <1>a, <3>2, <3>3
  <2>2. binaries' \in [Update!Names -> Update!Inodes \cup {Update!None}]
    BY <1>a, <1>c
  <2>3. Update!TypeOK'
    BY <1>a, <1>b, <1>c, <2>1, <2>2
  <2>4. OneAtWork'
    BY <1>0, <1>a, <1>c, <2>1 DEF OneAtWork, Update!Busy
  <2>5. ChainSound'
    <3>1. \E n \in Update!Names : binaries'[n] # Update!None
      BY <1>0, <1>a, <1>c, <1>e, <2>2 DEF ChainSound
    <3>2. \A n \in Update!Names : binaries'[n] # Update!None => n <= updatesMade' /\ binaries'[n].id <= updatesMade'
      BY <1>0, <1>a, <1>c, <1>e, <2>2 DEF ChainSound
    <3>3. \A m \in Update!Names, n \in Update!Names :
            binaries'[m] # Update!None /\ binaries'[m] = binaries'[n] => m = n
      BY <1>0, <1>a, <1>c, <1>e, <2>2 DEF ChainSound
    <3>4. installed' <= latest'
      BY <1>0, <1>a, <1>c, <1>e DEF ChainSound
    <3> QED
      BY <3>1, <3>2, <3>3, <3>4 DEF ChainSound
  <2>6. ASSUME NEW q \in Update!Installers, Update!Busy(q)'
        PROVE  WorkSound(q)'
    <3>1. task["cli"] \in Installer
      BY <1>a, <1>c
    <3>2. q = "cli" /\ task'[q].pc = "check" /\ task'[q].new.id = updatesMade'
      BY <1>0, <1>a, <1>c, <2>4, <2>6, <3>1 DEF OneAtWork, Update!Busy, Installer
    <3>3. \A n \in Update!Names : binaries'[n] # Update!None => n < updatesMade' /\ binaries'[n].id < updatesMade'
      BY <1>0, <1>a, <1>c, <1>e DEF ChainSound
    <3> QED
      BY <3>2, <3>3 DEF WorkSound
  <2>7. ASSUME hostKind' = "supervised", updateFaults' = 0
        PROVE  UnitSound'
    BY <1>0, <1>a, <1>c, <2>1, <2>2, <2>7 DEF OneAtWork, ChainSound, WorkSound, UnitSound, Update!Busy, Before
  <2> QED
    BY <2>3, <2>4, <2>5, <2>6, <2>7 DEF UpdateInv
<1>3. ASSUME Update!CliFindsNone
      PROVE  UpdateInv'
  <2> USE <1>3 DEF Update!CliFindsNone, Update!Over, Update!At, Update!CLI
  <2>1. task' \in [Update!Installers -> Installer]
    BY <1>a, <1>c DEF Installer
  <2>2. binaries' \in [Update!Names -> Update!Inodes \cup {Update!None}]
    BY <1>a, <1>c
  <2>3. Update!TypeOK'
    BY <1>a, <1>b, <1>c, <2>1, <2>2
  <2>4. OneAtWork'
    BY <1>0, <1>a, <1>c, <2>1 DEF OneAtWork, Update!Busy
  <2>5. ChainSound'
    BY <1>0, <1>a, <1>c, <2>2 DEF ChainSound
  <2>6. ASSUME NEW q \in Update!Installers, Update!Busy(q)'
        PROVE  WorkSound(q)'
    BY <1>0, <1>a, <1>c, <2>1, <2>2, <2>6 DEF OneAtWork, ChainSound, WorkSound, Update!Busy, Before
  <2>7. ASSUME hostKind' = "supervised", updateFaults' = 0
        PROVE  UnitSound'
    BY <1>0, <1>a, <1>c, <2>1, <2>2, <2>7 DEF OneAtWork, ChainSound, WorkSound, UnitSound, Update!Busy, Before
  <2> QED
    BY <2>3, <2>4, <2>5, <2>6, <2>7 DEF UpdateInv
<1>4. ASSUME Update!Supervise
      PROVE  UpdateInv'
  <2> USE <1>4 DEF Update!Supervise, Update!CLI
  <2>1. task' \in [Update!Installers -> Installer]
    BY <1>a, <1>c DEF Installer
  <2>2. binaries' \in [Update!Names -> Update!Inodes \cup {Update!None}]
    BY <1>a, <1>c
  <2>3. Update!TypeOK'
    BY <1>a, <1>b, <1>c, <2>1, <2>2
  <2>4. OneAtWork'
    BY <1>0, <1>a, <1>c, <2>1 DEF OneAtWork, Update!Busy
  <2>5. ChainSound'
    BY <1>0, <1>a, <1>c, <2>2 DEF ChainSound
  <2>6. ASSUME NEW q \in Update!Installers, Update!Busy(q)'
        PROVE  WorkSound(q)'
    BY <1>0, <1>a, <1>c, <2>1, <2>2, <2>6 DEF OneAtWork, ChainSound, WorkSound, Update!Busy, Before
  <2>7. ASSUME hostKind' = "supervised", updateFaults' = 0
        PROVE  UnitSound'
    BY <1>0, <1>a, <1>c, <2>1, <2>2, <2>7 DEF OneAtWork, ChainSound, WorkSound, UnitSound, Update!Busy, Before
  <2> QED
    BY <2>3, <2>4, <2>5, <2>6, <2>7 DEF UpdateInv
<1>5. ASSUME NEW p \in Update!Installers, Update!Request(p)
      PROVE  UpdateInv'
  <2> USE <1>5 DEF Update!Request, Update!Begins, Update!Busy, Update!CLI
  <2>1. task' \in [Update!Installers -> Installer]
    <3>1. task[p] \in Installer
      BY <1>a, <1>c
    <3>2. task' = [task EXCEPT ![p] = [task[p] EXCEPT !.pc = "check", !.new.id = updatesMade + 1]]
      OBVIOUS
    <3>3. [task[p] EXCEPT !.pc = "check", !.new.id = updatesMade + 1] \in Installer
      <4>1. updatesMade + 1 \in 0..Installs
        BY <1>a
      <4> QED
        BY <4>1, <3>1 DEF Installer
    <3> QED
      BY <1>a, <3>2, <3>3
  <2>2. binaries' \in [Update!Names -> Update!Inodes \cup {Update!None}]
    BY <1>a, <1>c
  <2>3. Update!TypeOK'
    BY <1>a, <1>b, <1>c, <2>1, <2>2
  <2>4. OneAtWork'
    BY <1>0, <1>a, <1>c, <2>1 DEF OneAtWork, Update!Busy
  <2>5. ChainSound'
    <3>1. \E n \in Update!Names : binaries'[n] # Update!None
      BY <1>0, <1>a, <1>c, <1>e, <2>2 DEF ChainSound
    <3>2. \A n \in Update!Names : binaries'[n] # Update!None => n <= updatesMade' /\ binaries'[n].id <= updatesMade'
      BY <1>0, <1>a, <1>c, <1>e, <2>2 DEF ChainSound
    <3>3. \A m \in Update!Names, n \in Update!Names :
            binaries'[m] # Update!None /\ binaries'[m] = binaries'[n] => m = n
      BY <1>0, <1>a, <1>c, <1>e, <2>2 DEF ChainSound
    <3>4. installed' <= latest'
      BY <1>0, <1>a, <1>c, <1>e DEF ChainSound
    <3> QED
      BY <3>1, <3>2, <3>3, <3>4 DEF ChainSound
  <2>6. ASSUME NEW q \in Update!Installers, Update!Busy(q)'
        PROVE  WorkSound(q)'
    <3>1. task[p] \in Installer
      BY <1>a, <1>c
    <3>2. q = p /\ task'[q].pc = "check" /\ task'[q].new.id = updatesMade'
      BY <1>0, <1>a, <1>c, <2>4, <2>6, <3>1 DEF OneAtWork, Update!Busy, Installer
    <3>3. \A n \in Update!Names : binaries'[n] # Update!None => n < updatesMade' /\ binaries'[n].id < updatesMade'
      BY <1>0, <1>a, <1>c, <1>e DEF ChainSound
    <3> QED
      BY <3>2, <3>3 DEF WorkSound
  <2>7. ASSUME hostKind' = "supervised", updateFaults' = 0
        PROVE  UnitSound'
    BY <1>0, <1>a, <1>c, <2>1, <2>2, <2>7 DEF OneAtWork, ChainSound, WorkSound, UnitSound, Update!Busy, Before
  <2> QED
    BY <2>3, <2>4, <2>5, <2>6, <2>7 DEF UpdateInv
<1>6. ASSUME NEW p \in Update!Installers, Update!Check(p)
      PROVE  UpdateInv'
  <2> USE <1>6 DEF Update!Check, Update!At, Update!Image, Update!CLI
  <2>1. task' \in [Update!Installers -> Installer]
    <3>1. task[p] \in Installer
      BY <1>a, <1>c
    <3>2. task' = [task EXCEPT ![p] = [task[p] EXCEPT !.pc = "download", !.want = latest]]
      OBVIOUS
    <3>3. [task[p] EXCEPT !.pc = "download", !.want = latest] \in Installer
      <4>1. latest \in 0..Releases
        BY <1>a
      <4> QED
        BY <4>1, <3>1 DEF Installer
    <3> QED
      BY <1>a, <3>2, <3>3
  <2>2. binaries' \in [Update!Names -> Update!Inodes \cup {Update!None}]
    BY <1>a, <1>c
  <2>3. Update!TypeOK'
    BY <1>a, <1>b, <1>c, <2>1, <2>2
  <2>4. OneAtWork'
    BY <1>0, <1>a, <1>c, <2>1 DEF OneAtWork, Update!Busy
  <2>5. ChainSound'
    BY <1>0, <1>a, <1>c, <2>2 DEF ChainSound
  <2>6. ASSUME NEW q \in Update!Installers, Update!Busy(q)'
        PROVE  WorkSound(q)'
    BY <1>0, <1>a, <1>c, <2>1, <2>2, <2>6 DEF OneAtWork, ChainSound, WorkSound, Update!Busy, Before
  <2>7. ASSUME hostKind' = "supervised", updateFaults' = 0
        PROVE  UnitSound'
    BY <1>0, <1>a, <1>c, <2>1, <2>2, <2>7 DEF OneAtWork, ChainSound, WorkSound, UnitSound, Update!Busy, Before
  <2> QED
    BY <2>3, <2>4, <2>5, <2>6, <2>7 DEF UpdateInv
<1>7. ASSUME NEW p \in Update!Installers, Update!UpToDate(p)
      PROVE  UpdateInv'
  <2> USE <1>7 DEF Update!UpToDate, Update!At, Update!Over, Update!CLI
  <2>1. task' \in [Update!Installers -> Installer]
    BY <1>a, <1>c DEF Installer
  <2>2. binaries' \in [Update!Names -> Update!Inodes \cup {Update!None}]
    BY <1>a, <1>c
  <2>3. Update!TypeOK'
    BY <1>a, <1>b, <1>c, <2>1, <2>2
  <2>4. OneAtWork'
    BY <1>0, <1>a, <1>c, <2>1 DEF OneAtWork, Update!Busy
  <2>5. ChainSound'
    BY <1>0, <1>a, <1>c, <2>2 DEF ChainSound
  <2>6. ASSUME NEW q \in Update!Installers, Update!Busy(q)'
        PROVE  WorkSound(q)'
    BY <1>0, <1>a, <1>c, <2>1, <2>2, <2>6 DEF OneAtWork, ChainSound, WorkSound, Update!Busy, Before
  <2>7. ASSUME hostKind' = "supervised", updateFaults' = 0
        PROVE  UnitSound'
    BY <1>0, <1>a, <1>c, <2>1, <2>2, <2>7 DEF OneAtWork, ChainSound, WorkSound, UnitSound, Update!Busy, Before
  <2> QED
    BY <2>3, <2>4, <2>5, <2>6, <2>7 DEF UpdateInv
<1>8. ASSUME NEW p \in Update!Installers, Update!Download(p)
      PROVE  UpdateInv'
  <2> USE <1>8 DEF Update!Download, Update!At, Update!Image, Update!Paths, Update!CLI
  <2>1. task' \in [Update!Installers -> Installer]
    <3>1. task[p] \in Installer
      BY <1>a, <1>c
    <3>2. PICK n \in Update!Names : task' = [task EXCEPT ![p] = [task[p] EXCEPT !.pc = "stage", !.path = n]]
      OBVIOUS
    <3>3. [task[p] EXCEPT !.pc = "stage", !.path = n] \in Installer
      BY <1>a, <3>1 DEF Installer
    <3> QED
      BY <1>a, <3>2, <3>3
  <2>2. binaries' \in [Update!Names -> Update!Inodes \cup {Update!None}]
    BY <1>a, <1>c
  <2>3. Update!TypeOK'
    BY <1>a, <1>b, <1>c, <2>1, <2>2
  <2>4. OneAtWork'
    BY <1>0, <1>a, <1>c, <2>1 DEF OneAtWork, Update!Busy
  <2>5. ChainSound'
    BY <1>0, <1>a, <1>c, <2>2 DEF ChainSound
  <2>6. ASSUME NEW q \in Update!Installers, Update!Busy(q)'
        PROVE  WorkSound(q)'
    BY <1>0, <1>a, <1>c, <2>1, <2>2, <2>6 DEF OneAtWork, ChainSound, WorkSound, Update!Busy, Before
  <2>7. ASSUME hostKind' = "supervised", updateFaults' = 0
        PROVE  UnitSound'
    BY <1>0, <1>a, <1>c, <2>1, <2>2, <2>7 DEF OneAtWork, ChainSound, WorkSound, UnitSound, Update!Busy, Before
  <2> QED
    BY <2>3, <2>4, <2>5, <2>6, <2>7 DEF UpdateInv
<1>9. ASSUME NEW p \in Update!Installers, Update!Nameless(p)
      PROVE  UpdateInv'
  <2> USE <1>9 DEF Update!Nameless, Update!At, Update!Over, Update!CLI
  <2>1. task' \in [Update!Installers -> Installer]
    BY <1>a, <1>c DEF Installer
  <2>2. binaries' \in [Update!Names -> Update!Inodes \cup {Update!None}]
    BY <1>a, <1>c
  <2>3. Update!TypeOK'
    BY <1>a, <1>b, <1>c, <2>1, <2>2
  <2>4. OneAtWork'
    BY <1>0, <1>a, <1>c, <2>1 DEF OneAtWork, Update!Busy
  <2>5. ChainSound'
    BY <1>0, <1>a, <1>c, <2>2 DEF ChainSound
  <2>6. ASSUME NEW q \in Update!Installers, Update!Busy(q)'
        PROVE  WorkSound(q)'
    BY <1>0, <1>a, <1>c, <2>1, <2>2, <2>6 DEF OneAtWork, ChainSound, WorkSound, Update!Busy, Before
  <2>7. ASSUME hostKind' = "supervised", updateFaults' = 0
        PROVE  UnitSound'
    BY <1>0, <1>a, <1>c, <2>1, <2>2, <2>7 DEF OneAtWork, ChainSound, WorkSound, UnitSound, Update!Busy, Before
  <2> QED
    BY <2>3, <2>4, <2>5, <2>6, <2>7 DEF UpdateInv
<1>10. ASSUME NEW p \in Update!Installers, Update!Stage(p)
      PROVE  UpdateInv'
  <2> USE <1>10 DEF Update!Stage, Update!At, Update!CLI
  <2>1. task' \in [Update!Installers -> Installer]
    <3>1. task[p] \in Installer
      BY <1>a, <1>c
    <3>2. task' = [task EXCEPT ![p] = [task[p] EXCEPT !.pc = "unlink", !.new.v = task[p].want]]
      OBVIOUS
    <3>3. [task[p] EXCEPT !.pc = "unlink", !.new.v = task[p].want] \in Installer
      BY <1>a, <3>1 DEF Installer
    <3> QED
      BY <1>a, <3>2, <3>3
  <2>2. binaries' \in [Update!Names -> Update!Inodes \cup {Update!None}]
    BY <1>a, <1>c
  <2>3. Update!TypeOK'
    BY <1>a, <1>b, <1>c, <2>1, <2>2
  <2>4. OneAtWork'
    BY <1>0, <1>a, <1>c, <2>1 DEF OneAtWork, Update!Busy
  <2>5. ChainSound'
    BY <1>0, <1>a, <1>c, <2>2 DEF ChainSound
  <2>6. ASSUME NEW q \in Update!Installers, Update!Busy(q)'
        PROVE  WorkSound(q)'
    BY <1>0, <1>a, <1>c, <2>1, <2>2, <2>6 DEF OneAtWork, ChainSound, WorkSound, Update!Busy, Before
  <2>7. ASSUME hostKind' = "supervised", updateFaults' = 0
        PROVE  UnitSound'
    BY <1>0, <1>a, <1>c, <2>1, <2>2, <2>7 DEF OneAtWork, ChainSound, WorkSound, UnitSound, Update!Busy, Before
  <2> QED
    BY <2>3, <2>4, <2>5, <2>6, <2>7 DEF UpdateInv
<1>11. ASSUME NEW p \in Update!Installers, Update!StepFails(p)
      PROVE  UpdateInv'
  <2> USE <1>11 DEF Update!StepFails, Update!Over, Update!CLI
  <2>1. task' \in [Update!Installers -> Installer]
    BY <1>a, <1>c DEF Installer
  <2>2. binaries' \in [Update!Names -> Update!Inodes \cup {Update!None}]
    BY <1>a, <1>c
  <2>3. Update!TypeOK'
    BY <1>a, <1>b, <1>c, <2>1, <2>2
  <2>4. OneAtWork'
    BY <1>0, <1>a, <1>c, <2>1 DEF OneAtWork, Update!Busy
  <2>5. ChainSound'
    BY <1>0, <1>a, <1>c, <2>2 DEF ChainSound
  <2>6. ASSUME NEW q \in Update!Installers, Update!Busy(q)'
        PROVE  WorkSound(q)'
    BY <1>0, <1>a, <1>c, <2>1, <2>2, <2>6 DEF OneAtWork, ChainSound, WorkSound, Update!Busy, Before
  <2>7. ASSUME hostKind' = "supervised", updateFaults' = 0
        PROVE  UnitSound'
    BY <1>0, <1>a, <1>c, <2>1, <2>2, <2>7 DEF OneAtWork, ChainSound, WorkSound, UnitSound, Update!Busy, Before
  <2> QED
    BY <2>3, <2>4, <2>5, <2>6, <2>7 DEF UpdateInv
<1>12. ASSUME NEW p \in Update!Installers, Update!Unlink(p)
      PROVE  UpdateInv'
  <2> USE <1>12 DEF Update!Unlink, Update!At, Update!Goes, Update!CLI
  <2>1. task' \in [Update!Installers -> Installer]
    <3>1. task[p] \in Installer
      BY <1>a, <1>c
    <3>2. task' = [task EXCEPT ![p] = [task[p] EXCEPT !.pc = "backup"]]
      OBVIOUS
    <3>3. [task[p] EXCEPT !.pc = "backup"] \in Installer
      BY <1>a, <3>1 DEF Installer
    <3> QED
      BY <1>a, <3>2, <3>3
  <2>2. binaries' \in [Update!Names -> Update!Inodes \cup {Update!None}]
    BY <1>a, <1>c
  <2>3. Update!TypeOK'
    BY <1>a, <1>b, <1>c, <2>1, <2>2
  <2>4. OneAtWork'
    BY <1>0, <1>a, <1>c, <2>1 DEF OneAtWork, Update!Busy
  <2>5. ChainSound'
    <3>1. \E n \in Update!Names : binaries'[n] # Update!None
      <4>1. /\ task[p].path \in 0..Installs /\ task[p].path < updatesMade
            /\ binaries[task[p].path] # Update!None
        BY <1>0, <1>e DEF WorkSound, Update!Busy
      <4>2. task[p].path \in Update!Names /\ task[p].path + 1 \in Update!Names /\ task[p].path + 1 # task[p].path
        BY <1>a, <1>c, <4>1
      <4>3. binaries'[task[p].path] # Update!None
        BY <1>a, <4>1, <4>2
      <4> QED
        BY <4>2, <4>3
    <3>2. \A n \in Update!Names : binaries'[n] # Update!None => n <= updatesMade' /\ binaries'[n].id <= updatesMade'
      BY <1>0, <1>a, <1>c, <1>e, <2>2 DEF ChainSound, WorkSound, Update!Busy, Before
    <3>3. \A m \in Update!Names, n \in Update!Names :
            binaries'[m] # Update!None /\ binaries'[m] = binaries'[n] => m = n
      BY <1>0, <1>a, <1>c, <1>e, <2>2 DEF ChainSound, WorkSound, Update!Busy, Before
    <3>4. installed' <= latest'
      BY <1>0, <1>a, <1>c, <1>e DEF ChainSound, WorkSound, Update!Busy, Before
    <3> QED
      BY <3>1, <3>2, <3>3, <3>4 DEF ChainSound
  <2>6. ASSUME NEW q \in Update!Installers, Update!Busy(q)'
        PROVE  WorkSound(q)'
    BY <1>0, <1>a, <1>c, <2>1, <2>2, <2>6 DEF OneAtWork, ChainSound, WorkSound, Update!Busy, Before
  <2>7. ASSUME hostKind' = "supervised", updateFaults' = 0
        PROVE  UnitSound'
    BY <1>0, <1>a, <1>c, <2>1, <2>2, <2>7 DEF OneAtWork, ChainSound, WorkSound, UnitSound, Update!Busy, Before
  <2> QED
    BY <2>3, <2>4, <2>5, <2>6, <2>7 DEF UpdateInv
<1>13. ASSUME NEW p \in Update!Installers, Update!Backup(p)
      PROVE  UpdateInv'
  <2> USE <1>13 DEF Update!Backup, Update!At, Update!Goes, Update!CLI
  <2>1. task' \in [Update!Installers -> Installer]
    <3>1. task[p] \in Installer
      BY <1>a, <1>c
    <3>2. task' = [task EXCEPT ![p] = [task[p] EXCEPT !.pc = "swap"]]
      OBVIOUS
    <3>3. [task[p] EXCEPT !.pc = "swap"] \in Installer
      BY <1>a, <3>1 DEF Installer
    <3> QED
      BY <1>a, <3>2, <3>3
  <2>0. task[p].path \in Update!Names /\ task[p].path + 1 \in Update!Names
    <3>1. task[p].path \in 0..Installs /\ task[p].path < updatesMade
      BY <1>0, <1>e DEF WorkSound, Update!Busy
    <3> QED
      BY <3>1, <1>a, <1>c
  <2>2. binaries' \in [Update!Names -> Update!Inodes \cup {Update!None}]
    BY <1>a, <2>0
  <2>3. Update!TypeOK'
    BY <1>a, <1>b, <1>c, <2>1, <2>2
  <2>4. OneAtWork'
    BY <1>0, <1>a, <1>c, <2>1 DEF OneAtWork, Update!Busy
  <2>5. ChainSound'
    <3>1. \E n \in Update!Names : binaries'[n] # Update!None
      BY <1>0, <1>a, <1>c, <1>e, <2>2 DEF ChainSound, WorkSound, Update!Busy, Before
    <3>2. \A n \in Update!Names : binaries'[n] # Update!None => n <= updatesMade' /\ binaries'[n].id <= updatesMade'
      BY <1>0, <1>a, <1>c, <1>e, <2>2, SMTT(30) DEF ChainSound, WorkSound, Update!Busy, Before
    <3>3. \A m \in Update!Names, n \in Update!Names :
            binaries'[m] # Update!None /\ binaries'[m] = binaries'[n] => m = n
      BY <1>0, <1>a, <1>c, <1>e, <2>2, SMTT(30) DEF ChainSound, WorkSound, Update!Busy, Before
    <3>4. installed' <= latest'
      BY <1>0, <1>a, <1>c, <1>e DEF ChainSound, WorkSound, Update!Busy, Before
    <3> QED
      BY <3>1, <3>2, <3>3, <3>4 DEF ChainSound
  <2>6. ASSUME NEW q \in Update!Installers, Update!Busy(q)'
        PROVE  WorkSound(q)'
    BY <1>0, <1>a, <1>c, <2>1, <2>2, <2>6, SMTT(30) DEF OneAtWork, ChainSound, WorkSound, Update!Busy, Before
  <2>7. ASSUME hostKind' = "supervised", updateFaults' = 0
        PROVE  UnitSound'
    BY <1>0, <1>a, <1>c, <2>1, <2>2, <2>7 DEF OneAtWork, ChainSound, WorkSound, UnitSound, Update!Busy, Before
  <2> QED
    BY <2>3, <2>4, <2>5, <2>6, <2>7 DEF UpdateInv
<1>14. ASSUME NEW p \in Update!Installers, Update!BackupFails(p)
      PROVE  UpdateInv'
  <2> USE <1>14 DEF Update!BackupFails, Update!At, Update!Over, Update!CLI
  <2>1. task' \in [Update!Installers -> Installer]
    BY <1>a, <1>c DEF Installer
  <2>2. binaries' \in [Update!Names -> Update!Inodes \cup {Update!None}]
    BY <1>a, <1>c
  <2>3. Update!TypeOK'
    BY <1>a, <1>b, <1>c, <2>1, <2>2
  <2>4. OneAtWork'
    BY <1>0, <1>a, <1>c, <2>1 DEF OneAtWork, Update!Busy
  <2>5. ChainSound'
    BY <1>0, <1>a, <1>c, <2>2 DEF ChainSound
  <2>6. ASSUME NEW q \in Update!Installers, Update!Busy(q)'
        PROVE  WorkSound(q)'
    BY <1>0, <1>a, <1>c, <2>1, <2>2, <2>6 DEF OneAtWork, ChainSound, WorkSound, Update!Busy, Before
  <2>7. ASSUME hostKind' = "supervised", updateFaults' = 0
        PROVE  UnitSound'
    BY <1>0, <1>a, <1>c, <2>1, <2>2, <2>7 DEF OneAtWork, ChainSound, WorkSound, UnitSound, Update!Busy, Before
  <2> QED
    BY <2>3, <2>4, <2>5, <2>6, <2>7 DEF UpdateInv
<1>15. ASSUME NEW p \in Update!Installers, Update!Swap(p)
      PROVE  UpdateInv'
  <2> USE <1>15 DEF Update!Swap, Update!At, Update!Goes, Update!CLI
  <2>1. task' \in [Update!Installers -> Installer]
    <3>1. task[p] \in Installer
      BY <1>a, <1>c
    <3>2. task' = [task EXCEPT ![p] = [task[p] EXCEPT !.pc = "chmod"]]
      OBVIOUS
    <3>3. [task[p] EXCEPT !.pc = "chmod"] \in Installer
      BY <1>a, <3>1 DEF Installer
    <3> QED
      BY <1>a, <3>2, <3>3
  <2>0. task[p].new \in Update!Inodes
    <3>1. task[p].new.v \in 1..Releases
      BY <1>0, <1>a, <1>e DEF WorkSound, Update!Busy
    <3>2. task[p].new = [v |-> task[p].new.v, id |-> task[p].new.id] /\ task[p].new.id \in 0..Installs
      BY <1>e
    <3> QED
      BY <3>1, <3>2 DEF Update!Inodes
  <2>2. binaries' \in [Update!Names -> Update!Inodes \cup {Update!None}]
    BY <1>a, <2>0
  <2>3. Update!TypeOK'
    BY <1>a, <1>b, <1>c, <2>1, <2>2
  <2>4. OneAtWork'
    BY <1>0, <1>a, <1>c, <2>1 DEF OneAtWork, Update!Busy
  <2>5. ChainSound'
    <3>1. \E n \in Update!Names : binaries'[n] # Update!None
      BY <1>0, <1>a, <1>c, <1>e, <2>2 DEF ChainSound, WorkSound, Update!Busy, Before
    <3>2. \A n \in Update!Names : binaries'[n] # Update!None => n <= updatesMade' /\ binaries'[n].id <= updatesMade'
      BY <1>0, <1>a, <1>c, <1>e, <2>2 DEF ChainSound, WorkSound, Update!Busy, Before
    <3>3. \A m \in Update!Names, n \in Update!Names :
            binaries'[m] # Update!None /\ binaries'[m] = binaries'[n] => m = n
      BY <1>0, <1>a, <1>c, <1>e, <2>2 DEF ChainSound, WorkSound, Update!Busy, Before
    <3>4. installed' <= latest'
      BY <1>0, <1>a, <1>c, <1>e DEF ChainSound, WorkSound, Update!Busy, Before
    <3> QED
      BY <3>1, <3>2, <3>3, <3>4 DEF ChainSound
  <2>6. ASSUME NEW q \in Update!Installers, Update!Busy(q)'
        PROVE  WorkSound(q)'
    BY <1>0, <1>a, <1>c, <2>1, <2>2, <2>6 DEF OneAtWork, ChainSound, WorkSound, Update!Busy, Before
  <2>7. ASSUME hostKind' = "supervised", updateFaults' = 0
        PROVE  UnitSound'
    BY <1>0, <1>a, <1>c, <2>1, <2>2, <2>7 DEF OneAtWork, ChainSound, WorkSound, UnitSound, Update!Busy, Before
  <2> QED
    BY <2>3, <2>4, <2>5, <2>6, <2>7 DEF UpdateInv
<1>16. ASSUME NEW p \in Update!Installers, Update!SwapFails(p)
      PROVE  UpdateInv'
  <2> USE <1>16 DEF Update!SwapFails, Update!At, Update!Over, Update!RollBack, Update!CLI
  <2>1. task' \in [Update!Installers -> Installer]
    BY <1>a, <1>c DEF Installer
  <2>0. task[p].path \in Update!Names /\ task[p].path + 1 \in Update!Names
    <3>1. task[p].path \in 0..Installs /\ task[p].path < updatesMade
      BY <1>0, <1>e DEF WorkSound, Update!Busy
    <3> QED
      BY <3>1, <1>a, <1>c
  <2>2. binaries' \in [Update!Names -> Update!Inodes \cup {Update!None}]
    BY <1>a, <2>0
  <2>3. Update!TypeOK'
    BY <1>a, <1>b, <1>c, <2>1, <2>2
  <2>4. OneAtWork'
    BY <1>0, <1>a, <1>c, <2>1 DEF OneAtWork, Update!Busy
  <2>5. ChainSound'
    <3>1. \E n \in Update!Names : binaries'[n] # Update!None
      <4>1. /\ task[p].path \in 0..Installs /\ task[p].path < updatesMade
            /\ binaries[task[p].path + 1] # Update!None
        BY <1>0, <1>e DEF WorkSound, Update!Busy
      <4>2. task[p].path \in Update!Names /\ task[p].path + 1 \in Update!Names /\ task[p].path + 1 # task[p].path
        BY <1>a, <1>c, <4>1
      <4>3. binaries'[task[p].path] # Update!None
        BY <1>a, <4>1, <4>2
      <4> QED
        BY <4>2, <4>3
    <3>2. \A n \in Update!Names : binaries'[n] # Update!None => n <= updatesMade' /\ binaries'[n].id <= updatesMade'
      BY <1>0, <1>a, <1>c, <1>e, <2>2 DEF ChainSound, WorkSound, Update!Busy, Before
    <3>3. \A m \in Update!Names, n \in Update!Names :
            binaries'[m] # Update!None /\ binaries'[m] = binaries'[n] => m = n
      BY <1>0, <1>a, <1>c, <1>e, <2>2 DEF ChainSound, WorkSound, Update!Busy, Before
    <3>4. installed' <= latest'
      BY <1>0, <1>a, <1>c, <1>e DEF ChainSound, WorkSound, Update!Busy, Before
    <3> QED
      BY <3>1, <3>2, <3>3, <3>4 DEF ChainSound
  <2>6. ASSUME NEW q \in Update!Installers, Update!Busy(q)'
        PROVE  WorkSound(q)'
    BY <1>0, <1>a, <1>c, <2>1, <2>2, <2>6 DEF OneAtWork, ChainSound, WorkSound, Update!Busy, Before
  <2>7. ASSUME hostKind' = "supervised", updateFaults' = 0
        PROVE  UnitSound'
    BY <1>0, <1>a, <1>c, <2>1, <2>2, <2>7 DEF OneAtWork, ChainSound, WorkSound, UnitSound, Update!Busy, Before
  <2> QED
    BY <2>3, <2>4, <2>5, <2>6, <2>7 DEF UpdateInv
<1>17. ASSUME NEW p \in Update!Installers, Update!Chmod(p)
      PROVE  UpdateInv'
  <2> USE <1>17 DEF Update!Chmod, Update!At, Update!Goes, Update!CLI
  <2>1. task' \in [Update!Installers -> Installer]
    <3>1. task[p] \in Installer
      BY <1>a, <1>c
    <3>2. task' = [task EXCEPT ![p] = [task[p] EXCEPT !.pc = "restart"]]
      OBVIOUS
    <3>3. [task[p] EXCEPT !.pc = "restart"] \in Installer
      BY <1>a, <3>1 DEF Installer
    <3> QED
      BY <1>a, <3>2, <3>3
  <2>2. binaries' \in [Update!Names -> Update!Inodes \cup {Update!None}]
    BY <1>a, <1>c
  <2>0. installed' \in 0..Releases
    BY <1>a, <1>e
  <2>3. Update!TypeOK'
    BY <1>a, <1>b, <2>0, <2>1, <2>2
  <2>4. OneAtWork'
    BY <1>0, <1>a, <1>c, <2>1 DEF OneAtWork, Update!Busy
  <2>5. ChainSound'
    <3>1. \E n \in Update!Names : binaries'[n] # Update!None
      BY <1>0, <1>a, <1>c, <1>e, <2>2 DEF ChainSound, WorkSound, Update!Busy, Before
    <3>2. \A n \in Update!Names : binaries'[n] # Update!None => n <= updatesMade' /\ binaries'[n].id <= updatesMade'
      BY <1>0, <1>a, <1>c, <1>e, <2>2 DEF ChainSound, WorkSound, Update!Busy, Before
    <3>3. \A m \in Update!Names, n \in Update!Names :
            binaries'[m] # Update!None /\ binaries'[m] = binaries'[n] => m = n
      BY <1>0, <1>a, <1>c, <1>e, <2>2 DEF ChainSound, WorkSound, Update!Busy, Before
    <3>4. installed' <= latest'
      BY <1>0, <1>a, <1>c, <1>e DEF ChainSound, WorkSound, Update!Busy, Before
    <3> QED
      BY <3>1, <3>2, <3>3, <3>4 DEF ChainSound
  <2>6. ASSUME NEW q \in Update!Installers, Update!Busy(q)'
        PROVE  WorkSound(q)'
    BY <1>0, <1>a, <1>c, <2>1, <2>2, <2>6 DEF OneAtWork, ChainSound, WorkSound, Update!Busy, Before
  <2>7. ASSUME hostKind' = "supervised", updateFaults' = 0
        PROVE  UnitSound'
    BY <1>0, <1>a, <1>c, <2>1, <2>2, <2>7 DEF OneAtWork, ChainSound, WorkSound, UnitSound, Update!Busy, Before
  <2> QED
    BY <2>3, <2>4, <2>5, <2>6, <2>7 DEF UpdateInv
<1>18. ASSUME NEW p \in Update!Installers, Update!ChmodFails(p)
      PROVE  UpdateInv'
  <2> USE <1>18 DEF Update!ChmodFails, Update!At, Update!Over, Update!CLI
  <2>1. task' \in [Update!Installers -> Installer]
    BY <1>a, <1>c DEF Installer
  <2>2. binaries' \in [Update!Names -> Update!Inodes \cup {Update!None}]
    BY <1>a, <1>c
  <2>3. Update!TypeOK'
    BY <1>a, <1>b, <1>c, <2>1, <2>2
  <2>4. OneAtWork'
    BY <1>0, <1>a, <1>c, <2>1 DEF OneAtWork, Update!Busy
  <2>5. ChainSound'
    BY <1>0, <1>a, <1>c, <2>2 DEF ChainSound
  <2>6. ASSUME NEW q \in Update!Installers, Update!Busy(q)'
        PROVE  WorkSound(q)'
    BY <1>0, <1>a, <1>c, <2>1, <2>2, <2>6 DEF OneAtWork, ChainSound, WorkSound, Update!Busy, Before
  <2>7. ASSUME hostKind' = "supervised", updateFaults' = 0
        PROVE  UnitSound'
    BY <1>0, <1>a, <1>c, <2>1, <2>2, <2>7 DEF OneAtWork, ChainSound, WorkSound, UnitSound, Update!Busy, Before
  <2> QED
    BY <2>3, <2>4, <2>5, <2>6, <2>7 DEF UpdateInv
<1>19. ASSUME NEW p \in Update!Installers, Update!RestartUnit(p)
      PROVE  UpdateInv'
  <2> USE <1>19 DEF Update!RestartUnit, Update!Restarting, Update!At, Update!DaemonGone, Update!CLI
  <2>1. task' \in [Update!Installers -> Installer]
    BY <1>a, <1>c DEF Installer
  <2>2. binaries' \in [Update!Names -> Update!Inodes \cup {Update!None}]
    BY <1>a, <1>c
  <2>3. Update!TypeOK'
    BY <1>a, <1>b, <1>c, <2>1, <2>2
  <2>4. OneAtWork'
    BY <1>0, <1>a, <1>c, <2>1 DEF OneAtWork, Update!Busy
  <2>5. ChainSound'
    BY <1>0, <1>a, <1>c, <2>2 DEF ChainSound
  <2>6. ASSUME NEW q \in Update!Installers, Update!Busy(q)'
        PROVE  WorkSound(q)'
    BY <1>0, <1>a, <1>c, <2>1, <2>2, <2>6 DEF OneAtWork, ChainSound, WorkSound, Update!Busy, Before
  <2>7. ASSUME hostKind' = "supervised", updateFaults' = 0
        PROVE  UnitSound'
    BY <1>0, <1>a, <1>c, <2>1, <2>2, <2>7 DEF OneAtWork, ChainSound, WorkSound, UnitSound, Update!Busy, Before
  <2> QED
    BY <2>3, <2>4, <2>5, <2>6, <2>7 DEF UpdateInv
<1>20. ASSUME NEW p \in Update!Installers, Update!RestartInstalls(p)
      PROVE  UpdateInv'
  <2> USE <1>20 DEF Update!RestartInstalls, Update!Restarting, Update!At, Update!DaemonGone, Update!Image, Update!Paths, Update!CLI
  <2>1. task' \in [Update!Installers -> Installer]
    BY <1>a, <1>c DEF Installer
  <2>2. binaries' \in [Update!Names -> Update!Inodes \cup {Update!None}]
    BY <1>a, <1>c
  <2>3. Update!TypeOK'
    BY <1>a, <1>b, <1>c, <2>1, <2>2
  <2>4. OneAtWork'
    BY <1>0, <1>a, <1>c, <2>1 DEF OneAtWork, Update!Busy
  <2>5. ChainSound'
    BY <1>0, <1>a, <1>c, <2>2 DEF ChainSound
  <2>6. ASSUME NEW q \in Update!Installers, Update!Busy(q)'
        PROVE  WorkSound(q)'
    BY <1>0, <1>a, <1>c, <2>1, <2>2, <2>6 DEF OneAtWork, ChainSound, WorkSound, Update!Busy, Before
  <2>7. ASSUME hostKind' = "supervised", updateFaults' = 0
        PROVE  UnitSound'
    BY <1>0, <1>a, <1>c, <2>1, <2>2, <2>7 DEF OneAtWork, ChainSound, WorkSound, UnitSound, Update!Busy, Before
  <2> QED
    BY <2>3, <2>4, <2>5, <2>6, <2>7 DEF UpdateInv
<1>21. ASSUME NEW p \in Update!Installers, Update!RestartSpawns(p)
      PROVE  UpdateInv'
  <2> USE <1>21 DEF Update!RestartSpawns, Update!Restarting, Update!At, Update!DaemonGone, Update!Image, Update!Paths, Update!CLI
  <2>1. task' \in [Update!Installers -> Installer]
    BY <1>a, <1>c DEF Installer
  <2>2. binaries' \in [Update!Names -> Update!Inodes \cup {Update!None}]
    BY <1>a, <1>c
  <2>3. Update!TypeOK'
    BY <1>a, <1>b, <1>c, <2>1, <2>2
  <2>4. OneAtWork'
    BY <1>0, <1>a, <1>c, <2>1 DEF OneAtWork, Update!Busy
  <2>5. ChainSound'
    BY <1>0, <1>a, <1>c, <2>2 DEF ChainSound
  <2>6. ASSUME NEW q \in Update!Installers, Update!Busy(q)'
        PROVE  WorkSound(q)'
    BY <1>0, <1>a, <1>c, <2>1, <2>2, <2>6 DEF OneAtWork, ChainSound, WorkSound, Update!Busy, Before
  <2>7. ASSUME hostKind' = "supervised", updateFaults' = 0
        PROVE  UnitSound'
    BY <1>0, <1>a, <1>c, <2>1, <2>2, <2>7 DEF OneAtWork, ChainSound, WorkSound, UnitSound, Update!Busy, Before
  <2> QED
    BY <2>3, <2>4, <2>5, <2>6, <2>7 DEF UpdateInv
<1>22. ASSUME NEW p \in Update!Installers, Update!RestartFails(p)
      PROVE  UpdateInv'
  <2> USE <1>22 DEF Update!RestartFails, Update!Restarting, Update!At, Update!DaemonGone, Update!CLI
  <2>1. task' \in [Update!Installers -> Installer]
    BY <1>a, <1>c DEF Installer
  <2>2. binaries' \in [Update!Names -> Update!Inodes \cup {Update!None}]
    BY <1>a, <1>c
  <2>3. Update!TypeOK'
    BY <1>a, <1>b, <1>c, <2>1, <2>2
  <2>4. OneAtWork'
    BY <1>0, <1>a, <1>c, <2>1 DEF OneAtWork, Update!Busy
  <2>5. ChainSound'
    BY <1>0, <1>a, <1>c, <2>2 DEF ChainSound
  <2>6. ASSUME NEW q \in Update!Installers, Update!Busy(q)'
        PROVE  WorkSound(q)'
    BY <1>0, <1>a, <1>c, <2>1, <2>2, <2>6 DEF OneAtWork, ChainSound, WorkSound, Update!Busy, Before
  <2>7. ASSUME hostKind' = "supervised", updateFaults' = 0
        PROVE  UnitSound'
    BY <1>0, <1>a, <1>c, <2>1, <2>2, <2>7 DEF OneAtWork, ChainSound, WorkSound, UnitSound, Update!Busy, Before
  <2> QED
    BY <2>3, <2>4, <2>5, <2>6, <2>7 DEF UpdateInv
<1>23. ASSUME NEW p \in Update!Installers, Update!Crash(p)
      PROVE  UpdateInv'
  <2> USE <1>23 DEF Update!Crash, Update!Busy, Update!Over, Update!DaemonGone, Update!CLI
  <2>1. task' \in [Update!Installers -> Installer]
    <3>1. CASE p = "cli"
      BY <1>a, <1>c, <3>1
    <3>2. CASE p # "cli"
      BY <1>a, <1>c, <3>2
    <3> QED
      BY <3>1, <3>2
  <2>2. binaries' \in [Update!Names -> Update!Inodes \cup {Update!None}]
    BY <1>a, <1>c
  <2>0. updateFaults' \in 0..UpdateFaults
    BY <1>a
  <2>00. /\ cliBinary' \in Update!Inodes \cup {Update!None} /\ daemonBinary' \in Update!Inodes \cup {Update!None}
         /\ flag' \in BOOLEAN
    <3>1. CASE p = "cli"
      BY <1>a, <3>1
    <3>2. CASE p # "cli"
      BY <1>a, <3>2
    <3> QED
      BY <3>1, <3>2
  <2>3. Update!TypeOK'
    BY <1>a, <1>b, <2>0, <2>00, <2>1, <2>2
  <2>4. OneAtWork'
    BY <1>0, <1>a, <1>c, <2>1 DEF OneAtWork, Update!Busy
  <2>5. ChainSound'
    BY <1>0, <1>a, <1>c, <2>2 DEF ChainSound
  <2>6. ASSUME NEW q \in Update!Installers, Update!Busy(q)'
        PROVE  WorkSound(q)'
    BY <1>0, <1>a, <1>c, <2>1, <2>2, <2>6 DEF OneAtWork, ChainSound, WorkSound, Update!Busy, Before
  <2>7. ASSUME hostKind' = "supervised", updateFaults' = 0
        PROVE  UnitSound'
    BY <1>0, <1>a, <1>c, <2>1, <2>2, <2>7 DEF OneAtWork, ChainSound, WorkSound, UnitSound, Update!Busy, Before
  <2> QED
    BY <2>3, <2>4, <2>5, <2>6, <2>7 DEF UpdateInv
<1>24. CASE UNCHANGED Update!vars
  BY <1>0, <1>24 DEF Update!vars, UpdateInv, Update!TypeOK, OneAtWork, ChainSound, WorkSound, UnitSound, Update!Busy
<1> QED
  BY <1>1, <1>2, <1>3, <1>4, <1>5, <1>6, <1>7, <1>8, <1>9, <1>10, <1>11, <1>12, <1>13, <1>14, <1>15, <1>16, <1>17, <1>18, <1>19, <1>20, <1>21, <1>22, <1>23, <1>24 DEF Update!Next, Update!Step

\* Whatever step an update fails or dies at, a whole binary is left, the flag is
\* free for the next one, and an update that nothing disturbs takes effect: for
\* every number of tasks, releases and faults (update.rs 356-391,
\* daemon/runtime.rs 147-184).  The CLI does not update while the daemon does:
\* it knows no flag, and the two would move each other's files.
THEOREM UpdateIsSound ==
  ASSUME ~UpdateOverlap
  PROVE  Update!Spec => []UpdateSound
<1>1. UpdateInv => UpdateSound
  <2> SUFFICES ASSUME UpdateInv PROVE UpdateSound
    OBVIOUS
  <2>1. Update!TypeOK /\ Update!Recoverable /\ Update!FlagOwned
    BY DEF UpdateInv, ChainSound, OneAtWork, Update!Recoverable, Update!FlagOwned
  <2>2. Update!TakesEffect
    BY DEF UpdateInv, UnitSound, Update!TakesEffect, Update!Busy
  <2> QED
    BY <2>1, <2>2 DEF UpdateSound, Update!UpdateSound
<1> QED
  BY UpdateInit, UpdateStep, <1>1, PTL DEF Update!Spec


-----------------------------------------------------------------------------
(* StatsFeed: the minutes the backend is told of.                          *)

\* The newest minute that has been sampled.
Sampled == IF "minute" \in due THEN minute - 1 ELSE minute

\* The newest minute the backend was told of.
Reported ==
    IF batches = <<>> THEN 0
    ELSE batches[Len(batches)].samples[Len(batches[Len(batches)].samples)]

\* Minutes from the last flush tick that ran to the present one.
SinceFlush == IF "flush" \in due THEN FlushEvery ELSE age

\* The buffer ends with the newest sample and has no gap; it holds nothing that
\* was reported.
BufferSound ==
    /\ \A j \in 1..Len(buf) : buf[j] = Sampled - Len(buf) + j
    /\ Reported + Len(buf) <= Sampled
    /\ ~up => buf = <<>> /\ due = {}
    /\ due # {} => minute >= 1
    /\ "flush" \in due => age = 0

\* Of the connection that sent the last batch: all that was sampled since is in
\* the buffer, or the buffer is full; and the batch is at most a minute older than
\* the flush tick that sent it.
ConnSound ==
    /\ \A i \in 1..Len(batches) : batches[i].conn <= conn
    /\ batches # <<>> /\ batches[Len(batches)].conn = conn =>
          /\ Reported + Len(buf) = Sampled \/ Len(buf) = BufCap
          /\ minute <= Reported + SinceFlush + 1

FeedInv == Stats!TypeOK /\ BufferSound /\ ConnSound /\ Stats!MinuteSamples

\* FeedInv holds when the daemon starts.
LEMMA FeedInit == Stats!Init => FeedInv
<1> SUFFICES ASSUME Stats!Init PROVE FeedInv
  OBVIOUS
<1> USE FeedAssumption DEF Stats!FeedAssumption, Stats!Init
<1>1. Stats!TypeOK
  <2>1. buf \in Seq(1..MinuteMax) /\ Len(buf) = 0
    BY EmptySeq
  <2>2. batches \in Seq([conn : 0..DropMax, samples : Seq(1..MinuteMax)])
    BY EmptySeq
  <2>3. last \in [Stats!Metrics -> 0..Stats!Long]
    BY DEF Stats!Long
  <2> QED
    BY <2>1, <2>2, <2>3 DEF Stats!TypeOK, Stats!Off
<1>2. BufferSound /\ ConnSound
  BY EmptySeq DEF BufferSound, ConnSound, Reported, Sampled, SinceFlush
<1>3. Stats!MinuteSamples
  BY EmptySeq DEF Stats!MinuteSamples
<1> QED
  BY <1>1, <1>2, <1>3 DEF FeedInv

\* What the types say of the batches and of the buffer, a fact at a time.
LEMMA FeedFacts ==
    ASSUME FeedInv
    PROVE  /\ \A i \in 1..Len(batches) :
                /\ batches[i].conn \in 0..DropMax
                /\ batches[i].samples \in Seq(1..MinuteMax)
                /\ batches[i].samples # <<>> /\ Len(batches[i].samples) \in Nat \ {0}
                /\ \A j \in 1..Len(batches[i].samples) : batches[i].samples[j] \in 1..MinuteMax
           /\ Len(batches) \in Nat /\ (batches # <<>> <=> Len(batches) # 0)
           /\ Reported \in 0..MinuteMax
           /\ Len(buf) \in Nat /\ (buf # <<>> <=> Len(buf) # 0)
           /\ \A j \in 1..Len(buf) : buf[j] \in 1..MinuteMax
           /\ minute \in Nat /\ conn \in Nat /\ age \in Nat /\ MinuteMax \in Nat
           /\ FlushEvery \in Nat \ {0} /\ BufCap \in Nat /\ FlushEvery <= BufCap
<1> DEFINE R == [conn : 0..DropMax, samples : Seq(1..MinuteMax)]
<1> USE FeedAssumption DEF Stats!FeedAssumption
<1>1. batches \in Seq(R) /\ buf \in Seq(1..MinuteMax)
  BY DEF FeedInv, Stats!TypeOK
<1>2. /\ Len(batches) \in Nat /\ Len(buf) \in Nat
      /\ DOMAIN batches = 1..Len(batches)
      /\ (batches # <<>> <=> Len(batches) # 0) /\ (buf # <<>> <=> Len(buf) # 0)
  <2> HIDE DEF R
  <2> QED
    BY <1>1, EmptySeq, LenProperties
<1>3. \A i \in 1..Len(batches) : batches[i] \in R
  <2> HIDE DEF R
  <2> QED
    BY <1>1, ElementOfSeq
<1>4. \A i \in 1..Len(batches) :
         batches[i].conn \in 0..DropMax /\ batches[i].samples \in Seq(1..MinuteMax)
  BY <1>3
<1>5. \A i \in 1..Len(batches) : batches[i].samples # <<>>
  BY <1>2 DEF FeedInv, Stats!MinuteSamples
<1>6. \A i \in 1..Len(batches) : Len(batches[i].samples) \in Nat \ {0}
  BY <1>4, <1>5, EmptySeq, LenProperties
<1>7. \A i \in 1..Len(batches) : \A j \in 1..Len(batches[i].samples) : batches[i].samples[j] \in 1..MinuteMax
  BY <1>4, ElementOfSeq
<1>8. Reported \in 0..MinuteMax
  <2>1. CASE batches = <<>>
    BY <2>1 DEF Reported
  <2>2. CASE batches # <<>>
    <3>1. Len(batches) \in 1..Len(batches)
      BY <2>2, <1>2
    <3>2. Len(batches[Len(batches)].samples) \in 1..Len(batches[Len(batches)].samples)
      BY <3>1, <1>6
    <3> QED
      BY <2>2, <3>1, <3>2, <1>7 DEF Reported
  <2> QED
    BY <2>1, <2>2
<1>9. \A j \in 1..Len(buf) : buf[j] \in 1..MinuteMax
  BY <1>1, ElementOfSeq
<1>10. minute \in Nat /\ conn \in Nat /\ age \in Nat
  BY DEF FeedInv, Stats!TypeOK
<1> QED
  BY <1>2, <1>4, <1>5, <1>6, <1>7, <1>8, <1>9, <1>10

\* A step that leaves the buffer, the batches, the clock and the two ticks that
\* matter alone keeps what is said of them.
LEMMA FeedFrame ==
    ASSUME FeedInv, Stats!TypeOK', UNCHANGED <<minute, conn, up, age, buf, batches>>,
           due' \subseteq due, "minute" \in due' <=> "minute" \in due,
           "flush" \in due' <=> "flush" \in due
    PROVE  FeedInv'
<1>1. Sampled' = Sampled /\ Reported' = Reported /\ SinceFlush' = SinceFlush
  BY DEF Sampled, Reported, SinceFlush
<1>2. BufferSound'
  BY <1>1 DEF FeedInv, BufferSound
<1>3. ConnSound'
  BY <1>1 DEF FeedInv, ConnSound
<1>4. Stats!MinuteSamples'
  BY DEF FeedInv, Stats!MinuteSamples
<1> QED
  BY <1>2, <1>3, <1>4 DEF FeedInv

\* The connection is lost.
LEMMA FeedLost == ASSUME FeedInv, Stats!Lost PROVE FeedInv'
<1> USE DEF Stats!Lost
<1>0. /\ minute \in Nat /\ conn \in Nat /\ Reported \in Nat /\ Len(buf) \in Nat /\ Len(batches) \in Nat
      /\ batches # <<>> <=> Len(batches) # 0
      /\ \A i \in 1..Len(batches) : batches[i].conn \in Nat
  BY FeedFacts
<1>1. Stats!TypeOK'
  <2>1. buf' \in Seq(1..MinuteMax) /\ Len(buf') <= BufCap
    BY EmptySeq, FeedFacts
  <2>2. conn' \in 0..DropMax
    BY FeedAssumption DEF Stats!FeedAssumption, FeedInv, Stats!TypeOK
  <2>3. subscription' \in [active : BOOLEAN, left : 0..1] /\ summary' \in BOOLEAN
    BY DEF Stats!Off
  <2>4. up' \in BOOLEAN /\ due' \subseteq Stats!Ticks /\ minute' = minute /\ age' = age
        /\ batches' = batches /\ last' = last
    OBVIOUS
  <2> QED
    BY <2>1, <2>2, <2>3, <2>4 DEF FeedInv, Stats!TypeOK
<1>2. Reported' = Reported /\ Sampled' = minute
  BY DEF Reported, Sampled
<1>3. Reported <= minute
  BY <1>0 DEF FeedInv, BufferSound, Sampled
<1>4. BufferSound'
  <2>1. Len(buf') = 0 /\ minute' = minute
    BY EmptySeq
  <2> QED
    BY <1>0, <1>2, <1>3, <2>1 DEF BufferSound
<1>5. ConnSound'
  <2>1. \A i \in 1..Len(batches) : batches[i].conn < conn'
    BY <1>0 DEF FeedInv, ConnSound
  <2>2. batches' = batches /\ conn' \in Nat
    BY <1>0
  <2>3. batches # <<>> => batches[Len(batches)].conn # conn'
    BY <2>1, <2>2, <1>0
  <2>4. \A i \in 1..Len(batches) : batches[i].conn <= conn'
    BY <2>1, <2>2, <1>0
  <2> QED
    BY <2>2, <2>3, <2>4 DEF ConnSound
<1>6. Stats!MinuteSamples'
  BY DEF FeedInv, Stats!MinuteSamples
<1> QED
  BY <1>1, <1>4, <1>5, <1>6 DEF FeedInv

\* A minute passes.
LEMMA FeedTick == ASSUME FeedInv, Stats!Tick PROVE FeedInv'
<1> USE DEF Stats!Tick
<1>0. /\ minute \in Nat /\ age \in Nat /\ Reported \in Nat /\ Len(buf) \in Nat /\ MinuteMax \in Nat
      /\ FlushEvery \in Nat \ {0} /\ age < FlushEvery
  BY FeedFacts DEF FeedInv, Stats!TypeOK
<1>1. Stats!TypeOK'
  <2>1. minute' \in 0..MinuteMax /\ age' \in 0..(FlushEvery - 1)
    BY <1>0
  <2>2. subscription' \in [active : BOOLEAN, left : 0..1]
    <3>1. subscription \in [active : BOOLEAN, left : 0..1]
      BY DEF FeedInv, Stats!TypeOK
    <3> QED
      BY <3>1
  <2>3. last' \in [Stats!Metrics -> 0..Stats!Long]
    <3>1. last \in [Stats!Metrics -> 0..(MinuteMax + 1)]
      BY DEF FeedInv, Stats!TypeOK, Stats!Long
    <3>2. last' = [m \in Stats!Metrics |-> IF last[m] = MinuteMax + 1 THEN MinuteMax + 1 ELSE last[m] + 1]
      BY DEF Stats!Long
    <3> HIDE DEF Stats!Tick
    <3>3. ASSUME NEW m \in Stats!Metrics
          PROVE  (IF last[m] = MinuteMax + 1 THEN MinuteMax + 1 ELSE last[m] + 1) \in 0..(MinuteMax + 1)
      <4>1. last[m] \in 0..(MinuteMax + 1)
        BY <3>1
      <4> QED
        BY <4>1, <1>0
    <3> QED
      BY <3>2, <3>3 DEF Stats!Long
  <2>4. due' \subseteq Stats!Ticks
    OBVIOUS
  <2>5. UNCHANGED <<conn, up, buf, batches, summary>>
    OBVIOUS
  <2> QED
    BY <2>1, <2>2, <2>3, <2>4, <2>5 DEF FeedInv, Stats!TypeOK
<1>2. Reported' = Reported /\ Sampled = minute /\ Sampled' = minute
  <2>1. "minute" \in due' /\ "minute" \notin due
    BY DEF Stats!Ticks
  <2> QED
    BY <2>1, <1>0 DEF Reported, Sampled
<1>3. BufferSound'
  <2>1. due' # {} /\ ("flush" \in due' => age' = 0)
    BY DEF Stats!Ticks
  <2>2. buf' = buf /\ minute' >= 1 /\ up'
    BY <1>0
  <2> QED
    BY <1>2, <2>1, <2>2 DEF BufferSound, FeedInv
<1>4. ConnSound'
  <2>1. SinceFlush = age
    BY DEF SinceFlush
  <2>2. SinceFlush' = age + 1
    BY <1>0 DEF SinceFlush, Stats!Ticks
  <2>3. batches' = batches /\ conn' = conn /\ buf' = buf /\ minute' = minute + 1
    OBVIOUS
  <2>4. minute <= Reported + age + 1 => minute + 1 <= Reported + (age + 1) + 1
    BY <1>0
  <2> QED
    BY <1>2, <2>1, <2>2, <2>3, <2>4 DEF ConnSound, FeedInv
<1>5. Stats!MinuteSamples'
  BY DEF FeedInv, Stats!MinuteSamples
<1> QED
  BY <1>1, <1>3, <1>4, <1>5 DEF FeedInv

\* The minute is sampled.
LEMMA FeedMinute == ASSUME FeedInv, Stats!MinuteTick PROVE FeedInv'
<1> DEFINE all == Append(buf, minute)
<1>0. /\ minute \in 1..MinuteMax /\ Reported \in Nat /\ Len(buf) \in Nat /\ MinuteMax \in Nat
      /\ BufCap \in Nat \ {0} /\ Len(buf) <= BufCap /\ buf \in Seq(1..MinuteMax) /\ up
  BY FeedFacts DEF FeedInv, Stats!TypeOK, BufferSound, Stats!MinuteTick
<1>1. Sampled = minute - 1 /\ Sampled' = minute /\ Reported' = Reported /\ SinceFlush' = SinceFlush
  BY DEF Sampled, Reported, SinceFlush, Stats!MinuteTick, Stats!Ran
<1>a. /\ buf' = IF Len(all) > BufCap THEN Tail(all) ELSE all
      /\ due' \subseteq due /\ "minute" \in due /\ ("flush" \in due' <=> "flush" \in due)
      /\ UNCHANGED <<minute, conn, up, age, batches, subscription, summary, last>>
  BY DEF Stats!MinuteTick, Stats!Ran
<1>2. /\ all \in Seq(1..MinuteMax) /\ Len(all) = Len(buf) + 1
      /\ \A j \in 1..(Len(buf) + 1) : all[j] = minute - (Len(buf) + 1) + j
  <2>2. /\ all \in Seq(1..MinuteMax) /\ Len(all) = Len(buf) + 1
        /\ \A j \in 1..Len(buf) : all[j] = buf[j]
        /\ all[Len(buf) + 1] = minute
    BY <1>0, AppendProperties
  <2>3. \A j \in 1..Len(buf) : buf[j] = minute - 1 - Len(buf) + j
    BY <1>1 DEF FeedInv, BufferSound
  <2> HIDE DEF all
  <2>4. ASSUME NEW j \in 1..(Len(buf) + 1) PROVE all[j] = minute - (Len(buf) + 1) + j
    <3>1. CASE j = Len(buf) + 1
      BY <3>1, <2>2, <1>0
    <3>2. CASE j \in 1..Len(buf)
      BY <3>2, <2>2, <2>3, <1>0
    <3> QED
      BY <3>1, <3>2, <1>0
  <2> QED
    BY <2>2, <2>4
<1> HIDE DEF all
<1>3. /\ buf' \in Seq(1..MinuteMax)
      /\ Len(buf') <= BufCap
      /\ Len(buf') = Len(buf) + 1 \/ (Len(buf') = BufCap /\ Len(buf) = BufCap)
      /\ \A j \in 1..Len(buf') : buf'[j] = minute - Len(buf') + j
  <2>1. CASE Len(all) > BufCap
    <3>1. buf' = Tail(all)
      BY <1>a, <2>1
    <3>0. all # <<>>
      BY <1>0, <1>2, EmptySeq
    <3>2. /\ Tail(all) \in Seq(1..MinuteMax) /\ Len(Tail(all)) = Len(all) - 1
          /\ \A j \in 1..(Len(all) - 1) : Tail(all)[j] = all[j + 1]
      BY <3>0, <1>2, HeadTailProperties
    <3>3. Len(buf') = Len(buf) /\ Len(buf) = BufCap
      BY <3>1, <3>2, <1>0, <1>2, <2>1
    <3>4. ASSUME NEW j \in 1..Len(buf) PROVE buf'[j] = minute - Len(buf) + j
      <4>1. j + 1 \in 1..(Len(buf) + 1) /\ j \in 1..(Len(all) - 1)
        BY <1>0, <1>2
      <4>2. buf'[j] = all[j + 1]
        BY <3>1, <3>2, <4>1
      <4> QED
        BY <4>1, <4>2, <1>0, <1>2
    <3> QED
      BY <3>1, <3>2, <3>3, <3>4, <1>0
  <2>2. CASE ~(Len(all) > BufCap)
    <3>1. buf' = all
      BY <1>a, <2>2
    <3>2. Len(buf') = Len(buf) + 1 /\ Len(buf) + 1 <= BufCap
      BY <3>1, <2>2, <1>0, <1>2
    <3>3. \A j \in 1..Len(buf') : buf'[j] = minute - Len(buf') + j
      BY <3>1, <3>2, <1>2
    <3>4. Len(buf') <= BufCap
      BY <3>2
    <3>5. buf' \in Seq(1..MinuteMax)
      BY <3>1, <1>2
    <3>6. Len(buf') = Len(buf) + 1 \/ (Len(buf') = BufCap /\ Len(buf) = BufCap)
      BY <3>2
    <3> QED
      BY <3>3, <3>4, <3>5, <3>6, Zenon
  <2> QED
    BY <2>1, <2>2
<1>4. Stats!TypeOK'
  BY <1>3, <1>a DEF FeedInv, Stats!TypeOK
<1>5. Len(buf') \in Nat
  BY <1>3, LenProperties
<1>6. BufferSound'
  <2>1. Reported + Len(buf) <= minute - 1
    BY <1>1 DEF FeedInv, BufferSound
  <2>2. Reported + Len(buf') <= minute
    BY <2>1, <1>0, <1>3, <1>5
  <2>3. up' /\ minute' >= 1 /\ ("flush" \in due' => age' = 0)
    BY <1>0, <1>a DEF FeedInv, BufferSound
  <2> QED
    BY <1>1, <1>3, <2>2, <2>3 DEF BufferSound
<1>7. ConnSound'
  <2>0. Len(buf') = Len(buf) + 1 \/ (Len(buf') = BufCap /\ Len(buf) = BufCap)
    BY <1>3
  <2>1. ASSUME Reported + Len(buf) = minute - 1 \/ Len(buf) = BufCap
        PROVE  Reported + Len(buf') = minute \/ Len(buf') = BufCap
    <3>1. Len(buf') <= BufCap /\ Len(buf) \in Nat /\ Reported \in Nat /\ minute \in Nat /\ BufCap \in Nat
      BY <1>0, <1>3
    <3> QED
      BY <2>0, <2>1, <3>1, <1>5
  <2> QED
    BY <1>1, <1>a, <2>1 DEF ConnSound, FeedInv
<1>8. Stats!MinuteSamples'
  BY <1>a DEF FeedInv, Stats!MinuteSamples
<1> QED
  BY <1>4, <1>6, <1>7, <1>8 DEF FeedInv

\* The buffer is sent.
LEMMA FeedFlush == ASSUME FeedInv, Stats!Flush PROVE FeedInv'
<1> DEFINE R == [conn : 0..DropMax, samples : Seq(1..MinuteMax)]
           b == [conn |-> conn, samples |-> buf]
<1>0. /\ minute \in Nat /\ Reported \in Nat /\ Len(buf) \in Nat /\ conn \in Nat /\ age = 0 /\ up
      /\ FlushEvery \in Nat /\ BufCap \in Nat \ {0} /\ FlushEvery <= BufCap
      /\ Len(batches) \in Nat /\ (batches # <<>> <=> Len(batches) # 0) /\ (buf # <<>> <=> Len(buf) # 0)
      /\ \A i \in 1..Len(batches) : batches[i].conn \in Nat
  BY FeedFacts DEF FeedInv, BufferSound, Stats!Flush
<1>1. Sampled' = Sampled /\ SinceFlush = FlushEvery /\ SinceFlush' = 0
      /\ Sampled \in Int /\ minute <= Sampled + 1
  BY <1>0 DEF Sampled, SinceFlush, Stats!Flush, Stats!Ran
<1>2. Len(buf') = 0 /\ buf' \in Seq(1..MinuteMax)
  BY EmptySeq DEF Stats!Flush
<1>3. /\ due' \subseteq due /\ "flush" \notin due'
      /\ UNCHANGED <<minute, conn, up, age, subscription, summary, last>>
      /\ batches' = IF buf = <<>> THEN batches ELSE Append(batches, b)
  BY DEF Stats!Flush, Stats!Ran
<1>b. /\ \A j \in 1..Len(buf) : buf[j] = Sampled - Len(buf) + j
      /\ Reported + Len(buf) <= Sampled
      /\ due # {} => minute >= 1
  BY DEF FeedInv, BufferSound
<1>4. CASE buf = <<>>
  <2>1. batches' = batches /\ Reported' = Reported /\ Len(buf) = 0
    BY <1>4, <1>3, <1>0 DEF Reported
  <2>2. Stats!TypeOK'
    BY <1>0, <1>2, <1>3, <2>1 DEF FeedInv, Stats!TypeOK
  <2>3. BufferSound'
    BY <1>0, <1>1, <1>2, <1>3, <1>b, <2>1 DEF BufferSound
  <2>4. ConnSound'
    BY <1>0, <1>1, <1>2, <1>3, <2>1 DEF FeedInv, ConnSound
  <2>5. Stats!MinuteSamples'
    BY <2>1 DEF FeedInv, Stats!MinuteSamples
  <2> QED
    BY <2>2, <2>3, <2>4, <2>5 DEF FeedInv
<1>5. CASE buf # <<>>
  <2>1. batches \in Seq(R) /\ b \in R
    BY DEF FeedInv, Stats!TypeOK
  <2>3. b.conn = conn /\ b.samples = buf
    OBVIOUS
  <2> HIDE DEF R, b
  <2>2. /\ batches' \in Seq(R) /\ Len(batches') = Len(batches) + 1
        /\ \A i \in 1..Len(batches) : batches'[i] = batches[i]
        /\ batches'[Len(batches) + 1] = b
    BY <1>3, <1>5, <2>1, AppendProperties
  <2>4. Len(buf) >= 1 /\ buf[Len(buf)] = Sampled /\ buf[1] = Sampled - Len(buf) + 1
    <3>1. 1 \in 1..Len(buf) /\ Len(buf) \in 1..Len(buf)
      BY <1>0, <1>5
    <3> QED
      BY <3>1, <1>b, <1>0, <1>1
  <2>5. batches' # <<>> /\ DOMAIN batches' = 1..(Len(batches) + 1) /\ DOMAIN batches = 1..Len(batches)
    BY <1>0, <2>1, <2>2, EmptySeq, LenProperties
  <2>6. Reported' = Sampled
    BY <2>2, <2>3, <2>4, <2>5 DEF Reported
  <2>7. Stats!TypeOK'
    BY <1>0, <1>2, <1>3, <2>2 DEF FeedInv, Stats!TypeOK, R
  <2>8. BufferSound'
    BY <1>0, <1>1, <1>2, <1>3, <1>b, <2>6 DEF BufferSound
  <2>9. ConnSound'
    <3>1. \A i \in 1..Len(batches') : batches'[i].conn <= conn'
      <4> SUFFICES ASSUME NEW i \in 1..Len(batches') PROVE batches'[i].conn <= conn'
        OBVIOUS
      <4>1. CASE i = Len(batches) + 1
        BY <4>1, <2>2, <2>3, <1>3, <1>0
      <4>2. CASE i \in 1..Len(batches)
        BY <4>2, <2>2, <1>3 DEF FeedInv, ConnSound
      <4> QED
        BY <4>1, <4>2, <2>2, <1>0
    <3>2. Reported' + Len(buf') = Sampled' /\ minute' <= Reported' + SinceFlush' + 1
      BY <1>1, <1>2, <1>3, <2>6, <1>0
    <3> QED
      BY <3>1, <3>2 DEF ConnSound
  <2>10. Stats!MinuteSamples'
    <3>1. ASSUME NEW i \in DOMAIN batches'
          PROVE  /\ batches'[i].samples # <<>>
                 /\ \A j \in 1..(Len(batches'[i].samples) - 1) :
                      batches'[i].samples[j + 1] = batches'[i].samples[j] + 1
      <4>1. CASE i = Len(batches) + 1
        <5>1. ASSUME NEW j \in 1..(Len(buf) - 1) PROVE buf[j + 1] = buf[j] + 1
          <6>1. j \in 1..Len(buf) /\ j + 1 \in 1..Len(buf)
            BY <1>0
          <6> QED
            BY <6>1, <1>b, <1>1, <1>0
        <5>2. batches'[i].samples = buf
          BY <4>1, <2>2, <2>3
        <5> QED
          BY <5>1, <5>2, <1>5
      <4>2. CASE i \in 1..Len(batches)
        <5>1. batches'[i] = batches[i] /\ i \in DOMAIN batches
          BY <4>2, <2>2, <2>5
        <5> QED
          BY <5>1 DEF FeedInv, Stats!MinuteSamples
      <4> QED
        BY <4>1, <4>2, <2>5, <1>0
    <3>2. ASSUME NEW i \in 1..(Len(batches') - 1)
          PROVE  /\ Stats!Last(batches'[i].samples) < batches'[i + 1].samples[1]
                 /\ batches'[i].conn = batches'[i + 1].conn =>
                      batches'[i + 1].samples[1] <= Stats!Last(batches'[i].samples) + 2
      <4>0. i \in 1..Len(batches) /\ batches'[i] = batches[i]
        BY <2>2, <1>0
      <4>1. CASE i = Len(batches)
        <5>1. batches'[i + 1].samples = buf /\ batches'[i + 1].conn = conn
          BY <4>1, <2>2, <2>3
        <5>2. Stats!Last(batches[i].samples) = Reported
          BY <4>0, <4>1, <1>0 DEF Stats!Last, Reported
        <5>3. Reported < buf[1]
          BY <2>4, <1>b, <1>0, <1>1
        <5>4. batches[i].conn = conn =>
                 /\ Reported + Len(buf) = Sampled \/ Len(buf) = BufCap
                 /\ minute <= Reported + FlushEvery + 1
          BY <4>0, <4>1, <1>0, <1>1 DEF FeedInv, ConnSound
        <5>5. Sampled <= minute
          BY <1>0 DEF Sampled
        <5>6. batches[i].conn = conn => buf[1] <= Reported + 2
          BY <5>4, <5>5, <2>4, <1>0, <1>1
        <5> QED
          BY <5>1, <5>2, <5>3, <5>6, <4>0
      <4>2. CASE i # Len(batches)
        <5>1. i \in 1..(Len(batches) - 1) /\ batches'[i + 1] = batches[i + 1]
          BY <4>0, <4>2, <2>2, <1>0
        <5> QED
          BY <5>1, <4>0 DEF FeedInv, Stats!MinuteSamples
      <4> QED
        BY <4>1, <4>2
    <3> QED
      BY <3>1, <3>2 DEF Stats!MinuteSamples
  <2> QED
    BY <2>7, <2>8, <2>9, <2>10 DEF FeedInv
<1> QED
  BY <1>4, <1>5

\* Every tick, and every loss of the connection, keeps FeedInv.
LEMMA FeedStep == FeedInv /\ [Stats!Next]_(Stats!vars) => FeedInv'
<1> SUFFICES ASSUME FeedInv, [Stats!Next]_(Stats!vars) PROVE FeedInv'
  OBVIOUS
<1>1. CASE Stats!Tick
  BY <1>1, FeedTick
<1>2. CASE Stats!Disconnect
  BY <1>2, FeedLost DEF Stats!Disconnect
<1>3. CASE Stats!Reconnect
  <2> USE <1>3, FeedFacts DEF Stats!Reconnect
  <2>1. Stats!TypeOK'
    BY SMTT(30) DEF FeedInv, Stats!TypeOK, Stats!Long
  <2>2. Reported' = Reported /\ Sampled' = Sampled /\ SinceFlush' = 0 /\ SinceFlush = age
        /\ due = {} /\ Len(buf) = 0 /\ minute' = minute
    BY DEF Reported, Sampled, SinceFlush, FeedInv, BufferSound
  <2>3. BufferSound'
    BY <2>2 DEF FeedInv, BufferSound
  <2>4. ConnSound'
    BY <2>2 DEF FeedInv, ConnSound, Sampled
  <2>5. Stats!MinuteSamples'
    BY DEF FeedInv, Stats!MinuteSamples
  <2> QED
    BY <2>1, <2>3, <2>4, <2>5 DEF FeedInv
<1>4. CASE Stats!SendFails
  BY <1>4, FeedLost DEF Stats!SendFails
<1>5. CASE Stats!MinuteTick
  BY <1>5, FeedMinute
<1>6. CASE Stats!Flush
  BY <1>6, FeedFlush
<1>7. CASE Stats!StatsTick
  <2>1. Stats!TypeOK'
    BY <1>7 DEF Stats!StatsTick, Stats!Ran, FeedInv, Stats!TypeOK, Stats!Off
  <2> QED
    BY <1>7, <2>1, FeedFrame DEF Stats!StatsTick, Stats!Ran
<1>8. CASE Stats!SummaryTick
  <2>1. Stats!TypeOK'
    BY <1>8 DEF Stats!SummaryTick, Stats!Ran, FeedInv, Stats!TypeOK
  <2> QED
    BY <1>8, <2>1, FeedFrame DEF Stats!SummaryTick, Stats!Ran
<1>9. CASE Stats!StatsSubscribe
  <2>1. Stats!TypeOK'
    BY <1>9 DEF Stats!StatsSubscribe, FeedInv, Stats!TypeOK
  <2> QED
    BY <1>9, <2>1, FeedFrame DEF Stats!StatsSubscribe
<1>10. ASSUME NEW on \in BOOLEAN, Stats!SummarySubscribe(on) PROVE FeedInv'
  <2>1. Stats!TypeOK'
    BY <1>10 DEF Stats!SummarySubscribe, FeedInv, Stats!TypeOK
  <2> QED
    BY <1>10, <2>1, FeedFrame DEF Stats!SummarySubscribe
<1>11. ASSUME NEW over \in SUBSET Thresholds, Stats!AlertTick(over) PROVE FeedInv'
  <2>0. 0 \in 0..Stats!Long
    BY FeedFacts DEF Stats!Long
  <2>1. Stats!TypeOK'
    BY <1>11, <2>0 DEF Stats!AlertTick, Stats!Ran, FeedInv, Stats!TypeOK
  <2> QED
    BY <1>11, <2>1, FeedFrame DEF Stats!AlertTick, Stats!Ran
<1>12. CASE UNCHANGED Stats!vars
  <2>1. Stats!TypeOK'
    BY <1>12 DEF Stats!vars, FeedInv, Stats!TypeOK
  <2> QED
    BY <1>12, <2>1, FeedFrame DEF Stats!vars
<1> QED
  BY <1>1, <1>2, <1>3, <1>4, <1>5, <1>6, <1>7, <1>8, <1>9, <1>10, <1>11, <1>12 DEF Stats!Next

\* MinuteSamples, of MCHost: whatever order the ticks that are due together run
\* in, and whenever the connection is lost, no minute is reported twice or out of
\* order, and between two batches of one connection at most one minute is missing
\* (daemon.rs 954-980, 3619-3626), provided the buffer holds a flush period of
\* samples, as it does (both are 5: daemon.rs 565, 958).
THEOREM MinutesReportedOnce == Stats!Spec => []MinuteSamples
<1>1. FeedInv => MinuteSamples
  BY DEF FeedInv, MinuteSamples
<1> QED
  BY FeedInit, FeedStep, <1>1, PTL DEF Stats!Spec


-----------------------------------------------------------------------------
(* DaemonService: the daemon that serves, and what names it.               *)

\* Where a daemon is once it has the lock of the pid file, and before.
Holding == {"locked", "serving"} \cup Service!Ending
Arriving == {"boot", "opened"}
Stopping == {"closing", "dropping", "unlinked"}

\* At most one daemon has the lock, at most one is on its way to it, and the two
\* meet only while the first serves or makes room for the second.
RolesSound ==
    \A p \in Pids, q \in Pids :
        /\ proc[p].pc \in Holding /\ proc[q].pc \in Holding => p = q
        /\ proc[p].pc \in Arriving /\ proc[q].pc \in Arriving => p = q
        /\ proc[p].pc \in Arriving /\ proc[q].pc \in Holding =>
              proc[q].pc \in {"serving", "leaving", "exiting"}

\* Whoever has the lock has it of the file that bears the name, until it removes
\* the name; and from there to the shutdown the file and the socket are its own.
NamesSound ==
    \A p \in Pids :
        /\ proc[p].pc \in Holding => proc[p].ino \in Service!Inodes /\ lock[proc[p].ino] = p
        /\ proc[p].pc \in Holding \ {"unlinked"} => proc[p].ino = path
        /\ proc[p].pc = "opened" => proc[p].ino = path /\ path # 0
        /\ proc[p].pc \in {"locked", "serving"} => pidOf[path] = p
        /\ proc[p].pc = "serving" => sock = p

\* Which daemons may be alive while a command is under way: the one it starts,
\* the one it waits for, none between the two halves of a restart.
CommandSound ==
    \A p \in Pids : Service!Live(p) =>
        /\ command.op = "write" => p = command.pid /\ proc[p].pc \notin Service!Ending
        /\ command.op \in {"stop", "wait"} => p = command.pid /\ proc[p].pc \in Stopping
        /\ command.op = "idle" => ~command.again

ServiceInv == Service!TypeOK /\ RolesSound /\ NamesSound /\ CommandSound

Places == {"free", "serving", "gone"} \cup Service!Starting \cup Service!Ending
Processes ==
    [pc : Places, ino : 0..InodeMax, child : Pids \cup {0}, link : BOOLEAN, caught : BOOLEAN]

\* ServiceInv holds before the first daemon.
LEMMA ServiceInit == Service!Init => ServiceInv
<1> SUFFICES ASSUME Service!Init PROVE ServiceInv
  OBVIOUS
<1> USE ServiceAssumption DEF Service!ServiceAssumption, Service!Init
<1>1. Service!TypeOK
  <2>1. proc \in [Pids -> Processes]
    BY DEF Processes, Places
  <2>2. command \in [op : {"idle", "write", "stop", "wait"}, pid : Pids \cup {0}, again : BOOLEAN]
    BY DEF Service!Idle
  <2>3. pidOf \in [Service!Inodes -> Pids \cup {0}] /\ lock \in [Service!Inodes -> Pids \cup {0}]
    OBVIOUS
  <2>4. path \in 0..InodeMax /\ made \in 0..InodeMax /\ crashes \in 0..Crashes
    OBVIOUS
  <2>5. systemd \in Managers /\ sock \in Pids \cup {0} /\ sup \in Pids \cup {0} /\ unit \in BOOLEAN
    OBVIOUS
  <2> QED
    BY <2>1, <2>2, <2>3, <2>4, <2>5 DEF Service!TypeOK, Processes, Places
<1>2. \A p \in Pids : proc[p].pc = "free"
  OBVIOUS
<1>3. RolesSound /\ NamesSound /\ CommandSound
  BY <1>2 DEF RolesSound, NamesSound, CommandSound, Holding, Arriving, Service!Ending, Service!Live
<1> QED
  BY <1>1, <1>3 DEF ServiceInv

\* What the types say, a fact at a time.
LEMMA ServiceFacts ==
    ASSUME Service!TypeOK
    PROVE  /\ proc \in [Pids -> Processes]
           /\ \A p \in Pids : proc[p] \in Processes
           /\ \A p \in Pids : proc[p].pc \in Places /\ proc[p].ino \in 0..InodeMax
           /\ \A p \in Pids : proc[p].link \in BOOLEAN /\ proc[p].caught \in BOOLEAN
           /\ \A p \in Pids : proc[p].child \in Pids \cup {0}
           /\ path \in 0..InodeMax /\ made \in 0..InodeMax /\ InodeMax \in Nat
           /\ lock \in [1..InodeMax -> Pids \cup {0}] /\ pidOf \in [1..InodeMax -> Pids \cup {0}]
           /\ 0 \notin Pids
<1>1. proc \in [Pids -> Processes]
  BY DEF Service!TypeOK, Processes, Places
<1>2. \A p \in Pids : proc[p] \in Processes
  BY <1>1
<1>3. \A p \in Pids : proc[p].pc \in Places /\ proc[p].ino \in 0..InodeMax
  BY <1>2 DEF Processes
<1>4. \A p \in Pids : proc[p].link \in BOOLEAN /\ proc[p].caught \in BOOLEAN
  BY <1>2 DEF Processes
<1>5. \A p \in Pids : proc[p].child \in Pids \cup {0}
  BY <1>2 DEF Processes
<1>6. path \in 0..InodeMax /\ made \in 0..InodeMax /\ InodeMax \in Nat /\ 0 \notin Pids
  BY ServiceAssumption DEF Service!ServiceAssumption, Service!TypeOK
<1>7. lock \in [1..InodeMax -> Pids \cup {0}] /\ pidOf \in [1..InodeMax -> Pids \cup {0}]
  BY DEF Service!TypeOK, Service!Inodes
<1> QED
  BY <1>1, <1>2, <1>3, <1>4, <1>5, <1>6, <1>7

\* A step of one process.
LEMMA ProcessMoves ==
    ASSUME Service!TypeOK, NEW p \in Pids, NEW c \in Places,
           proc' = [proc EXCEPT ![p].pc = c]
    PROVE  /\ proc' \in [Pids -> Processes]
           /\ \A q \in Pids : proc'[q].pc = IF q = p THEN c ELSE proc[q].pc
           /\ \A q \in Pids : proc'[q].ino = proc[q].ino
<1>1. proc \in [Pids -> Processes] /\ proc[p] \in Processes
  BY ServiceFacts
<1>2. [proc[p] EXCEPT !.pc = c] \in Processes
  BY <1>1 DEF Processes
<1>3. proc' = [proc EXCEPT ![p] = [proc[p] EXCEPT !.pc = c]]
  OBVIOUS
<1>4. proc' \in [Pids -> Processes]
  BY <1>1, <1>2, <1>3
<1>5. [proc[p] EXCEPT !.pc = c].pc = c /\ [proc[p] EXCEPT !.pc = c].ino = proc[p].ino
  BY <1>1 DEF Processes
<1> QED
  BY <1>1, <1>3, <1>4, <1>5

\* The process ends, and what it had locked is free.
LEMMA LocksFreed ==
    ASSUME Service!TypeOK, NEW p \in Pids
    PROVE  /\ Service!Freed(p) \in [1..InodeMax -> Pids \cup {0}]
           /\ \A i \in 1..InodeMax : lock[i] # p => Service!Freed(p)[i] = lock[i]
BY ServiceFacts DEF Service!Freed, Service!Inodes

\* A process that ends, whether or not it was told to, leaves the others as they
\* were.
LEMMA ProcessEnds ==
    ASSUME ServiceInv, NEW p \in Pids, proc' = [proc EXCEPT ![p].pc = "gone"],
           lock' = lock \/ lock' = Service!Freed(p), crashes' \in 0..Crashes,
           UNCHANGED <<systemd, path, made, pidOf, sock, unit, sup, command>>
    PROVE  ServiceInv'
<1>0. Service!TypeOK /\ "gone" \in Places
  BY DEF ServiceInv, Places
<1>1. /\ proc' \in [Pids -> Processes]
      /\ \A q \in Pids : proc'[q].pc = IF q = p THEN "gone" ELSE proc[q].pc
      /\ \A q \in Pids : proc'[q].ino = proc[q].ino
  BY <1>0, ProcessMoves
<1>2. /\ lock' \in [1..InodeMax -> Pids \cup {0}]
      /\ \A i \in 1..InodeMax : lock[i] # p => lock'[i] = lock[i]
  BY <1>0, LocksFreed, ServiceFacts
<1>3. Service!TypeOK'
  BY <1>0, <1>1, <1>2 DEF Service!TypeOK, Service!Inodes, Processes, Places
<1>4. RolesSound'
  BY <1>1 DEF ServiceInv, RolesSound, Holding, Arriving, Service!Ending
<1>5. NamesSound'
  BY <1>1, <1>2 DEF ServiceInv, NamesSound, Holding, Service!Ending, Service!Inodes
<1>6. CommandSound'
  BY <1>1 DEF ServiceInv, CommandSound, Service!Live
<1> QED
  BY <1>3, <1>4, <1>5, <1>6 DEF ServiceInv

\* A step that moves no process, no file and no lock, and gives no command.
LEMMA ServiceFrame ==
    ASSUME ServiceInv, Service!TypeOK', UNCHANGED <<path, pidOf, lock, sock, command>>,
           \A q \in Pids : proc'[q].pc = proc[q].pc /\ proc'[q].ino = proc[q].ino
    PROVE  ServiceInv'
<1>1. RolesSound'
  BY DEF ServiceInv, RolesSound
<1>2. NamesSound'
  BY DEF ServiceInv, NamesSound
<1>3. CommandSound'
  BY DEF ServiceInv, CommandSound, Service!Live
<1> QED
  BY <1>1, <1>2, <1>3 DEF ServiceInv

\* Nothing is starting or ending: what is alive serves, and it is one daemon.
LEMMA QuietMeans ==
    ASSUME ServiceInv, Service!Quiet, NEW s \in Pids, Service!Live(s)
    PROVE  /\ proc[s].pc = "serving"
           /\ \A q \in Pids : Service!Live(q) => q = s
BY DEF ServiceInv, RolesSound, Holding, Service!Quiet, Service!Live

\* A command that signals the daemon that serves: it dies at once or shuts down,
\* and nothing else is alive.
LEMMA SignalStops ==
    ASSUME ServiceInv, Service!Quiet, Service!Listening, Disorder = {},
           NEW s \in Pids, Service!Live(s), Service!Signalled(s),
           UNCHANGED <<path, pidOf, sock>>
    PROVE  /\ proc' \in [Pids -> Processes]
           /\ lock' \in [1..InodeMax -> Pids \cup {0}]
           /\ RolesSound' /\ NamesSound'
           /\ \A q \in Pids : Service!Live(q)' => q = s /\ proc'[q].pc \in Stopping
<1>0. /\ Service!TypeOK /\ {"gone", "closing"} \subseteq Places
      /\ proc[s].pc = "serving" /\ \A q \in Pids : Service!Live(q) => q = s
  BY QuietMeans DEF ServiceInv, Places, Service!Ending
<1>1. \/ proc' = [proc EXCEPT ![s].pc = "gone"] /\ lock' = Service!Freed(s)
      \/ proc' = [proc EXCEPT ![s].pc = "closing"] /\ lock' = lock
  <2>1. proc[s].caught => proc[s].link
    BY <1>0 DEF Service!Listening, Service!Is
  <2>2. proc[s].caught \in BOOLEAN /\ proc[s].link \in BOOLEAN
    BY <1>0, ServiceFacts
  <2>3. CASE Service!Dies(s)
    BY <2>3 DEF Service!Signalled
  <2>4. CASE ~Service!Dies(s)
    <3>1. proc[s].link /\ Service!Is(s, "serving")
      BY <2>4, <2>1, <2>2, <1>0 DEF Service!Dies, Service!Is
    <3> QED
      BY <3>1, <2>4 DEF Service!Signalled
  <2> QED
    BY <2>3, <2>4
<1>2. PICK c \in {"gone", "closing"} : proc' = [proc EXCEPT ![s].pc = c]
  BY <1>1
<1>3. /\ proc' \in [Pids -> Processes]
      /\ \A q \in Pids : proc'[q].pc = IF q = s THEN c ELSE proc[q].pc
      /\ \A q \in Pids : proc'[q].ino = proc[q].ino
  BY <1>0, <1>2, ProcessMoves
<1>4. /\ lock' \in [1..InodeMax -> Pids \cup {0}]
      /\ \A i \in 1..InodeMax : lock[i] # s => lock'[i] = lock[i]
  BY <1>0, <1>1, LocksFreed, ServiceFacts
<1>5. c = "closing" => lock' = lock
  <2>1. CASE proc' = [proc EXCEPT ![s].pc = "gone"]
    <3>1. "gone" \in Places
      BY <1>0
    <3>2. proc'[s].pc = "gone"
      BY <2>1, <1>0, <3>1, ProcessMoves, ZenonT(60)
    <3> QED
      BY <3>2, <1>3
  <2> QED
    BY <2>1, <1>1
<1>6. \A q \in Pids : q # s => proc'[q].pc \in {"free", "gone"}
  BY <1>0, <1>3 DEF Service!Live
<1>7. RolesSound'
  BY <1>3, <1>6 DEF RolesSound, Holding, Arriving, Service!Ending
<1>8. NamesSound'
  <2>1. proc[s].ino \in Service!Inodes /\ lock[proc[s].ino] = s /\ proc[s].ino = path
    BY <1>0 DEF ServiceInv, NamesSound, Holding
  <2> QED
    BY <2>1, <1>3, <1>5, <1>6 DEF NamesSound, Holding, Service!Ending
<1>9. \A q \in Pids : Service!Live(q)' => q = s /\ proc'[q].pc \in Stopping
  BY <1>3, <1>6 DEF Service!Live, Stopping
<1> QED
  BY <1>3, <1>4, <1>7, <1>8, <1>9

\* Every step of a daemon, of the service manager and of the commands keeps
\* ServiceInv, when commands are not given out of turn.
LEMMA ServiceStep ==
    ASSUME Disorder = {}
    PROVE  ServiceInv /\ [Service!Next]_(Service!vars) => ServiceInv'
<1> SUFFICES ASSUME ServiceInv, [Service!Next]_(Service!vars) PROVE ServiceInv'
  OBVIOUS
<1>T. Service!TypeOK /\ ~Service!Overlap
  BY DEF ServiceInv, Service!Overlap
<1>1. ASSUME NEW p \in Pids, Service!RunByHand(p) PROVE ServiceInv'
  <2>1. proc' = [proc EXCEPT ![p].pc = "boot"] /\ "boot" \in Places
    BY <1>1 DEF Service!RunByHand, Places, Service!Starting, Service!Ending
  <2>2. /\ proc' \in [Pids -> Processes]
        /\ \A q \in Pids : proc'[q].pc = IF q = p THEN "boot" ELSE proc[q].pc
        /\ \A q \in Pids : proc'[q].ino = proc[q].ino
    BY <2>1, <1>T, ProcessMoves
  <2>3. UNCHANGED <<systemd, path, made, pidOf, lock, sock, unit, sup, command, crashes>>
        /\ proc[p].pc = "free" /\ Service!Quiet /\ command = Service!Idle
    BY <1>1, <1>T, ServiceFacts DEF Service!RunByHand, Service!Is, Service!Free
  <2>4. Service!TypeOK'
    BY <1>T, <2>2, <2>3 DEF Service!TypeOK, Service!Inodes, Processes, Places
  <2>5. RolesSound'
    BY <2>2, <2>3 DEF ServiceInv, RolesSound, Holding, Arriving, Service!Ending, Service!Quiet
  <2>6. NamesSound'
    BY <2>2, <2>3 DEF ServiceInv, NamesSound, Holding, Service!Ending, Service!Inodes
  <2>7. CommandSound'
    BY <2>2, <2>3 DEF ServiceInv, CommandSound, Service!Live, Stopping, Service!Ending, Service!Idle
  <2> QED
    BY <2>4, <2>5, <2>6, <2>7 DEF ServiceInv
<1>2. ASSUME NEW p \in Pids, Service!Supervise(p) PROVE ServiceInv'
  <2>1. proc' = [proc EXCEPT ![p].pc = "boot"] /\ "boot" \in Places
    BY <1>2 DEF Service!Supervise, Places, Service!Starting, Service!Ending
  <2>2. /\ proc' \in [Pids -> Processes]
        /\ \A q \in Pids : proc'[q].pc = IF q = p THEN "boot" ELSE proc[q].pc
        /\ \A q \in Pids : proc'[q].ino = proc[q].ino
    BY <2>1, <1>T, ProcessMoves
  <2>3. UNCHANGED <<systemd, path, made, pidOf, lock, sock, unit, command, crashes>> /\ sup' = p
        /\ proc[p].pc = "free" /\ Service!Quiet /\ command = Service!Idle
    BY <1>2, <1>T, ServiceFacts DEF Service!Supervise, Service!Is, Service!Free
  <2>4. Service!TypeOK'
    BY <1>T, <2>2, <2>3 DEF Service!TypeOK, Service!Inodes, Processes, Places
  <2>5. RolesSound'
    BY <2>2, <2>3 DEF ServiceInv, RolesSound, Holding, Arriving, Service!Ending, Service!Quiet
  <2>6. NamesSound'
    BY <2>2, <2>3 DEF ServiceInv, NamesSound, Holding, Service!Ending, Service!Inodes
  <2>7. CommandSound'
    BY <2>2, <2>3 DEF ServiceInv, CommandSound, Service!Live, Stopping, Service!Ending, Service!Idle
  <2> QED
    BY <2>4, <2>5, <2>6, <2>7 DEF ServiceInv
<1>3. ASSUME NEW p \in Pids, Service!BootFails(p) PROVE ServiceInv'
  <2>1. /\ proc' = [proc EXCEPT ![p].pc = "gone"] /\ (lock' = lock \/ lock' = Service!Freed(p))
        /\ UNCHANGED <<systemd, path, made, pidOf, sock, unit, sup, command>>
    BY <1>3 DEF Service!BootFails
  <2>2. crashes' \in 0..Crashes
    BY <1>3, <1>T, ServiceAssumption DEF Service!BootFails, Service!TypeOK, Service!ServiceAssumption
  <2> QED
    BY <2>1, <2>2, ProcessEnds
<1>4. ASSUME NEW p \in Pids, Service!OpenPid(p) PROVE ServiceInv'
  <2>1. /\ proc[p].pc = "boot" /\ path' # 0 /\ (path # 0 => path' = path)
        /\ path' \in 0..InodeMax /\ made' \in 0..InodeMax
        /\ UNCHANGED <<systemd, pidOf, lock, sock, unit, sup, command, crashes>>
    BY <1>4, <1>T, ServiceFacts DEF Service!OpenPid, Service!Is
  <2>2. /\ proc' \in [Pids -> Processes]
        /\ \A q \in Pids : proc'[q].pc = IF q = p THEN "opened" ELSE proc[q].pc
        /\ \A q \in Pids : proc'[q].ino = IF q = p THEN path' ELSE proc[q].ino
    <3>1. proc' = [proc EXCEPT ![p] = [proc[p] EXCEPT !.pc = "opened", !.ino = path']]
      BY <1>4, <1>T, ServiceFacts DEF Service!OpenPid, Processes
    <3>2. proc \in [Pids -> Processes] /\ proc[p] \in Processes
      BY <1>T, ServiceFacts
    <3>3. [proc[p] EXCEPT !.pc = "opened", !.ino = path'] \in Processes
      BY <3>2, <2>1 DEF Processes, Places, Service!Starting
    <3>4. /\ [proc[p] EXCEPT !.pc = "opened", !.ino = path'].pc = "opened"
          /\ [proc[p] EXCEPT !.pc = "opened", !.ino = path'].ino = path'
      BY <3>2 DEF Processes
    <3> QED
      BY <3>1, <3>2, <3>3, <3>4
  <2>3. \A q \in Pids : proc[q].pc \in (Holding \ {"unlinked"}) \cup {"opened"} => path # 0
    BY DEF ServiceInv, NamesSound, Service!Inodes, Holding
  <2>4. Service!TypeOK'
    BY <1>T, <2>1, <2>2 DEF Service!TypeOK, Service!Inodes, Processes, Places
  <2>5. RolesSound'
    BY <2>1, <2>2 DEF ServiceInv, RolesSound, Holding, Arriving, Service!Ending
  <2>6. NamesSound'
    BY <2>1, <2>2, <2>3 DEF ServiceInv, NamesSound, Holding, Service!Ending, Service!Inodes
  <2>7. CommandSound'
    BY <2>1, <2>2 DEF ServiceInv, CommandSound, Service!Live, Stopping, Service!Ending
  <2> QED
    BY <2>4, <2>5, <2>6, <2>7 DEF ServiceInv
<1>5. ASSUME NEW p \in Pids, Service!LockPid(p) PROVE ServiceInv'
  <2>1. proc' = [proc EXCEPT ![p].pc = "locked"] /\ "locked" \in Places
    BY <1>5 DEF Service!LockPid, Places, Service!Starting
  <2>2. /\ proc' \in [Pids -> Processes]
        /\ \A q \in Pids : proc'[q].pc = IF q = p THEN "locked" ELSE proc[q].pc
        /\ \A q \in Pids : proc'[q].ino = proc[q].ino
    BY <2>1, <1>T, ProcessMoves
  <2>c. proc[p].pc = "opened" /\ proc[p].ino = path /\ path \in 1..InodeMax
    <3>1. proc[p].pc = "opened"
      BY <1>5 DEF Service!LockPid, Service!Is
    <3>2. proc[p].ino = path /\ path # 0
      BY <3>1 DEF ServiceInv, NamesSound
    <3>3. path \in 0..InodeMax /\ InodeMax \in Nat
      BY <1>T, ServiceFacts
    <3> QED
      BY <3>1, <3>2, <3>3
  <2>3. /\ UNCHANGED <<systemd, path, made, sock, unit, sup, command, crashes>>
        /\ proc[p].pc = "opened" /\ proc[p].ino = path /\ path \in 1..InodeMax
        /\ lock[path] = 0
        /\ lock' = [lock EXCEPT ![path] = p] /\ pidOf' = [pidOf EXCEPT ![path] = p]
    BY <1>5, <2>c DEF Service!LockPid
  <2>a. /\ lock' \in [1..InodeMax -> Pids \cup {0}] /\ pidOf' \in [1..InodeMax -> Pids \cup {0}]
        /\ lock'[path] = p /\ pidOf'[path] = p
    BY <2>3, <1>T, ServiceFacts
  <2>b. \A q \in Pids : proc[q].pc \notin Holding
    <3> SUFFICES ASSUME NEW q \in Pids, proc[q].pc \in Holding PROVE FALSE
      OBVIOUS
    <3>1. proc[q].pc \in {"serving", "leaving", "exiting"}
      BY <2>3 DEF ServiceInv, RolesSound, Arriving
    <3>2. lock[path] = q
      BY <3>1 DEF ServiceInv, NamesSound, Holding
    <3> QED
      BY <3>2, <2>3, <1>T, ServiceFacts
  <2>4. Service!TypeOK'
    BY <1>T, <2>2, <2>3, <2>a DEF Service!TypeOK, Service!Inodes, Processes, Places
  <2>5. RolesSound'
    BY <2>2, <2>3, <2>b DEF ServiceInv, RolesSound, Holding, Arriving, Service!Ending
  <2>6. NamesSound'
    BY <2>2, <2>3, <2>a, <2>b DEF ServiceInv, NamesSound, Holding, Service!Ending, Service!Inodes, Arriving, RolesSound
  <2>7. CommandSound'
    BY <2>2, <2>3 DEF ServiceInv, CommandSound, Service!Live, Stopping, Service!Ending
  <2> QED
    BY <2>4, <2>5, <2>6, <2>7 DEF ServiceInv
<1>6. ASSUME NEW p \in Pids, Service!LockRefused(p) PROVE ServiceInv'
  <2>1. /\ proc' = [proc EXCEPT ![p].pc = "gone"] /\ (lock' = lock \/ lock' = Service!Freed(p))
        /\ UNCHANGED <<systemd, path, made, pidOf, sock, unit, sup, command>>
    BY <1>6 DEF Service!LockRefused
  <2>2. crashes' \in 0..Crashes
    BY <1>6, <1>T, ServiceAssumption DEF Service!LockRefused, Service!TypeOK, Service!ServiceAssumption
  <2> QED
    BY <2>1, <2>2, ProcessEnds
<1>7. ASSUME NEW p \in Pids, Service!Bind(p) PROVE ServiceInv'
  <2>1. proc' = [proc EXCEPT ![p].pc = "serving"] /\ "serving" \in Places
    BY <1>7 DEF Service!Bind, Places, Service!Starting, Service!Ending
  <2>2. /\ proc' \in [Pids -> Processes]
        /\ \A q \in Pids : proc'[q].pc = IF q = p THEN "serving" ELSE proc[q].pc
        /\ \A q \in Pids : proc'[q].ino = proc[q].ino
    BY <2>1, <1>T, ProcessMoves
  <2>3. UNCHANGED <<systemd, path, made, pidOf, lock, unit, sup, command, crashes>> /\ sock' = p
        /\ proc[p].pc = "locked"
    BY <1>7, <1>T, ServiceFacts DEF Service!Bind, Service!Is, Service!Free
  <2>4. Service!TypeOK'
    BY <1>T, <2>2, <2>3 DEF Service!TypeOK, Service!Inodes, Processes, Places
  <2>5. RolesSound'
    BY <2>2, <2>3 DEF ServiceInv, RolesSound, Holding, Arriving, Service!Ending
  <2>6. NamesSound'
    BY <2>2, <2>3 DEF ServiceInv, NamesSound, Holding, Service!Ending, Service!Inodes, RolesSound
  <2>7. CommandSound'
    BY <2>2, <2>3 DEF ServiceInv, CommandSound, Service!Live, Stopping, Service!Ending
  <2> QED
    BY <2>4, <2>5, <2>6, <2>7 DEF ServiceInv
<1>8. ASSUME NEW p \in Pids, Service!Connect(p) PROVE ServiceInv'
  <2>1. /\ proc' = [proc EXCEPT ![p] = [proc[p] EXCEPT !.link = TRUE, !.caught = TRUE]]
        /\ UNCHANGED <<systemd, path, made, pidOf, lock, sock, unit, sup, command, crashes>>
    BY <1>8, <1>T, ServiceFacts DEF Service!Connect, Processes
  <2>2. proc \in [Pids -> Processes] /\ proc[p] \in Processes
    BY <1>T, ServiceFacts
  <2>3. /\ [proc[p] EXCEPT !.link = TRUE, !.caught = TRUE] \in Processes
        /\ [proc[p] EXCEPT !.link = TRUE, !.caught = TRUE].pc = proc[p].pc
        /\ [proc[p] EXCEPT !.link = TRUE, !.caught = TRUE].ino = proc[p].ino
    BY <2>2 DEF Processes
  <2>4. proc' \in [Pids -> Processes]
    BY <2>1, <2>2, <2>3
  <2>5. \A q \in Pids : proc'[q].pc = proc[q].pc /\ proc'[q].ino = proc[q].ino
    BY <2>1, <2>2, <2>3
  <2>6. Service!TypeOK'
    BY <1>T, <2>1, <2>4 DEF Service!TypeOK, Service!Inodes, Processes, Places
  <2> QED
    BY <2>1, <2>5, <2>6, ServiceFrame
<1>9. ASSUME NEW p \in Pids, Service!Disconnect(p) PROVE ServiceInv'
  <2>1. /\ proc' = [proc EXCEPT ![p] = [proc[p] EXCEPT !.link = FALSE]]
        /\ UNCHANGED <<systemd, path, made, pidOf, lock, sock, unit, sup, command, crashes>>
    BY <1>9, <1>T, ServiceFacts DEF Service!Disconnect, Processes
  <2>2. proc \in [Pids -> Processes] /\ proc[p] \in Processes
    BY <1>T, ServiceFacts
  <2>3. /\ [proc[p] EXCEPT !.link = FALSE] \in Processes
        /\ [proc[p] EXCEPT !.link = FALSE].pc = proc[p].pc
        /\ [proc[p] EXCEPT !.link = FALSE].ino = proc[p].ino
    BY <2>2 DEF Processes
  <2>4. proc' \in [Pids -> Processes]
    BY <2>1, <2>2, <2>3
  <2>5. \A q \in Pids : proc'[q].pc = proc[q].pc /\ proc'[q].ino = proc[q].ino
    BY <2>1, <2>2, <2>3
  <2>6. Service!TypeOK'
    BY <1>T, <2>1, <2>4 DEF Service!TypeOK, Service!Inodes, Processes, Places
  <2> QED
    BY <2>1, <2>5, <2>6, ServiceFrame
<1>10. ASSUME NEW p \in Pids, Service!CloseAll(p) PROVE ServiceInv'
  <2>1. proc' = [proc EXCEPT ![p].pc = "dropping"] /\ "dropping" \in Places
    BY <1>10 DEF Service!CloseAll, Places, Service!Starting, Service!Ending
  <2>2. /\ proc' \in [Pids -> Processes]
        /\ \A q \in Pids : proc'[q].pc = IF q = p THEN "dropping" ELSE proc[q].pc
        /\ \A q \in Pids : proc'[q].ino = proc[q].ino
    BY <2>1, <1>T, ProcessMoves
  <2>3. UNCHANGED <<systemd, path, made, pidOf, lock, unit, sup, command, crashes>> /\ sock' = 0
        /\ proc[p].pc = "closing"
    BY <1>10, <1>T, ServiceFacts DEF Service!CloseAll, Service!Is, Service!Free
  <2>4. Service!TypeOK'
    BY <1>T, <2>2, <2>3 DEF Service!TypeOK, Service!Inodes, Processes, Places
  <2>5. RolesSound'
    BY <2>2, <2>3 DEF ServiceInv, RolesSound, Holding, Arriving, Service!Ending
  <2>6. NamesSound'
    BY <2>2, <2>3 DEF ServiceInv, NamesSound, Holding, Service!Ending, Service!Inodes, RolesSound
  <2>7. CommandSound'
    BY <2>2, <2>3 DEF ServiceInv, CommandSound, Service!Live, Stopping, Service!Ending
  <2> QED
    BY <2>4, <2>5, <2>6, <2>7 DEF ServiceInv
<1>11. ASSUME NEW p \in Pids, Service!DropUnlinks(p) PROVE ServiceInv'
  <2>1. proc' = [proc EXCEPT ![p].pc = "unlinked"] /\ "unlinked" \in Places
    BY <1>11 DEF Service!DropUnlinks, Places, Service!Starting, Service!Ending
  <2>2. /\ proc' \in [Pids -> Processes]
        /\ \A q \in Pids : proc'[q].pc = IF q = p THEN "unlinked" ELSE proc[q].pc
        /\ \A q \in Pids : proc'[q].ino = proc[q].ino
    BY <2>1, <1>T, ProcessMoves
  <2>3. UNCHANGED <<systemd, made, pidOf, lock, sock, unit, sup, command, crashes>> /\ path' = 0 /\ path' \in 0..InodeMax
        /\ proc[p].pc = "dropping"
    BY <1>11, <1>T, ServiceFacts DEF Service!DropUnlinks, Service!Is, Service!Free
  <2>4. Service!TypeOK'
    BY <1>T, <2>2, <2>3 DEF Service!TypeOK, Service!Inodes, Processes, Places
  <2>5. RolesSound'
    BY <2>2, <2>3 DEF ServiceInv, RolesSound, Holding, Arriving, Service!Ending
  <2>6. NamesSound'
    BY <2>2, <2>3 DEF ServiceInv, NamesSound, Holding, Service!Ending, Service!Inodes, RolesSound, Arriving
  <2>7. CommandSound'
    BY <2>2, <2>3 DEF ServiceInv, CommandSound, Service!Live, Stopping, Service!Ending
  <2> QED
    BY <2>4, <2>5, <2>6, <2>7 DEF ServiceInv
<1>12. ASSUME NEW p \in Pids, Service!DropCloses(p) PROVE ServiceInv'
  <2>1. /\ proc' = [proc EXCEPT ![p].pc = "gone"] /\ (lock' = lock \/ lock' = Service!Freed(p))
        /\ UNCHANGED <<systemd, path, made, pidOf, sock, unit, sup, command>>
    BY <1>12 DEF Service!DropCloses
  <2>2. crashes' \in 0..Crashes
    BY <1>12, <1>T, ServiceAssumption DEF Service!DropCloses, Service!TypeOK, Service!ServiceAssumption
  <2> QED
    BY <2>1, <2>2, ProcessEnds
<1>13. ASSUME NEW p \in Pids, Service!Crash(p) PROVE ServiceInv'
  <2>1. /\ proc' = [proc EXCEPT ![p].pc = "gone"] /\ (lock' = lock \/ lock' = Service!Freed(p))
        /\ UNCHANGED <<systemd, path, made, pidOf, sock, unit, sup, command>>
    BY <1>13 DEF Service!Crash
  <2>2. crashes' \in 0..Crashes
    BY <1>13, <1>T, ServiceAssumption DEF Service!Crash, Service!TypeOK, Service!ServiceAssumption
  <2> QED
    BY <2>1, <2>2, ProcessEnds
<1>14. ASSUME NEW p \in Pids, Service!PhoneRestartUnit(p) PROVE ServiceInv'
  <2>0. /\ Service!Quiet /\ Service!Listening /\ Service!Live(p) /\ command = Service!Idle
        /\ UNCHANGED <<systemd, path, made, pidOf, sock, unit, sup, command, crashes>>
    BY <1>14, <1>T DEF Service!PhoneRestartUnit, Service!Command, Service!Is, Service!Live
  <2>1. CASE p = sup
    <3>1. Service!Signalled(p)
      BY <1>14, <2>1 DEF Service!PhoneRestartUnit
    <3>2. /\ proc' \in [Pids -> Processes] /\ lock' \in [1..InodeMax -> Pids \cup {0}]
          /\ RolesSound' /\ NamesSound'
      BY <2>0, <3>1, SignalStops
    <3>3. Service!TypeOK'
      BY <1>T, <2>0, <3>2 DEF Service!TypeOK, Service!Inodes, Processes, Places
    <3>4. CommandSound'
      BY <2>0 DEF CommandSound, Service!Idle
    <3> QED
      BY <3>2, <3>3, <3>4 DEF ServiceInv
  <2>2. CASE p # sup
    <3>1. proc' = [proc EXCEPT ![p].pc = "exiting"] /\ "exiting" \in Places /\ lock' = lock
          /\ proc[p].pc = "serving"
      BY <1>14, <2>2 DEF Service!PhoneRestartUnit, Places, Service!Ending, Service!Is
    <3>2. /\ proc' \in [Pids -> Processes]
          /\ \A q \in Pids : proc'[q].pc = IF q = p THEN "exiting" ELSE proc[q].pc
          /\ \A q \in Pids : proc'[q].ino = proc[q].ino
      BY <3>1, <1>T, ProcessMoves
    <3>3. Service!TypeOK'
      BY <1>T, <2>0, <3>1, <3>2 DEF Service!TypeOK, Service!Inodes, Processes, Places
    <3>4. RolesSound'
      BY <3>1, <3>2 DEF ServiceInv, RolesSound, Holding, Arriving, Service!Ending
    <3>5. NamesSound'
      BY <2>0, <3>1, <3>2 DEF ServiceInv, NamesSound, Holding, Service!Ending, Service!Inodes
    <3>6. CommandSound'
      BY <2>0 DEF CommandSound, Service!Idle
    <3> QED
      BY <3>3, <3>4, <3>5, <3>6 DEF ServiceInv
  <2> QED
    BY <2>1, <2>2
<1>15. ASSUME NEW p \in Pids, Service!PhoneRestartWrites(p) PROVE ServiceInv'
  <2>1. proc' = [proc EXCEPT ![p].pc = "exiting"] /\ "exiting" \in Places
    BY <1>15 DEF Service!PhoneRestartWrites, Places, Service!Ending
  <2>2. /\ proc' \in [Pids -> Processes]
        /\ \A q \in Pids : proc'[q].pc = IF q = p THEN "exiting" ELSE proc[q].pc
        /\ \A q \in Pids : proc'[q].ino = proc[q].ino
    BY <2>1, <1>T, ProcessMoves
  <2>a. proc[p].pc = "leaving" /\ path # 0
    BY <1>15 DEF Service!PhoneRestartWrites, Service!Is, ServiceInv, NamesSound, Holding, Service!Ending, Service!Inodes
  <2>3. /\ UNCHANGED <<systemd, path, made, lock, sock, unit, sup, command, crashes>>
        /\ pidOf' = [pidOf EXCEPT ![path] = proc[p].child]
    BY <1>15, <2>a DEF Service!PhoneRestartWrites, Service!WritesPid
  <2>b. pidOf' \in [1..InodeMax -> Pids \cup {0}]
    BY <2>3, <1>T, ServiceFacts
  <2>4. Service!TypeOK'
    BY <1>T, <2>2, <2>3, <2>b DEF Service!TypeOK, Service!Inodes, Processes, Places
  <2>5. RolesSound'
    BY <2>2, <2>a DEF ServiceInv, RolesSound, Holding, Arriving, Service!Ending
  <2>6. NamesSound'
    BY <2>2, <2>3, <2>a DEF ServiceInv, NamesSound, Holding, Service!Ending, Service!Inodes, RolesSound
  <2>7. CommandSound'
    BY <2>2, <2>3, <2>a DEF ServiceInv, CommandSound, Service!Live, Stopping, Service!Ending
  <2> QED
    BY <2>4, <2>5, <2>6, <2>7 DEF ServiceInv
<1>16. ASSUME NEW p \in Pids, Service!PhoneRestartExits(p) PROVE ServiceInv'
  <2>1. /\ proc' = [proc EXCEPT ![p].pc = "gone"] /\ (lock' = lock \/ lock' = Service!Freed(p))
        /\ UNCHANGED <<systemd, path, made, pidOf, sock, unit, sup, command>>
    BY <1>16 DEF Service!PhoneRestartExits
  <2>2. crashes' \in 0..Crashes
    BY <1>16, <1>T, ServiceAssumption DEF Service!PhoneRestartExits, Service!TypeOK, Service!ServiceAssumption
  <2> QED
    BY <2>1, <2>2, ProcessEnds
<1>17. ASSUME NEW p \in Pids, NEW q \in Pids, Service!PhoneRestartSpawns(p, q) PROVE ServiceInv'
  <2>1. /\ proc[p].pc = "serving" /\ proc[q].pc = "free" /\ p # q
        /\ Service!Quiet /\ command = Service!Idle
        /\ UNCHANGED <<systemd, path, made, pidOf, lock, sock, unit, sup, command, crashes>>
    BY <1>17, <1>T DEF Service!PhoneRestartSpawns, Service!Free, Service!Is
  <2>2. /\ proc' \in [Pids -> Processes]
        /\ \A r \in Pids : proc'[r].pc = IF r = p THEN "leaving" ELSE IF r = q THEN "boot" ELSE proc[r].pc
        /\ \A r \in Pids : proc'[r].ino = proc[r].ino
    <3>1. proc \in [Pids -> Processes] /\ proc[p] \in Processes /\ proc[q] \in Processes
      BY <1>T, ServiceFacts
    <3> DEFINE u == [proc[p] EXCEPT !.pc = "leaving", !.child = q]
               v == [proc[q] EXCEPT !.pc = "boot"]
    <3>2. proc' = [proc EXCEPT ![p] = u, ![q] = v]
      BY <1>17, <2>1, <3>1 DEF Service!PhoneRestartSpawns, Processes
    <3>3. u \in Processes /\ v \in Processes
      BY <3>1 DEF Processes, Places, Service!Starting, Service!Ending
    <3>4. u.pc = "leaving" /\ v.pc = "boot" /\ u.ino = proc[p].ino /\ v.ino = proc[q].ino
      BY <3>1 DEF Processes
    <3> HIDE DEF u, v
    <3> QED
      BY <2>1, <3>1, <3>2, <3>3, <3>4
  <2>4. Service!TypeOK'
    BY <1>T, <2>1, <2>2 DEF Service!TypeOK, Service!Inodes, Processes, Places
  <2>5. RolesSound'
    BY <2>1, <2>2 DEF ServiceInv, RolesSound, Holding, Arriving, Service!Ending, Service!Quiet
  <2>6. NamesSound'
    BY <2>1, <2>2 DEF ServiceInv, NamesSound, Holding, Service!Ending, Service!Inodes
  <2>7. CommandSound'
    BY <2>1 DEF CommandSound, Service!Idle
  <2> QED
    BY <2>4, <2>5, <2>6, <2>7 DEF ServiceInv
<1>18. CASE Service!StartInstalls
  <2>1. /\ command' = Service!Idle /\ unit' = TRUE
        /\ UNCHANGED <<systemd, proc, path, made, pidOf, lock, sock, sup, crashes>>
    BY <1>18 DEF Service!StartInstalls
  <2>2. Service!TypeOK'
    BY <1>T, <2>1 DEF Service!TypeOK, Service!Inodes, Processes, Places, Service!Idle
  <2>3. RolesSound' /\ NamesSound'
    BY <2>1 DEF ServiceInv, RolesSound, NamesSound
  <2>4. CommandSound'
    BY <2>1 DEF CommandSound, Service!Idle
  <2> QED
    BY <2>2, <2>3, <2>4 DEF ServiceInv
<1>19. ASSUME NEW p \in Pids, Service!StartSpawns(p) PROVE ServiceInv'
  <2>1. proc' = [proc EXCEPT ![p].pc = "boot"] /\ "boot" \in Places
    BY <1>19 DEF Service!StartSpawns, Places, Service!Starting
  <2>2. /\ proc' \in [Pids -> Processes]
        /\ \A q \in Pids : proc'[q].pc = IF q = p THEN "boot" ELSE proc[q].pc
        /\ \A q \in Pids : proc'[q].ino = proc[q].ino
    BY <2>1, <1>T, ProcessMoves
  <2>3. /\ command' = [op |-> "write", pid |-> p, again |-> FALSE]
        /\ UNCHANGED <<systemd, path, made, pidOf, lock, sock, unit, sup, crashes>>
        /\ proc[p].pc = "free"
    BY <1>19 DEF Service!StartSpawns, Service!Is
  <2>a. \A q \in Pids : ~Service!Live(q)
    <3>1. CASE Service!Again
      BY <3>1 DEF Service!Again, ServiceInv, CommandSound
    <3>2. CASE Service!Command
      <4> SUFFICES ASSUME NEW q \in Pids, Service!Live(q) PROVE FALSE
        OBVIOUS
      <4>1. proc[q].pc = "serving"
        BY <3>2, <1>T, QuietMeans DEF Service!Command
      <4>2. Service!Named = q
        BY <4>1 DEF ServiceInv, NamesSound, Service!Named, Holding, Service!Inodes
      <4> QED
        BY <4>2, <1>19 DEF Service!StartSpawns, Service!NothingRuns
    <3> QED
      BY <3>1, <3>2, <1>19 DEF Service!StartSpawns
  <2>b. \A q \in Pids : q # p => proc'[q].pc \in {"free", "gone"}
    BY <2>2, <2>a DEF Service!Live
  <2>4. Service!TypeOK'
    BY <1>T, <2>2, <2>3 DEF Service!TypeOK, Service!Inodes, Processes, Places
  <2>5. RolesSound'
    BY <2>2, <2>b DEF RolesSound, Holding, Arriving, Service!Ending
  <2>6. NamesSound'
    BY <2>2, <2>b DEF NamesSound, Holding, Service!Ending
  <2>7. CommandSound'
    BY <2>2, <2>3, <2>b DEF CommandSound, Service!Live, Service!Ending
  <2> QED
    BY <2>4, <2>5, <2>6, <2>7 DEF ServiceInv
<1>20. CASE Service!StartWrites
  <2>1. /\ command.op = "write" /\ command' = Service!Idle /\ command.pid \in Pids \cup {0}
        /\ path' \in 1..InodeMax /\ (path # 0 => path' = path) /\ made' \in 0..InodeMax
        /\ pidOf' = [pidOf EXCEPT ![path'] = command.pid]
        /\ UNCHANGED <<systemd, proc, lock, sock, unit, sup, crashes>>
    <3>1. command.pid \in Pids \cup {0}
      BY <1>T DEF Service!TypeOK
    <3> QED
      BY <3>1, <1>20, <1>T, ServiceFacts DEF Service!StartWrites, Service!WritesPid, Service!Inodes
  <2>2. pidOf' \in [1..InodeMax -> Pids \cup {0}] /\ pidOf'[path'] = command.pid /\ path' \in 0..InodeMax
    BY <2>1, <1>T, ServiceFacts
  <2>3. \A q \in Pids : Service!Live(q) => q = command.pid
    BY <2>1 DEF ServiceInv, CommandSound
  <2>4. Service!TypeOK'
    BY <1>T, <2>1, <2>2 DEF Service!TypeOK, Service!Inodes, Processes, Places, Service!Idle
  <2>5. RolesSound'
    BY <2>1 DEF ServiceInv, RolesSound
  <2>6. NamesSound'
    <3>1. \A q \in Pids : proc[q].pc \in (Holding \ {"unlinked"}) \cup {"opened"} => path' = path
      BY <2>1 DEF ServiceInv, NamesSound, Service!Inodes, Holding
    <3>2. \A q \in Pids : proc[q].pc \in {"locked", "serving"} => q = command.pid
      BY <2>3 DEF Service!Live
    <3> QED
      BY <2>1, <2>2, <3>1, <3>2 DEF ServiceInv, NamesSound, Holding
  <2>7. CommandSound'
    BY <2>1 DEF CommandSound, Service!Idle
  <2> QED
    BY <2>4, <2>5, <2>6, <2>7 DEF ServiceInv
<1>21. CASE Service!StopService
  <2>1. /\ Service!Quiet /\ Service!Listening /\ sup \in Pids /\ Service!Live(sup) /\ Service!Signalled(sup)
        /\ command' = [op |-> "stop", pid |-> sup, again |-> FALSE] /\ unit' = FALSE
        /\ UNCHANGED <<systemd, path, made, pidOf, sock, sup, crashes>>
    BY <1>21, <1>T DEF Service!StopService, Service!Command, Service!ServiceRuns, Service!Live
  <2>2. /\ proc' \in [Pids -> Processes] /\ lock' \in [1..InodeMax -> Pids \cup {0}]
        /\ RolesSound' /\ NamesSound'
        /\ \A q \in Pids : Service!Live(q)' => q = sup /\ proc'[q].pc \in Stopping
    BY <2>1, SignalStops
  <2>3. Service!TypeOK'
    BY <1>T, <2>1, <2>2 DEF Service!TypeOK, Service!Inodes, Processes, Places
  <2>4. CommandSound'
    BY <2>1, <2>2 DEF CommandSound
  <2> QED
    BY <2>2, <2>3, <2>4 DEF ServiceInv
<1>22. CASE Service!StopServiceKills
  <2>1. /\ command.pid \in Pids /\ proc' = [proc EXCEPT ![command.pid].pc = "gone"]
        /\ lock' = Service!Freed(command.pid)
        /\ UNCHANGED <<systemd, path, made, pidOf, sock, unit, sup, command, crashes>>
    BY <1>22 DEF Service!StopServiceKills, Service!Live
  <2>2. crashes' \in 0..Crashes
    BY <2>1, <1>T DEF Service!TypeOK
  <2> QED
    BY <2>1, <2>2, ProcessEnds
<1>23. CASE Service!StopEnds
  <2>1. /\ command.op = "wait" /\ path' = 0 /\ command' = [Service!Idle EXCEPT !.again = command.again]
        /\ UNCHANGED <<systemd, proc, made, pidOf, lock, sock, unit, sup, crashes>>
        /\ ~Service!Live(command.pid) \/ proc[command.pid].pc = "serving"
    BY <1>23 DEF Service!StopEnds, Service!Is
  <2>2. \A q \in Pids : ~Service!Live(q)
    BY <2>1 DEF ServiceInv, CommandSound, Stopping
  <2>3. \A q \in Pids : proc'[q].pc \in {"free", "gone"}
    BY <2>1, <2>2 DEF Service!Live
  <2>4. command' \in [op : {"idle", "write", "stop", "wait"}, pid : Pids \cup {0}, again : BOOLEAN]
        /\ path' \in 0..InodeMax
    BY <2>1, <1>T, ServiceFacts DEF Service!TypeOK, Service!Idle
  <2>5. Service!TypeOK'
    BY <1>T, <2>1, <2>4 DEF Service!TypeOK, Service!Inodes, Processes, Places
  <2>6. RolesSound' /\ NamesSound' /\ CommandSound'
    BY <2>3 DEF RolesSound, NamesSound, CommandSound, Holding, Arriving, Service!Ending, Service!Live
  <2> QED
    BY <2>5, <2>6 DEF ServiceInv
<1>24. CASE Service!RestartService
  <2>1. /\ command' = Service!Idle
        /\ UNCHANGED <<systemd, path, made, pidOf, sock, unit, sup, crashes>>
    BY <1>24 DEF Service!RestartService
  <2>2. CommandSound'
    BY <2>1 DEF CommandSound, Service!Idle
  <2>3. CASE Service!Live(sup)
    <3>1. Service!Quiet /\ Service!Listening /\ sup \in Pids /\ Service!Signalled(sup)
      <4>1. ~Service!Again
        BY <2>3 DEF Service!Again, Service!Live, ServiceInv, CommandSound
      <4> QED
        BY <4>1, <1>24, <1>T, <2>3 DEF Service!RestartService, Service!Command, Service!Live
    <3>2. /\ proc' \in [Pids -> Processes] /\ lock' \in [1..InodeMax -> Pids \cup {0}]
          /\ RolesSound' /\ NamesSound'
      BY <2>1, <2>3, <3>1, SignalStops
    <3>3. Service!TypeOK'
      BY <1>T, <2>1, <3>2 DEF Service!TypeOK, Service!Inodes, Processes, Places, Service!Idle
    <3> QED
      BY <3>2, <3>3, <2>2 DEF ServiceInv
  <2>4. CASE ~Service!Live(sup)
    <3>1. UNCHANGED <<proc, lock>>
      BY <1>24, <2>4 DEF Service!RestartService
    <3>2. Service!TypeOK'
      BY <1>T, <2>1, <3>1 DEF Service!TypeOK, Service!Inodes, Processes, Places, Service!Idle
    <3>3. RolesSound' /\ NamesSound'
      BY <2>1, <3>1 DEF ServiceInv, RolesSound, NamesSound
    <3> QED
      BY <3>2, <3>3, <2>2 DEF ServiceInv
  <2> QED
    BY <2>3, <2>4
<1>25. ASSUME NEW again \in BOOLEAN, Service!StopSignals(again) PROVE ServiceInv'
  <2>1. /\ UNCHANGED <<systemd, made, pidOf, sock, unit, sup, crashes>>
        /\ Service!Command \/ (command.op = "stop" /\ ~Service!Live(command.pid))
    BY <1>25 DEF Service!StopSignals
  <2>a. ~Service!Command => \A q \in Pids : ~Service!Live(q)
    BY <2>1 DEF ServiceInv, CommandSound
  <2>2. CASE Service!Live(Service!Named)
    <3> DEFINE n == Service!Named
    <3>1. n \in Pids /\ Service!Command
      BY <2>2, <2>a DEF Service!Live
    <3>2. /\ Service!Quiet /\ Service!Listening /\ Service!Signalled(n) /\ path' = path
          /\ command' = [op |-> "wait", pid |-> n, again |-> again]
      BY <1>25, <1>T, <2>2, <3>1 DEF Service!StopSignals, Service!Command
    <3> HIDE DEF n
    <3>a. Service!Live(n)
      BY <2>2 DEF n
    <3>3. /\ proc' \in [Pids -> Processes] /\ lock' \in [1..InodeMax -> Pids \cup {0}]
          /\ RolesSound' /\ NamesSound'
          /\ \A q \in Pids : Service!Live(q)' => q = n /\ proc'[q].pc \in Stopping
      BY <2>1, <3>1, <3>2, <3>a, SignalStops
    <3>4. Service!TypeOK'
      BY <1>T, <2>1, <3>1, <3>2, <3>3 DEF Service!TypeOK, Service!Inodes, Processes, Places
    <3>5. CommandSound'
      BY <3>2, <3>3 DEF CommandSound
    <3> QED
      BY <3>3, <3>4, <3>5 DEF ServiceInv
  <2>3. CASE ~Service!Live(Service!Named)
    <3>1. /\ UNCHANGED <<proc, lock>> /\ path' = (IF again THEN path ELSE 0)
          /\ command' = [Service!Idle EXCEPT !.again = again]
      BY <1>25, <2>3 DEF Service!StopSignals
    <3>2. \A q \in Pids : ~Service!Live(q)
      <4> SUFFICES ASSUME NEW q \in Pids, Service!Live(q) PROVE FALSE
        OBVIOUS
      <4>0. Service!Quiet
        BY <2>a, <1>T DEF Service!Command
      <4>1. proc[q].pc = "serving"
        BY <4>0, QuietMeans
      <4>2. Service!Named = q
        BY <4>1 DEF ServiceInv, NamesSound, Service!Named, Holding, Service!Inodes
      <4> QED
        BY <4>2, <2>3
    <3>3. \A q \in Pids : proc'[q].pc \in {"free", "gone"}
      BY <3>1, <3>2 DEF Service!Live
    <3>4. command' \in [op : {"idle", "write", "stop", "wait"}, pid : Pids \cup {0}, again : BOOLEAN]
          /\ path' \in 0..InodeMax
      BY <3>1, <1>T, ServiceFacts DEF Service!Idle
    <3>5. Service!TypeOK'
      BY <1>T, <2>1, <3>1, <3>4 DEF Service!TypeOK, Service!Inodes, Processes, Places
    <3>6. RolesSound' /\ NamesSound' /\ CommandSound'
      BY <3>3 DEF RolesSound, NamesSound, CommandSound, Holding, Arriving, Service!Ending, Service!Live
    <3> QED
      BY <3>5, <3>6 DEF ServiceInv
  <2> QED
    BY <2>2, <2>3
<1>26. CASE UNCHANGED Service!vars
  <2>1. Service!TypeOK'
    BY <1>26, <1>T DEF Service!vars, Service!TypeOK, Service!Inodes, Processes, Places
  <2> QED
    BY <1>26, <2>1, ServiceFrame DEF Service!vars
<1> QED
  BY <1>1, <1>2, <1>3, <1>4, <1>5, <1>6, <1>7, <1>8, <1>9, <1>10, <1>11, <1>12, <1>13, <1>14, <1>15, <1>16, <1>17, <1>18, <1>19, <1>20, <1>21, <1>22, <1>23, <1>24, <1>25, <1>26 DEF Service!Next, Service!Daemon

\* ServingReachable, of MCHost: through crashes, restarts from the phone, by the
\* service manager and by the commands, one daemon serves at a time, and the pid
\* file and the local-attach socket name it, so that daemon stop and the local
\* client reach it (daemon/runtime.rs 20-75, daemon.rs 380-420, main.rs 1010-1110,
\* service.rs 900-960), for any number of processes, as long as no command is given
\* out of turn, to a daemon that is offline, or given up before the daemon ends.
THEOREM ServingIsReachable ==
    ASSUME Disorder = {}
    PROVE  Service!Spec => []ServingReachable
<1>1. ServiceInv => ServingReachable
  <2> SUFFICES ASSUME ServiceInv PROVE ServingReachable
    OBVIOUS
  <2>1. Service!OneServing
    <3> DEFINE S == {p \in Pids : Service!Is(p, "serving")}
    <3>1. \A p \in S, q \in S : p = q
      BY DEF ServiceInv, RolesSound, Holding, Service!Is
    <3>2. Cardinality(S) <= 1
      <4>1. CASE S = {}
        BY <4>1, FS_EmptySet
      <4>2. CASE S # {}
        <5>1. PICK p \in S : TRUE
          BY <4>2
        <5>2. S = {p}
          BY <5>1, <3>1
        <5> HIDE DEF S
        <5> QED
          BY <5>2, FS_Singleton
      <4> QED
        BY <4>1, <4>2
    <3> QED
      BY <3>2 DEF Service!OneServing, Service!Cardinality, Cardinality
  <2>2. ASSUME NEW p \in Pids, Service!Is(p, "serving")
        PROVE  proc[p].ino = path /\ sock = p /\ Service!Named = p
    BY <2>2 DEF ServiceInv, NamesSound, Holding, Service!Is, Service!Named, Service!Inodes
  <2> QED
    BY <2>1, <2>2 DEF ServiceInv, ServingReachable, Service!ServingReachable
<1> QED
  BY ServiceInit, ServiceStep, <1>1, PTL DEF Service!Spec


-----------------------------------------------------------------------------
(* DevicePeers: the ids that candidates carry, and the credentials.        *)

\* A peer of the table, and a candidate on its way to the loop.
PeerRecords ==
    [gen : Nat, state : {"new", "connecting", "connected", "disconnected", "failed", "closed"},
     total : Nat, counted : Nat, gathered : Nat]
Candidates == [key : PeerKeys, gen : Nat]

PeerTypes ==
    /\ offers \in Nat
    /\ peers \in [PeerKeys -> PeerRecords \cup {Peers!NoPeer}]
    /\ labels \in [Peers!Labelled -> Nat]
    /\ queue \in Seq(Candidates)
    /\ cache \in [served : Int, valid : Int, ttl : Nat]

\* The id of a key is that of its newest offer: no peer of the key, and no
\* candidate of one, is of a newer offer.
LabelsNewest ==
    /\ \A k \in PeerKeys : peers[k].gen <= offers
    /\ \A k \in Peers!Labelled : labels[k] <= offers /\ peers[k].gen <= labels[k]
    /\ \A i \in 1..Len(queue) :
          queue[i].key \in Peers!Labelled => queue[i].gen <= labels[queue[i].key]
    /\ \A c \in sent : c.label >= c.gen

\* Credentials that are served are valid for just the margin longer.
CredsSound == cache.ttl >= MinTtl /\ cache.served > 0 => cache.valid = cache.served + Margin

SignalsInv == PeerTypes /\ LabelsNewest /\ CredsSound

\* SignalsInv holds before the first offer.
LEMMA SignalsInit == Peers!Init => SignalsInv
<1> SUFFICES ASSUME Peers!Init PROVE SignalsInv
  OBVIOUS
<1> USE DEF Peers!Init
<1>1. PeerTypes
  <2>1. queue \in Seq(Candidates)
    BY EmptySeq
  <2>2. cache \in [served : Int, valid : Int, ttl : Nat]
    BY DEF Peers!NoCreds
  <2> QED
    BY <2>1, <2>2 DEF PeerTypes
<1>2. LabelsNewest
  <2>1. \A k \in PeerKeys : peers[k].gen = 0
    BY DEF Peers!NoPeer
  <2>2. Peers!Labelled \subseteq PeerKeys
    BY DEF Peers!Labelled
  <2> QED
    BY <2>1, <2>2, EmptySeq DEF LabelsNewest
<1>3. CredsSound
  BY DEF CredsSound, Peers!NoCreds
<1> QED
  BY <1>1, <1>2, <1>3 DEF SignalsInv

\* What the types say of the peers, a fact at a time.
LEMMA PeerFacts ==
    ASSUME PeerTypes
    PROVE  /\ \A k \in PeerKeys : peers[k] # Peers!NoPeer => peers[k] \in PeerRecords
           /\ \A k \in PeerKeys : peers[k].gen \in Nat
           /\ Peers!Labelled \subseteq PeerKeys /\ \A k \in Peers!Labelled : labels[k] \in Nat
           /\ Len(queue) \in Nat /\ \A i \in 1..Len(queue) : queue[i] \in Candidates
<1>1. \A k \in PeerKeys : peers[k] # Peers!NoPeer => peers[k] \in PeerRecords
  BY DEF PeerTypes
<1>2. ASSUME NEW k \in PeerKeys PROVE peers[k].gen \in Nat
  <2>1. CASE peers[k] = Peers!NoPeer
    BY <2>1 DEF Peers!NoPeer
  <2>2. CASE peers[k] # Peers!NoPeer
    BY <2>2, <1>1 DEF PeerRecords
  <2> QED
    BY <2>1, <2>2
<1>3. Peers!Labelled \subseteq PeerKeys /\ \A k \in Peers!Labelled : labels[k] \in Nat
  BY DEF Peers!Labelled, PeerTypes
<1>4. Len(queue) \in Nat /\ \A i \in 1..Len(queue) : queue[i] \in Candidates
  BY ElementOfSeq, LenProperties DEF PeerTypes
<1> QED
  BY <1>1, <1>2, <1>3, <1>4

\* The peers of some keys change or go; none becomes one of another offer.
LEMMA PeersKept ==
    ASSUME SignalsInv, UNCHANGED <<offers, labels, queue, sent, cache>>,
           peers' \in [PeerKeys -> PeerRecords \cup {Peers!NoPeer}],
           \A k \in PeerKeys : peers'[k].gen = peers[k].gen \/ peers'[k] = Peers!NoPeer
    PROVE  SignalsInv'
<1>0. PeerTypes /\ LabelsNewest
  BY DEF SignalsInv
<1>1. PeerTypes'
  BY <1>0 DEF PeerTypes
<1>2. ASSUME NEW k \in PeerKeys PROVE peers'[k].gen <= peers[k].gen /\ peers'[k].gen \in Nat
  BY <1>0, PeerFacts DEF Peers!NoPeer
<1>3. \A k \in PeerKeys : peers'[k].gen <= offers
  BY <1>0, <1>2, PeerFacts DEF LabelsNewest, PeerTypes
<1>4. \A k \in Peers!Labelled : labels[k] <= offers /\ peers'[k].gen <= labels[k]
  BY <1>0, <1>2, PeerFacts DEF LabelsNewest
<1>5. LabelsNewest'
  BY <1>0, <1>3, <1>4 DEF LabelsNewest
<1>6. CredsSound'
  BY DEF SignalsInv, CredsSound
<1> QED
  BY <1>1, <1>5, <1>6 DEF SignalsInv

\* The peer of one key changes and stays that of its offer.
LEMMA OnePeerKept ==
    ASSUME SignalsInv, UNCHANGED <<offers, labels, queue, sent, cache>>,
           NEW k \in PeerKeys, NEW r \in PeerRecords, r.gen = peers[k].gen,
           peers' = [peers EXCEPT ![k] = r]
    PROVE  SignalsInv'
<1>1. peers \in [PeerKeys -> PeerRecords \cup {Peers!NoPeer}]
  BY DEF SignalsInv, PeerTypes
<1>2. peers' \in [PeerKeys -> PeerRecords \cup {Peers!NoPeer}]
  BY <1>1
<1>3. \A j \in PeerKeys : peers'[j].gen = peers[j].gen
  BY <1>1
<1> QED
  BY <1>2, <1>3, PeersKept

\* The larger of two numbers.
LEMMA MaxOfTwo ==
    ASSUME NEW a \in Int, NEW b \in Int
    PROVE  Peers!Max({a, b}) = IF a >= b THEN a ELSE b
<1> DEFINE S == {a, b}
           m == IF a >= b THEN a ELSE b
<1>1. m \in S /\ \A y \in S : m >= y
  OBVIOUS
<1>2. \A x \in S : (\A y \in S : x >= y) => x = m
  OBVIOUS
<1> QED
  BY <1>1, <1>2 DEF Peers!Max

\* Credentials that are taken from the cache, or fetched.
LEMMA CredsTaken ==
    ASSUME SignalsInv, NEW ttl \in Ttls, Peers!TurnCreds(ttl)
    PROVE  cache' \in [served : Int, valid : Int, ttl : Nat] /\ CredsSound'
<1>1. ttl \in Nat /\ MinTtl \in Nat /\ Margin \in Nat
  BY PeersAssumption DEF Peers!PeersAssumption
<1>2. CASE cache.served > 0
  <2>1. cache' = cache
    BY <1>2 DEF Peers!TurnCreds
  <2> QED
    BY <2>1 DEF SignalsInv, PeerTypes, CredsSound
<1>3. CASE ~(cache.served > 0)
  <2>1. cache' = [served |-> Peers!Lifetime(ttl), valid |-> ttl, ttl |-> ttl]
    BY <1>3 DEF Peers!TurnCreds
  <2>2. Peers!Lifetime(ttl) = (IF ttl >= MinTtl THEN ttl ELSE MinTtl) - Margin
    BY <1>1, MaxOfTwo DEF Peers!Lifetime
  <2>3. Peers!Lifetime(ttl) \in Int /\ (ttl >= MinTtl => ttl = Peers!Lifetime(ttl) + Margin)
    BY <1>1, <2>2
  <2> QED
    BY <1>1, <2>1, <2>3 DEF CredsSound
<1> QED
  BY <1>2, <1>3

\* An offer is noted under its key before anything else is done.
LEMMA OfferNoted ==
    ASSUME SignalsInv, NEW k \in PeerKeys, Peers!Noted(k, offers + 1)
    PROVE  /\ offers' = offers + 1 /\ offers' \in Nat
           /\ labels' \in [Peers!Labelled -> Nat]
           /\ \A j \in Peers!Labelled : labels'[j] = IF j = k THEN offers + 1 ELSE labels[j]
           /\ \A j \in Peers!Labelled : labels[j] <= labels'[j] /\ labels'[j] <= offers'
<1>1. /\ offers \in Nat /\ labels \in [Peers!Labelled -> Nat]
      /\ \A j \in Peers!Labelled : labels[j] <= offers
  BY DEF SignalsInv, PeerTypes, LabelsNewest
<1>2. /\ offers' = offers + 1 /\ labels' \in [Peers!Labelled -> Nat]
      /\ \A j \in Peers!Labelled : labels'[j] = IF j = k THEN offers + 1 ELSE labels[j]
  BY <1>1 DEF Peers!Noted
<1>3. ASSUME NEW j \in Peers!Labelled PROVE labels[j] <= labels'[j] /\ labels'[j] <= offers'
  BY <1>1, <1>2
<1> QED
  BY <1>1, <1>2, <1>3

\* An offer whose peers, but for its own key's, stay as they are.
LEMMA OfferKeeps ==
    ASSUME SignalsInv, NEW k \in PeerKeys, Peers!Noted(k, offers + 1), UNCHANGED <<queue, sent>>,
           cache' \in [served : Int, valid : Int, ttl : Nat], CredsSound',
           NEW r \in PeerRecords \cup {Peers!NoPeer}, r.gen \in 0..(offers + 1),
           peers' = [peers EXCEPT ![k] = r]
    PROVE  SignalsInv'
<1>0. PeerTypes /\ LabelsNewest
  BY DEF SignalsInv
<1>1. /\ offers' = offers + 1 /\ offers' \in Nat /\ offers \in Nat
      /\ labels' \in [Peers!Labelled -> Nat]
      /\ \A j \in Peers!Labelled : labels'[j] = IF j = k THEN offers + 1 ELSE labels[j]
      /\ \A j \in Peers!Labelled : labels[j] <= labels'[j] /\ labels'[j] <= offers'
      /\ \A j \in Peers!Labelled : labels'[j] \in Nat
  BY OfferNoted, <1>0 DEF PeerTypes
<1>2. /\ peers' \in [PeerKeys -> PeerRecords \cup {Peers!NoPeer}]
      /\ \A j \in PeerKeys : peers'[j] = IF j = k THEN r ELSE peers[j]
  BY <1>0 DEF PeerTypes
<1>3. PeerTypes'
  BY <1>0, <1>1, <1>2 DEF PeerTypes
<1>4. ASSUME NEW j \in PeerKeys PROVE peers'[j].gen <= offers'
  <2>1. peers[j].gen <= offers /\ peers[j].gen \in Nat
    BY <1>0, PeerFacts DEF LabelsNewest
  <2> QED
    BY <1>1, <1>2, <2>1
<1>5. ASSUME NEW j \in Peers!Labelled PROVE peers'[j].gen <= labels'[j]
  <2>1. j \in PeerKeys /\ peers[j].gen <= labels[j] /\ peers[j].gen \in Nat /\ labels[j] \in Nat
    BY <1>0, PeerFacts DEF LabelsNewest
  <2> QED
    BY <1>1, <1>2, <2>1
<1>6. ASSUME NEW n \in 1..Len(queue), queue[n].key \in Peers!Labelled
      PROVE  queue[n].gen <= labels'[queue[n].key]
  <2>1. queue[n].gen <= labels[queue[n].key]
    BY <1>0, <1>6 DEF LabelsNewest
  <2>2. queue[n].gen \in Nat /\ labels[queue[n].key] \in Nat /\ labels'[queue[n].key] \in Nat
    BY <1>0, <1>1, <1>6, PeerFacts DEF Candidates
  <2> QED
    BY <1>1, <1>6, <2>1, <2>2
<1>7. LabelsNewest'
  BY <1>0, <1>1, <1>4, <1>5, <1>6 DEF LabelsNewest
<1> QED
  BY <1>3, <1>7 DEF SignalsInv

\* An offer, whatever becomes of it.
LEMMA OfferStep ==
    ASSUME SignalsInv, NEW k \in PeerKeys, Peers!Offer(k)
    PROVE  SignalsInv'
<1>0. /\ PeerTypes /\ CredsSound /\ peers \in [PeerKeys -> PeerRecords \cup {Peers!NoPeer}]
      /\ offers \in Nat /\ peers[k].gen \in Nat /\ peers[k].gen <= offers
  BY PeerFacts DEF SignalsInv, PeerTypes, LabelsNewest
<1>1. CASE Peers!OfferFails(k)
  <2>1. cache' \in [served : Int, valid : Int, ttl : Nat] /\ CredsSound'
    BY <1>0, <1>1 DEF Peers!OfferFails, PeerTypes, CredsSound
  <2>2. peers' = [peers EXCEPT ![k] = peers[k]] /\ peers[k] \in PeerRecords \cup {Peers!NoPeer}
    BY <1>0, <1>1 DEF Peers!OfferFails
  <2>3. Peers!Noted(k, offers + 1) /\ UNCHANGED <<queue, sent>> /\ peers[k].gen \in 0..(offers + 1)
    BY <1>0, <1>1 DEF Peers!OfferFails
  <2> QED
    BY <2>1, <2>2, <2>3, OfferKeeps
<1>2. ASSUME NEW ttl \in Ttls, Peers!OfferSkipped(k, ttl) PROVE SignalsInv'
  <2>1. cache' \in [served : Int, valid : Int, ttl : Nat] /\ CredsSound'
    BY <1>2, CredsTaken DEF Peers!OfferSkipped
  <2>2. peers' = [peers EXCEPT ![k] = peers[k]] /\ peers[k] \in PeerRecords \cup {Peers!NoPeer}
    BY <1>0, <1>2 DEF Peers!OfferSkipped
  <2>3. Peers!Noted(k, offers + 1) /\ UNCHANGED <<queue, sent>> /\ peers[k].gen \in 0..(offers + 1)
    BY <1>0, <1>2 DEF Peers!OfferSkipped
  <2> QED
    BY <2>1, <2>2, <2>3, OfferKeeps
<1>3. ASSUME NEW ttl \in Ttls, NEW o \in {"answered", "refused", "timeout"}, Peers!OfferTaken(k, ttl, o)
      PROVE  SignalsInv'
  <2>1. cache' \in [served : Int, valid : Int, ttl : Nat] /\ CredsSound'
    BY <1>3, CredsTaken DEF Peers!OfferTaken
  <2>2. Peers!Noted(k, offers + 1) /\ UNCHANGED <<queue, sent>>
    BY <1>3 DEF Peers!OfferTaken
  <2>3. ASSUME NEW st \in {"new", "connecting"}
        PROVE  Peers!Accepted(k, st) \in PeerRecords /\ Peers!Accepted(k, st).gen \in 0..(offers + 1)
    <3>1. CASE Peers!ShouldCreate(k)
      <4>1. Peers!Accepted(k, st) = Peers!NewPeer(offers + 1, st)
        BY <3>1 DEF Peers!Accepted
      <4>2. offers + 1 \in Nat /\ offers + 1 \in 0..(offers + 1)
        BY <1>0
      <4> QED
        BY <4>1, <4>2 DEF Peers!NewPeer, PeerRecords
    <3>2. CASE ~Peers!ShouldCreate(k)
      <4>1. peers[k] \in PeerRecords
        BY <1>0, <3>2, PeerFacts DEF Peers!ShouldCreate, Peers!Live
      <4>2. Peers!Accepted(k, st) = [peers[k] EXCEPT !.state = IF peers[k].state = "new" THEN st ELSE peers[k].state]
        BY <3>2 DEF Peers!Accepted
      <4>3. Peers!Accepted(k, st) \in PeerRecords /\ Peers!Accepted(k, st).gen = peers[k].gen
        BY <4>1, <4>2 DEF PeerRecords
      <4> QED
        BY <4>3, <1>0
    <3> QED
      BY <3>1, <3>2
  <2>4. PICK r \in PeerRecords \cup {Peers!NoPeer} : r.gen \in 0..(offers + 1) /\ peers' = [peers EXCEPT ![k] = r]
    <3>1. CASE o = "answered"
      <4>1. peers' = [peers EXCEPT ![k] = Peers!Accepted(k, "connecting")]
        BY <1>3, <3>1 DEF Peers!OfferTaken
      <4> QED
        BY <4>1, <2>3
    <3>2. CASE o = "refused"
      <4>1. peers' = [peers EXCEPT ![k] = Peers!Accepted(k, "new")]
        BY <1>3, <3>2 DEF Peers!OfferTaken
      <4> QED
        BY <4>1, <2>3
    <3>3. CASE o = "timeout"
      <4>1. peers' = [peers EXCEPT ![k] = Peers!NoPeer]
        BY <1>3, <3>3 DEF Peers!OfferTaken
      <4>2. Peers!NoPeer.gen \in 0..(offers + 1)
        BY <1>0 DEF Peers!NoPeer
      <4> QED
        BY <4>1, <4>2
    <3> QED
      BY <3>1, <3>2, <3>3
  <2> QED
    BY <2>1, <2>2, <2>4, OfferKeeps
<1> QED
  BY <1>1, <1>2, <1>3 DEF Peers!Offer

\* The poll: candidates of the peers that stay are queued.
LEMMA PollStep == ASSUME SignalsInv, Peers!Poll PROVE SignalsInv'
<1>0. /\ PeerTypes /\ LabelsNewest /\ CredsSound /\ queue \in Seq(Candidates)
      /\ peers \in [PeerKeys -> PeerRecords \cup {Peers!NoPeer}] /\ offers \in Nat
  BY DEF SignalsInv, PeerTypes
<1>1. PICK gone \in SUBSET {k \in Peers!Live : Peers!Expired(k)}, q \in Peers!Queued :
        /\ peers' = [k \in PeerKeys |->
                       IF k \in gone THEN Peers!NoPeer
                       ELSE IF k \in Peers!Pending THEN [peers[k] EXCEPT !.gathered = 2]
                       ELSE peers[k]]
        /\ queue' = queue \o [i \in DOMAIN q |-> [key |-> q[i], gen |-> peers[q[i]].gen]]
        /\ UNCHANGED <<offers, labels, sent, cache>>
  BY DEF Peers!Poll
<1>2. PICK n \in Nat : q \in [1..n -> Peers!Pending]
  <2>1. Peers!Pending \subseteq PeerKeys /\ IsFiniteSet(PeerKeys)
    <3>1. IsFiniteSet({"session"} \cup {"stats"} \cup {"files"} \cup {"agent"})
      BY FS_Singleton, FS_Union
    <3>2. PeerKeys \subseteq {"session"} \cup {"stats"} \cup {"files"} \cup {"agent"}
      BY PeersAssumption DEF Peers!PeersAssumption
    <3> QED
      BY <3>1, <3>2, FS_Subset DEF Peers!Pending, Peers!Live
  <2>2. q \in [1..Peers!Cardinality(Peers!Pending) -> Peers!Pending]
    BY <1>1 DEF Peers!Queued, Peers!SetToSeqs
  <2>3. Cardinality(Peers!Pending) \in Nat
    BY <2>1, FS_Subset, FS_CardinalityType
  <2>4. Peers!Cardinality(Peers!Pending) = Cardinality(Peers!Pending)
    BY DEF Peers!Cardinality, Cardinality
  <2> QED
    BY <2>2, <2>3, <2>4
<1> DEFINE c == [i \in DOMAIN q |-> [key |-> q[i], gen |-> peers[q[i]].gen]]
<1>3. Peers!Pending \subseteq PeerKeys /\ DOMAIN q = 1..n /\ \A i \in 1..n : q[i] \in Peers!Pending
  BY <1>2 DEF Peers!Pending, Peers!Live
<1>4. /\ c \in [1..n -> Candidates]
      /\ \A i \in 1..n : c[i].key \in PeerKeys /\ c[i].gen = peers[c[i].key].gen
  BY <1>0, <1>3, PeerFacts DEF Candidates
<1>5. c \in Seq(Candidates) /\ Len(c) = n
  <2> HIDE DEF c
  <2>1. c \in Seq(Candidates)
    BY <1>2, <1>4
  <2> QED
    BY <2>1, <1>2, <1>4, LenProperties
<1>6. queue' = queue \o c
  BY <1>1
<1> HIDE DEF c
<1>7. /\ queue' \in Seq(Candidates) /\ Len(queue') = Len(queue) + n /\ Len(queue) \in Nat
      /\ \A i \in 1..Len(queue) : queue'[i] = queue[i]
      /\ \A i \in (Len(queue) + 1)..(Len(queue) + n) : queue'[i] = c[i - Len(queue)]
  <2>1. /\ queue' \in Seq(Candidates) /\ Len(queue') = Len(queue) + Len(c)
        /\ \A i \in 1..(Len(queue) + Len(c)) :
              queue'[i] = IF i <= Len(queue) THEN queue[i] ELSE c[i - Len(queue)]
    BY <1>0, <1>5, <1>6, ConcatProperties
  <2>2. Len(queue) \in Nat
    BY <1>0, LenProperties
  <2>3. ASSUME NEW i \in 1..Len(queue) PROVE queue'[i] = queue[i]
    BY <2>1, <2>2, <1>2, <1>5
  <2>4. ASSUME NEW i \in (Len(queue) + 1)..(Len(queue) + n) PROVE queue'[i] = c[i - Len(queue)]
    BY <2>1, <2>2, <1>2, <1>5
  <2> QED
    BY <2>1, <2>2, <2>3, <2>4, <1>5
<1>8. /\ peers' \in [PeerKeys -> PeerRecords \cup {Peers!NoPeer}]
      /\ \A k \in PeerKeys : peers'[k].gen \in Nat /\ peers'[k].gen <= peers[k].gen
  <2>1. ASSUME NEW k \in Peers!Pending
        PROVE  /\ [peers[k] EXCEPT !.gathered = 2] \in PeerRecords
               /\ [peers[k] EXCEPT !.gathered = 2].gen = peers[k].gen
    <3>1. peers[k] \in PeerRecords
      BY <1>0, PeerFacts DEF Peers!Pending, Peers!Live
    <3> QED
      BY <3>1 DEF PeerRecords
  <2>2. ASSUME NEW k \in PeerKeys
        PROVE  /\ peers'[k] \in PeerRecords \cup {Peers!NoPeer}
               /\ peers'[k].gen \in Nat /\ peers'[k].gen <= peers[k].gen
    <3>0. peers[k].gen \in Nat /\ peers[k] \in PeerRecords \cup {Peers!NoPeer}
      BY <1>0, PeerFacts
    <3>1. CASE k \in gone
      <4>1. peers'[k] = Peers!NoPeer
        BY <1>1, <3>1
      <4> QED
        BY <4>1, <3>0 DEF Peers!NoPeer
    <3>2. CASE k \notin gone /\ k \in Peers!Pending
      <4>1. peers'[k] = [peers[k] EXCEPT !.gathered = 2]
        BY <1>1, <3>2
      <4>2. peers'[k] \in PeerRecords /\ peers'[k].gen = peers[k].gen
        BY <4>1, <2>1, <3>2
      <4> QED
        BY <4>2, <3>0
    <3>3. CASE k \notin gone /\ k \notin Peers!Pending
      <4>1. peers'[k] = peers[k]
        BY <1>1, <3>3
      <4> QED
        BY <4>1, <3>0
    <3> QED
      BY <3>1, <3>2, <3>3
  <2>3. peers' = [k \in PeerKeys |-> peers'[k]]
    BY <1>1
  <2> QED
    BY <2>2, <2>3
<1>9. PeerTypes'
  BY <1>0, <1>1, <1>7, <1>8 DEF PeerTypes
<1>10. ASSUME NEW i \in 1..Len(queue'), queue'[i].key \in Peers!Labelled
       PROVE  queue'[i].gen <= labels'[queue'[i].key]
  <2>1. CASE i \in 1..Len(queue)
    <3>1. queue'[i] = queue[i]
      BY <2>1, <1>7
    <3> QED
      BY <2>1, <3>1, <1>0, <1>1, <1>10 DEF LabelsNewest
  <2>2. CASE i \in (Len(queue) + 1)..(Len(queue) + n)
    <3>1. queue'[i] = c[i - Len(queue)] /\ i - Len(queue) \in 1..n
      BY <2>2, <1>2, <1>7
    <3>2. queue'[i].gen = peers[queue'[i].key].gen
      BY <3>1, <1>4
    <3> QED
      BY <3>2, <1>0, <1>1, <1>10 DEF LabelsNewest
  <2> QED
    BY <2>1, <2>2, <1>2, <1>7
<1>11. ASSUME NEW k \in PeerKeys
       PROVE  peers'[k].gen <= offers /\ (k \in Peers!Labelled => peers'[k].gen <= labels[k])
  BY <1>0, <1>8, PeerFacts DEF LabelsNewest
<1>12. LabelsNewest'
  <2>1. Peers!Labelled \subseteq PeerKeys
    BY <1>0, PeerFacts
  <2> QED
    BY <1>0, <1>1, <1>10, <1>11, <2>1 DEF LabelsNewest
<1>13. CredsSound'
  BY <1>0, <1>1 DEF CredsSound
<1> QED
  BY <1>9, <1>12, <1>13 DEF SignalsInv

\* Every step of the WebRTC stack, of the handlers and of the loop keeps
\* SignalsInv.
LEMMA SignalsStep == SignalsInv /\ [Peers!Next]_(Peers!vars) => SignalsInv'
<1> SUFFICES ASSUME SignalsInv, [Peers!Next]_(Peers!vars) PROVE SignalsInv'
  OBVIOUS
<1>0. /\ PeerTypes /\ LabelsNewest /\ CredsSound
      /\ peers \in [PeerKeys -> PeerRecords \cup {Peers!NoPeer}]
  BY DEF SignalsInv, PeerTypes
<1>1. CASE Peers!Tick
  <2>1. /\ cache.served \in Int /\ cache.valid \in Int /\ cache.ttl \in Nat
        /\ MinTtl \in Nat /\ Margin \in Nat
    BY <1>0, PeersAssumption DEF PeerTypes, Peers!PeersAssumption
  <2>2. /\ cache' = [cache EXCEPT !.served = Peers!Max({cache.served - 1, 0}),
                                  !.valid = Peers!Max({cache.valid - 1, 0})]
        /\ UNCHANGED <<offers, peers, labels, queue, sent>>
    BY <1>1 DEF Peers!Tick
  <2>3. /\ Peers!Max({cache.served - 1, 0}) = IF cache.served - 1 >= 0 THEN cache.served - 1 ELSE 0
        /\ Peers!Max({cache.valid - 1, 0}) = IF cache.valid - 1 >= 0 THEN cache.valid - 1 ELSE 0
    BY <2>1, MaxOfTwo
  <2>4. cache \in [served : Int, valid : Int, ttl : Nat]
    BY <1>0 DEF PeerTypes
  <2>5. /\ cache' \in [served : Int, valid : Int, ttl : Nat] /\ cache'.ttl = cache.ttl
        /\ cache'.served = IF cache.served - 1 >= 0 THEN cache.served - 1 ELSE 0
        /\ cache'.valid = IF cache.valid - 1 >= 0 THEN cache.valid - 1 ELSE 0
    <3> DEFINE a == Peers!Max({cache.served - 1, 0})
               b == Peers!Max({cache.valid - 1, 0})
    <3>1. /\ cache' = [cache EXCEPT !.served = a, !.valid = b]
          /\ a = IF cache.served - 1 >= 0 THEN cache.served - 1 ELSE 0
          /\ b = IF cache.valid - 1 >= 0 THEN cache.valid - 1 ELSE 0
      BY <2>2, <2>3
    <3> HIDE DEF a, b
    <3>a. a \in Int /\ b \in Int
      BY <2>1, <3>1
    <3>2. cache' \in [served : Int, valid : Int, ttl : Nat]
          /\ cache'.ttl = cache.ttl /\ cache'.served = a /\ cache'.valid = b
      BY <3>1, <3>a, <2>4
    <3> QED
      BY <3>1, <3>2
  <2>6. CredsSound'
    BY <1>0, <2>1, <2>5 DEF CredsSound
  <2>7. PeerTypes' /\ LabelsNewest'
    BY <1>0, <2>2, <2>5 DEF PeerTypes, LabelsNewest
  <2> QED
    BY <2>6, <2>7 DEF SignalsInv
<1>2. CASE Peers!Poll
  BY <1>2, PollStep
<1>3. CASE Peers!SendCandidate
  <2>1. /\ queue # <<>> /\ queue' = Tail(queue)
        /\ sent' = IF queue[1].key \in Peers!Labelled
                     THEN sent \cup {[gen |-> queue[1].gen, label |-> labels[queue[1].key]]} ELSE sent
        /\ UNCHANGED <<offers, peers, labels, cache>>
    BY <1>3 DEF Peers!SendCandidate
  <2>2. /\ queue' \in Seq(Candidates) /\ Len(queue') = Len(queue) - 1
        /\ \A i \in 1..(Len(queue) - 1) : queue'[i] = queue[i + 1]
    BY <1>0, <2>1, HeadTailProperties DEF PeerTypes
  <2>3. Len(queue) \in Nat /\ Len(queue) # 0
    BY <1>0, <2>1, EmptySeq, LenProperties DEF PeerTypes
  <2>4. PeerTypes'
    BY <1>0, <2>1, <2>2 DEF PeerTypes
  <2>5. ASSUME NEW i \in 1..Len(queue'), queue'[i].key \in Peers!Labelled
        PROVE  queue'[i].gen <= labels[queue'[i].key]
    <3>1. i + 1 \in 1..Len(queue) /\ queue'[i] = queue[i + 1]
      BY <2>2, <2>3
    <3> QED
      BY <3>1, <1>0, <2>5 DEF LabelsNewest
  <2>6. ASSUME NEW x \in sent' PROVE x.label >= x.gen
    <3>1. CASE x \in sent
      BY <3>1, <1>0 DEF LabelsNewest
    <3>2. CASE x \notin sent
      <4>1. queue[1].key \in Peers!Labelled /\ x = [gen |-> queue[1].gen, label |-> labels[queue[1].key]]
        BY <2>1, <3>2
      <4>2. 1 \in 1..Len(queue)
        BY <2>3
      <4>3. queue[1].gen <= labels[queue[1].key] /\ queue[1].gen \in Nat /\ labels[queue[1].key] \in Nat
        BY <4>1, <4>2, <1>0, PeerFacts DEF LabelsNewest, Candidates
      <4> QED
        BY <4>1, <4>3
    <3> QED
      BY <3>1, <3>2
  <2>7. LabelsNewest'
    BY <1>0, <2>1, <2>5, <2>6 DEF LabelsNewest
  <2>8. CredsSound'
    BY <1>0, <2>1 DEF CredsSound
  <2> QED
    BY <2>4, <2>7, <2>8 DEF SignalsInv
<1>a. ASSUME NEW K PROVE
        /\ Peers!Counted(K) \in [PeerKeys -> PeerRecords \cup {Peers!NoPeer}]
        /\ \A k \in PeerKeys : Peers!Counted(K)[k].gen = peers[k].gen
  <2>1. ASSUME NEW k \in PeerKeys
        PROVE  /\ Peers!Counted(K)[k] \in PeerRecords \cup {Peers!NoPeer}
               /\ Peers!Counted(K)[k].gen = peers[k].gen
    <3>1. CASE k \in K \cap Peers!Live
      <4>1. peers[k] \in PeerRecords /\ Peers!Counted(K)[k] = [peers[k] EXCEPT !.counted = peers[k].total]
        BY <3>1, <1>0, PeerFacts DEF Peers!Counted, Peers!Live
      <4> QED
        BY <4>1 DEF PeerRecords
    <3>2. CASE k \notin K \cap Peers!Live
      BY <3>2, <1>0 DEF Peers!Counted
    <3> QED
      BY <3>1, <3>2
  <2>2. Peers!Counted(K) = [k \in PeerKeys |-> Peers!Counted(K)[k]]
    BY DEF Peers!Counted
  <2> QED
    BY <2>1, <2>2
<1>4. CASE Peers!UsageTick
  <2>1. PICK K : peers' = Peers!Counted(K)
    BY <1>4 DEF Peers!UsageTick
  <2>2. UNCHANGED <<offers, labels, queue, sent, cache>>
    BY <1>4 DEF Peers!UsageTick
  <2> QED
    BY <2>1, <2>2, <1>a, PeersKept
<1>5. CASE Peers!ConnectionEnds
  <2>1. peers' = [k \in PeerKeys |-> Peers!NoPeer] /\ UNCHANGED <<offers, labels, queue, sent, cache>>
    BY <1>5 DEF Peers!ConnectionEnds
  <2> QED
    BY <2>1, PeersKept
<1>6. ASSUME NEW k \in PeerKeys, NEW to \in {"connected", "disconnected", "failed", "closed"},
             Peers!StateChanges(k, to)
      PROVE  SignalsInv'
  <2> DEFINE r == [peers[k] EXCEPT !.state = to]
  <2>1. peers[k] \in PeerRecords
    BY <1>6, <1>0, PeerFacts DEF Peers!StateChanges, Peers!Live
  <2>2. r \in PeerRecords /\ r.gen = peers[k].gen
    BY <2>1 DEF PeerRecords
  <2>3. peers' = [peers EXCEPT ![k] = r] /\ UNCHANGED <<offers, labels, queue, sent, cache>>
    BY <1>6 DEF Peers!StateChanges
  <2> HIDE DEF r
  <2> QED
    BY <2>2, <2>3, OnePeerKept
<1>7. ASSUME NEW k \in PeerKeys, Peers!Relays(k) PROVE SignalsInv'
  <2> DEFINE r == [peers[k] EXCEPT !.total = peers[k].total + 1]
  <2>1. peers[k] \in PeerRecords
    BY <1>7, <1>0, PeerFacts DEF Peers!Relays, Peers!Live
  <2>2. r \in PeerRecords /\ r.gen = peers[k].gen
    BY <2>1 DEF PeerRecords
  <2>3. peers' = [peers EXCEPT ![k] = r] /\ UNCHANGED <<offers, labels, queue, sent, cache>>
    BY <1>7, <1>0 DEF Peers!Relays
  <2> HIDE DEF r
  <2> QED
    BY <2>2, <2>3, OnePeerKept
<1>8. ASSUME NEW k \in PeerKeys, Peers!PairLeaves(k) PROVE SignalsInv'
  <2> DEFINE r == [peers[k] EXCEPT !.total = 0, !.counted = 0]
  <2>1. peers[k] \in PeerRecords
    BY <1>8, <1>0, PeerFacts DEF Peers!PairLeaves, Peers!Live
  <2>2. r \in PeerRecords /\ r.gen = peers[k].gen
    BY <2>1 DEF PeerRecords
  <2>3. peers' = [peers EXCEPT ![k] = r] /\ UNCHANGED <<offers, labels, queue, sent, cache>>
    BY <1>8, <1>0, <2>1 DEF Peers!PairLeaves, PeerRecords
  <2> HIDE DEF r
  <2> QED
    BY <2>2, <2>3, OnePeerKept
<1>9. ASSUME NEW k \in PeerKeys, Peers!Gathers(k) PROVE SignalsInv'
  <2> DEFINE r == [peers[k] EXCEPT !.gathered = 1]
  <2>1. peers[k] \in PeerRecords
    BY <1>9, <1>0, PeerFacts DEF Peers!Gathers, Peers!Live
  <2>2. r \in PeerRecords /\ r.gen = peers[k].gen
    BY <2>1 DEF PeerRecords
  <2>3. peers' = [peers EXCEPT ![k] = r] /\ UNCHANGED <<offers, labels, queue, sent, cache>>
    BY <1>9 DEF Peers!Gathers
  <2> HIDE DEF r
  <2> QED
    BY <2>2, <2>3, OnePeerKept
<1>10. CASE Peers!SessionOffer \/ Peers!StatsOffer \/ Peers!FilesOffer \/ Peers!AgentOffer
  <2>1. PICK k \in PeerKeys : Peers!Offer(k)
    BY <1>10 DEF Peers!SessionOffer, Peers!StatsOffer, Peers!FilesOffer, Peers!AgentOffer, Peers!Offer
  <2> QED
    BY <2>1, OfferStep
<1>11. ASSUME NEW done \in SUBSET Peers!Live, Peers!UsageTimeout(done) PROVE SignalsInv'
  <2>1. peers' = Peers!Counted(done) /\ UNCHANGED <<offers, labels, queue, sent, cache>>
    BY <1>11 DEF Peers!UsageTimeout
  <2> QED
    BY <2>1, <1>a, PeersKept
<1>b. ASSUME UNCHANGED <<offers, peers, labels, queue, sent, cache>> PROVE SignalsInv'
  BY <1>0, <1>b DEF SignalsInv, PeerTypes, LabelsNewest, CredsSound
<1>12. ASSUME NEW ok \in BOOLEAN, Peers!Reported(ok) PROVE SignalsInv'
  BY <1>b, <1>12 DEF Peers!Reported
<1>13. CASE UNCHANGED Peers!vars
  BY <1>b, <1>13 DEF Peers!vars
<1> QED
  BY <1>1, <1>2, <1>3, <1>4, <1>5, <1>6, <1>7, <1>8, <1>9, <1>10, <1>11, <1>12, <1>13 DEF Peers!Next

\* SignalsSound, of MCHost: for any number of offers, however they replace the
\* peers that are there and whenever the poll and the loop get to a candidate, it
\* never goes out under the id of an offer older than its peer's; and credentials
\* that the cache serves, of a backend that lets them last MinTtl, outlive the
\* margin (daemon.rs 3290-3310, 5830-5842, daemon/turn.rs 1-75).
THEOREM SignalsAreSound == Peers!Init /\ [][Peers!Next]_(Peers!vars) => []SignalsSound
<1>1. SignalsInv => SignalsSound
  <2> SUFFICES ASSUME SignalsInv PROVE SignalsSound
    OBVIOUS
  <2>1. Peers!LabelNotStale
    BY DEF SignalsInv, LabelsNewest, Peers!LabelNotStale
  <2>2. Peers!CredsOutliveMargin
    <3>1. cache.served \in Int /\ Margin \in Nat
      BY PeersAssumption DEF SignalsInv, PeerTypes, Peers!PeersAssumption
    <3> QED
      BY <3>1 DEF SignalsInv, CredsSound, Peers!CredsOutliveMargin
  <2> QED
    BY <2>1, <2>2 DEF SignalsSound
<1> QED
  BY SignalsInit, SignalsStep, <1>1, PTL


-----------------------------------------------------------------------------
(* DevicePeers: the relayed bytes.                                         *)

\* The counters of bytes, and the last snapshot of a peer.
BytesTypes ==
    /\ relayed \in Nat /\ pendingBytes \in Nat /\ billed \in Nat /\ lost \in Nat
    /\ flight \in Seq(Nat)
    /\ \A k \in PeerKeys : peers[k] # Peers!NoPeer => peers[k].counted <= peers[k].total

\* The reports on their way carry x bytes: their running total ends there, and
\* never falls.
Flown(x) ==
    \E sum \in [0..Len(flight) -> Nat] :
      /\ sum[0] = 0 /\ \A i \in 1..Len(flight) : sum[i] = sum[i - 1] + flight[i]
      /\ \A i \in 0..Len(flight) : sum[i] <= x
      /\ \A i, j \in 0..Len(flight) : i <= j => sum[i] <= sum[j]
      /\ sum[Len(flight)] = x

\* Nothing is counted twice and nothing is forgotten.
BytesInv ==
    /\ BytesTypes
    /\ \E x \in Nat :
          /\ Flown(x)
          /\ relayed = billed + pendingBytes + lost + Peers!RelayDelta(PeerKeys) + x

\* Sums of four, of which some terms move from one to the other.
LEMMA SumsOfFour ==
    \A a, b, c, d, p, q, r, s \in Nat :
       (a + p) + (b + q) + (c + r) + (d + s) = (a + b + c + d) + (p + q + r + s)
OBVIOUS

\* What a snapshot adds is never negative: the counters of a connection only
\* grow (webrtc_peer.rs).
LEMMA DeltaNat ==
    ASSUME PeerTypes, BytesTypes, NEW k, NEW J
    PROVE  Peers!Delta(k, J) \in Nat
<1>1. CASE k \in J \cap Peers!Live
  <2>1. k \in PeerKeys /\ peers[k] # Peers!NoPeer
    BY <1>1 DEF Peers!Live
  <2>2. peers[k].total \in Nat /\ peers[k].counted \in Nat /\ peers[k].counted <= peers[k].total
    BY <2>1, PeerFacts DEF PeerRecords, BytesTypes
  <2> QED
    BY <1>1, <2>2 DEF Peers!Delta
<1>2. CASE k \notin J \cap Peers!Live
  BY <1>2 DEF Peers!Delta
<1> QED
  BY <1>1, <1>2

\* What the snapshots add can be added up in parts
\* (collect_relay_delta, webrtc_peer.rs).
LEMMA DeltaSplit ==
    ASSUME PeerTypes, BytesTypes, NEW K, NEW L, L \subseteq K
    PROVE  /\ Peers!RelayDelta(K) \in Nat /\ Peers!RelayDelta(L) \in Nat
           /\ Peers!RelayDelta(K \ L) \in Nat
           /\ Peers!RelayDelta(K) = Peers!RelayDelta(K \ L) + Peers!RelayDelta(L)
<1>1. ASSUME NEW k, NEW J PROVE Peers!Delta(k, J) \in Nat
  BY DeltaNat
<1>2. ASSUME NEW k PROVE Peers!Delta(k, K) = Peers!Delta(k, K \ L) + Peers!Delta(k, L)
  <2>0. Peers!Delta(k, K) \in Nat
    BY <1>1
  <2>1. CASE k \in L
    <3>1. Peers!Delta(k, K \ L) = 0 /\ Peers!Delta(k, K) = Peers!Delta(k, L)
      BY <2>1 DEF Peers!Delta
    <3> QED
      BY <2>0, <3>1
  <2>2. CASE k \notin L
    <3>1. Peers!Delta(k, L) = 0 /\ Peers!Delta(k, K \ L) = Peers!Delta(k, K)
      BY <2>2 DEF Peers!Delta
    <3> QED
      BY <2>0, <3>1
  <2> QED
    BY <2>1, <2>2
<1>3. PICK a, b, c, d \in Nat :
        /\ a = Peers!Delta("session", K \ L) /\ b = Peers!Delta("stats", K \ L)
        /\ c = Peers!Delta("files", K \ L) /\ d = Peers!Delta("agent", K \ L)
  BY <1>1
<1>4. PICK p, q, r, s \in Nat :
        /\ p = Peers!Delta("session", L) /\ q = Peers!Delta("stats", L)
        /\ r = Peers!Delta("files", L) /\ s = Peers!Delta("agent", L)
  BY <1>1
<1>5. /\ Peers!RelayDelta(K \ L) = a + b + c + d /\ Peers!RelayDelta(L) = p + q + r + s
      /\ Peers!RelayDelta(K) = (a + p) + (b + q) + (c + r) + (d + s)
  <2>1. Peers!RelayDelta(K \ L) = a + b + c + d
    BY <1>3 DEF Peers!RelayDelta
  <2>2. Peers!RelayDelta(L) = p + q + r + s
    BY <1>4 DEF Peers!RelayDelta
  <2>3. /\ Peers!Delta("session", K) = a + p /\ Peers!Delta("stats", K) = b + q
        /\ Peers!Delta("files", K) = c + r /\ Peers!Delta("agent", K) = d + s
    BY <1>2, <1>3, <1>4
  <2>4. Peers!RelayDelta(K) = (a + p) + (b + q) + (c + r) + (d + s)
    BY <2>3 DEF Peers!RelayDelta
  <2> QED
    BY <2>1, <2>2, <2>4
<1> QED
  BY <1>5, SumsOfFour

\* What the snapshot of one peer adds.
LEMMA DeltaOfOne ==
    ASSUME PeerTypes, BytesTypes, NEW k \in PeerKeys, k \in Peers!Live
    PROVE  Peers!RelayDelta({k}) = peers[k].total - peers[k].counted
<1>1. peers[k].total \in Nat /\ peers[k].counted \in Nat
  BY PeerFacts DEF PeerRecords, Peers!Live
<1>2. k \in {"session", "stats", "files", "agent"}
  BY PeersAssumption DEF Peers!PeersAssumption
<1>3. PICK d \in Int : d = peers[k].total - peers[k].counted
  BY <1>1
<1>4. \A j : Peers!Delta(j, {k}) = IF j = k THEN d ELSE 0
  BY <1>3 DEF Peers!Delta
<1>5. Peers!RelayDelta({k}) =
        (IF "session" = k THEN d ELSE 0) + (IF "stats" = k THEN d ELSE 0)
          + (IF "files" = k THEN d ELSE 0) + (IF "agent" = k THEN d ELSE 0)
  BY <1>4 DEF Peers!RelayDelta
<1>6. CASE k = "session"
  BY <1>3, <1>5, <1>6
<1>7. CASE k = "stats"
  BY <1>3, <1>5, <1>7
<1>8. CASE k = "files"
  BY <1>3, <1>5, <1>8
<1>9. CASE k = "agent"
  BY <1>3, <1>5, <1>9
<1> QED
  BY <1>2, <1>6, <1>7, <1>8, <1>9

\* The peers of K are as they were, or all of their bytes are counted.
SameBytes(k) ==
    /\ peers[k] = Peers!NoPeer <=> peers'[k] = Peers!NoPeer
    /\ peers[k] # Peers!NoPeer =>
          peers'[k].total = peers[k].total /\ peers'[k].counted = peers[k].counted
AllCounted(k) == peers'[k] = Peers!NoPeer \/ peers'[k].total = peers'[k].counted
Settled(K) ==
    \A k \in PeerKeys : (k \in K => AllCounted(k)) /\ (k \notin K => SameBytes(k))

\* A step that closes the peers of K, or counts their bytes, leaves the others'
\* bytes to be counted.
LEMMA SettledDelta ==
    ASSUME PeerTypes, BytesTypes, PeerTypes', NEW K, Settled(K)
    PROVE  /\ Peers!RelayDelta(PeerKeys)' = Peers!RelayDelta(PeerKeys \ K)
           /\ (\A k \in PeerKeys : peers[k] # Peers!NoPeer => peers[k].counted <= peers[k].total)'
<1>1. ASSUME NEW k \in PeerKeys, peers'[k] # Peers!NoPeer
      PROVE  peers'[k].total \in Nat /\ peers'[k].counted \in Nat
  BY <1>1 DEF PeerTypes, PeerRecords
<1>2. ASSUME NEW k \in PeerKeys, peers'[k] # Peers!NoPeer PROVE peers'[k].counted <= peers'[k].total
  BY <1>1, <1>2 DEF Settled, SameBytes, AllCounted, BytesTypes
<1>3. ASSUME NEW k PROVE Peers!Delta(k, PeerKeys)' = Peers!Delta(k, PeerKeys \ K)
  <2>1. CASE k \notin PeerKeys
    BY <2>1 DEF Peers!Delta, Peers!Live
  <2>2. CASE k \in PeerKeys /\ k \in K
    <3>1. Peers!Delta(k, PeerKeys \ K) = 0
      BY <2>2 DEF Peers!Delta
    <3>2. peers'[k] = Peers!NoPeer \/ peers'[k].total - peers'[k].counted = 0
      BY <2>2, <1>1 DEF Settled, AllCounted
    <3>3. Peers!Delta(k, PeerKeys)' = 0
      BY <3>2 DEF Peers!Delta, Peers!Live
    <3> QED
      BY <3>1, <3>3
  <2>3. CASE k \in PeerKeys /\ k \notin K
    BY <2>3 DEF Settled, SameBytes, Peers!Delta, Peers!Live
  <2> QED
    BY <2>1, <2>2, <2>3
<1>4. Peers!RelayDelta(PeerKeys)' = Peers!RelayDelta(PeerKeys \ K)
  BY <1>3 DEF Peers!RelayDelta
<1> QED
  BY <1>2, <1>4

\* Bytes that move from one counter to another, while no report leaves or
\* arrives.
LEMMA BytesMove ==
    ASSUME SignalsInv, BytesInv, NEW K, Settled(K), PeerTypes', flight' = flight, relayed' = relayed,
           billed' = billed, pendingBytes' \in Nat, lost' \in Nat,
           pendingBytes' + lost' = (pendingBytes + lost) + Peers!RelayDelta(PeerKeys \cap K)
    PROVE  BytesInv'
<1>0. PeerTypes /\ BytesTypes
  BY DEF SignalsInv, BytesInv
<1>1. BytesTypes'
  BY <1>0, SettledDelta DEF BytesTypes
<1>2. PICK x \in Nat :
        Flown(x) /\ relayed = billed + pendingBytes + lost + Peers!RelayDelta(PeerKeys) + x
  BY DEF BytesInv
<1>3. Flown(x)'
  BY <1>2 DEF Flown
<1>4. PICK a, b \in Nat : /\ a = Peers!RelayDelta(PeerKeys \cap K) /\ b = Peers!RelayDelta(PeerKeys)'
                          /\ Peers!RelayDelta(PeerKeys) = b + a
  <2>1. PeerKeys \ (PeerKeys \cap K) = PeerKeys \ K
    OBVIOUS
  <2>2. /\ Peers!RelayDelta(PeerKeys \cap K) \in Nat /\ Peers!RelayDelta(PeerKeys \ K) \in Nat
        /\ Peers!RelayDelta(PeerKeys) = Peers!RelayDelta(PeerKeys \ K) + Peers!RelayDelta(PeerKeys \cap K)
    <3>1. PeerKeys \cap K \subseteq PeerKeys
      OBVIOUS
    <3> QED
      BY <3>1, <2>1, <1>0, DeltaSplit
  <2> QED
    BY <2>2, <1>0, SettledDelta
<1>5. relayed' = billed' + pendingBytes' + lost' + b + x
  <2>1. /\ relayed \in Nat /\ pendingBytes \in Nat /\ billed \in Nat /\ lost \in Nat
    BY <1>0 DEF BytesTypes
  <2>2. relayed = billed + pendingBytes + lost + (b + a) + x
    BY <1>2, <1>4
  <2>3. pendingBytes' + lost' = (pendingBytes + lost) + a
    BY <1>4
  <2> QED
    BY <2>1, <2>2, <2>3, <1>4, <1>2
<1> QED
  BY <1>1, <1>2, <1>3, <1>4, <1>5 DEF BytesInv

\* close_peer, of the peers in K, in a step that removes or replaces them.
LEMMA BytesClosed ==
    ASSUME SignalsInv, BytesInv, NEW K \in SUBSET PeerKeys, NEW slow \in SUBSET K, Settled(K), PeerTypes',
           Peers!ClosePeers(K, slow)
    PROVE  BytesInv'
<1>0. PeerTypes /\ BytesTypes /\ PeerKeys \cap K = K
  BY DEF SignalsInv, BytesInv
<1>1. PICK a, b \in Nat : /\ a = Peers!RelayDelta(K \ slow) /\ b = Peers!RelayDelta(slow)
                          /\ Peers!RelayDelta(K) = a + b
  BY <1>0, DeltaSplit
<1>2. pendingBytes' = pendingBytes + a /\ lost' = lost + b /\ UNCHANGED <<relayed, flight, billed>>
  BY <1>1 DEF Peers!ClosePeers
<1>3. pendingBytes \in Nat /\ lost \in Nat
  BY <1>0 DEF BytesTypes
<1>4. /\ pendingBytes' \in Nat /\ lost' \in Nat
      /\ pendingBytes' + lost' = (pendingBytes + lost) + (a + b)
  BY <1>1, <1>2, <1>3
<1> QED
  BY <1>0, <1>1, <1>2, <1>4, BytesMove

\* Nothing is closed, counted or reported.
LEMMA BytesStay ==
    ASSUME SignalsInv, BytesInv, Settled({}), PeerTypes', UNCHANGED Peers!bytes
    PROVE  BytesInv'
<1>0. PeerTypes /\ BytesTypes
  BY DEF SignalsInv, BytesInv
<1>1. Peers!RelayDelta(PeerKeys \cap {}) = 0
  BY DEF Peers!RelayDelta, Peers!Delta
<1>2. UNCHANGED <<relayed, pendingBytes, flight, billed, lost>>
  BY DEF Peers!bytes
<1>3. pendingBytes' \in Nat /\ lost' \in Nat /\ pendingBytes' + lost' = (pendingBytes + lost) + 0
  BY <1>0, <1>2 DEF BytesTypes
<1> QED
  BY <1>1, <1>2, <1>3, BytesMove

\* A report of y bytes leaves.
LEMMA ReportLeaves ==
    ASSUME NEW x \in Nat, Flown(x), flight \in Seq(Nat), NEW y \in Nat, flight' = Append(flight, y)
    PROVE  Flown(x + y)' /\ flight' \in Seq(Nat)
<1> DEFINE n == Len(flight)
<1>1. /\ n \in Nat /\ flight' \in Seq(Nat) /\ Len(flight') = n + 1 /\ flight'[n + 1] = y
      /\ \A i \in 1..n : flight'[i] = flight[i]
  BY AppendProperties, LenProperties
<1>2. PICK sum \in [0..n -> Nat] :
        /\ sum[0] = 0 /\ \A i \in 1..n : sum[i] = sum[i - 1] + flight[i]
        /\ \A i \in 0..n : sum[i] <= x
        /\ \A i, j \in 0..n : i <= j => sum[i] <= sum[j]
        /\ sum[n] = x
  BY DEF Flown
<1>3. PICK m \in Nat : m = n
  BY <1>1
<1> HIDE DEF n
<1> DEFINE s == [i \in 0..(m + 1) |-> IF i <= m THEN sum[i] ELSE x + y]
<1>4. /\ s \in [0..(m + 1) -> Nat] /\ s[0] = 0 /\ s[m + 1] = x + y
      /\ \A i \in 0..m : s[i] = sum[i] /\ sum[i] \in Nat
  BY <1>2, <1>3
<1> HIDE DEF s
<1>5. \A i \in 1..(m + 1) : s[i] = s[i - 1] + flight'[i]
  <2>1. ASSUME NEW i \in 1..m PROVE s[i] = s[i - 1] + flight'[i]
    <3>1. i \in 0..m /\ i - 1 \in 0..m
      OBVIOUS
    <3> QED
      BY <1>1, <1>2, <1>3, <1>4, <3>1
  <2>2. s[m + 1] = s[(m + 1) - 1] + flight'[m + 1]
    BY <1>1, <1>2, <1>3, <1>4
  <2>3. \A i \in 1..(m + 1) : i \in 1..m \/ i = m + 1
    OBVIOUS
  <2> QED
    BY <2>1, <2>2, <2>3
<1>6. \A i \in 0..(m + 1) : s[i] <= x + y
  <2>1. ASSUME NEW i \in 0..m PROVE s[i] <= x + y
    <3>1. sum[i] <= x /\ sum[i] \in Nat /\ s[i] = sum[i]
      BY <1>2, <1>3, <1>4
    <3> QED
      BY <3>1
  <2>3. \A i \in 0..(m + 1) : i \in 0..m \/ i = m + 1
    OBVIOUS
  <2> QED
    BY <2>1, <2>3, <1>4
<1>7. \A i, j \in 0..(m + 1) : i <= j => s[i] <= s[j]
  <2> SUFFICES ASSUME NEW i \in 0..(m + 1), NEW j \in 0..(m + 1), i <= j PROVE s[i] <= s[j]
    OBVIOUS
  <2>1. CASE j = m + 1
    BY <2>1, <1>4, <1>6
  <2>2. CASE j # m + 1
    <3>1. i \in 0..m /\ j \in 0..m
      BY <2>2
    <3> QED
      BY <3>1, <1>2, <1>3, <1>4
  <2> QED
    BY <2>1, <2>2
<1> QED
  BY <1>1, <1>3, <1>4, <1>5, <1>6, <1>7 DEF Flown

\* The first report arrives, or fails.
LEMMA ReportEnds ==
    ASSUME NEW x \in Nat, Flown(x), flight \in Seq(Nat), flight # <<>>, flight' = Tail(flight),
           NEW y, y = flight[1]
    PROVE  /\ flight' \in Seq(Nat) /\ y \in Nat
           /\ x - y \in Nat /\ Flown(x - y)'
<1>1. /\ Len(flight) \in Nat /\ Len(flight) # 0 /\ flight' \in Seq(Nat) /\ Len(flight') = Len(flight) - 1
      /\ \A i \in 1..(Len(flight) - 1) : flight'[i] = flight[i + 1]
  BY HeadTailProperties, EmptySeq, LenProperties
<1>2. PICK m \in Nat : Len(flight) = m + 1
  <2>1. Len(flight) - 1 \in Nat /\ Len(flight) = (Len(flight) - 1) + 1
    BY <1>1
  <2> QED
    BY <2>1
<1>3. PICK sum \in [0..(m + 1) -> Nat] :
        /\ sum[0] = 0 /\ \A i \in 1..(m + 1) : sum[i] = sum[i - 1] + flight[i]
        /\ \A i \in 0..(m + 1) : sum[i] <= x
        /\ \A i, j \in 0..(m + 1) : i <= j => sum[i] <= sum[j]
        /\ sum[m + 1] = x
  BY <1>2 DEF Flown
<1>4. y \in Nat
  BY <1>1, <1>2, ElementOfSeq
<1>6. sum[1] = y /\ \A i \in 1..(m + 1) : sum[i] >= y /\ sum[i] \in Nat
  <2>1. sum[1] = sum[1 - 1] + flight[1] /\ 1 - 1 = 0
    BY <1>3
  <2>2. sum[1] = y
    BY <2>1, <1>3, <1>4
  <2>3. ASSUME NEW i \in 1..(m + 1) PROVE sum[i] >= y /\ sum[i] \in Nat
    <3>1. 1 \in 0..(m + 1) /\ i \in 0..(m + 1) /\ 1 <= i
      OBVIOUS
    <3>2. sum[1] <= sum[i] /\ sum[i] \in Nat
      BY <3>1, <1>3
    <3> QED
      BY <3>2, <2>2
  <2> QED
    BY <2>2, <2>3
<1> DEFINE s == [i \in 0..m |-> sum[i + 1] - y]
<1>7. \A i \in 0..m : s[i] = sum[i + 1] - y /\ s[i] \in Nat /\ sum[i + 1] \in Nat /\ i + 1 \in 1..(m + 1)
  BY <1>6
<1>8. s \in [0..m -> Nat] /\ s[0] = 0 /\ s[m] = x - y /\ x - y \in Nat
  BY <1>3, <1>6, <1>7
<1> HIDE DEF s
<1>9. Len(flight') = m /\ \A i \in 1..m : flight'[i] = flight[i + 1] /\ flight[i + 1] \in Nat
  <2>1. Len(flight') = m /\ \A i \in 1..m : flight'[i] = flight[i + 1]
    BY <1>1, <1>2
  <2>2. \A i \in 1..m : flight[i + 1] \in Nat
    BY <1>2, ElementOfSeq
  <2> QED
    BY <2>1, <2>2
<1>10. ASSUME NEW i \in 1..m PROVE s[i] = s[i - 1] + flight'[i]
  <2>1. /\ i \in 0..m /\ i - 1 \in 0..m /\ i + 1 \in 1..(m + 1) /\ (i - 1) + 1 = i /\ (i + 1) - 1 = i
        /\ i \in 1..(m + 1)
    OBVIOUS
  <2>2. s[i] = sum[i + 1] - y /\ s[i - 1] = sum[i] - y /\ sum[i + 1] \in Nat /\ sum[i] \in Nat
    BY <2>1, <1>7, <1>6
  <2>3. sum[i + 1] = sum[i] + flight[i + 1]
    BY <2>1, <1>3
  <2>4. PICK z \in Nat : flight'[i] = z /\ flight[i + 1] = z
    BY <1>9
  <2>5. PICK u, v \in Nat : u = sum[i] /\ v = sum[i + 1]
    BY <2>2
  <2>6. v = u + z
    BY <2>3, <2>4, <2>5
  <2>7. v - y = (u - y) + z
    BY <2>6, <1>4
  <2> QED
    BY <2>2, <2>4, <2>5, <2>7
<1>11. ASSUME NEW i \in 0..m PROVE s[i] <= x - y
  <2>0. i + 1 \in 0..(m + 1)
    OBVIOUS
  <2>1. sum[i + 1] <= x /\ sum[i + 1] \in Nat /\ s[i] = sum[i + 1] - y
    BY <2>0, <1>3, <1>7
  <2> QED
    BY <2>1
<1>12. ASSUME NEW i \in 0..m, NEW j \in 0..m, i <= j PROVE s[i] <= s[j]
  <2>1. i + 1 \in 0..(m + 1) /\ j + 1 \in 0..(m + 1) /\ i + 1 <= j + 1
    BY <1>12
  <2>2. sum[i + 1] <= sum[j + 1] /\ sum[i + 1] \in Nat /\ sum[j + 1] \in Nat
    BY <2>1, <1>3
  <2> QED
    BY <2>2, <1>7
<1>13. PICK z \in Nat : z = x - y
  BY <1>8
<1>14. Flown(z)'
  BY <1>8, <1>9, <1>10, <1>11, <1>12, <1>13 DEF Flown
<1> QED
  BY <1>1, <1>4, <1>13, <1>14

\* Nothing is relayed before the first offer.
LEMMA BytesInit == Peers!Init => BytesInv
<1> SUFFICES ASSUME Peers!Init PROVE BytesInv
  OBVIOUS
<1>1. /\ \A k \in PeerKeys : peers[k] = Peers!NoPeer
      /\ relayed = 0 /\ pendingBytes = 0 /\ flight = <<>> /\ billed = 0 /\ lost = 0
  BY DEF Peers!Init
<1>2. BytesTypes
  BY <1>1, EmptySeq DEF BytesTypes
<1>3. Peers!RelayDelta(PeerKeys) = 0
  BY <1>1 DEF Peers!RelayDelta, Peers!Delta, Peers!Live
<1>4. Flown(0)
  <2> DEFINE s == [i \in 0..0 |-> 0]
  <2>1. Len(flight) = 0 /\ s \in [0..Len(flight) -> Nat] /\ s[0] = 0 /\ s[Len(flight)] = 0
    BY <1>1, EmptySeq
  <2>2. \A i \in 0..Len(flight) : i = 0
    BY <2>1
  <2>3. \A i \in 1..Len(flight) : FALSE
    BY <2>1
  <2> HIDE DEF s
  <2> QED
    BY <2>1, <2>2, <2>3 DEF Flown
<1> QED
  BY <1>1, <1>2, <1>3, <1>4 DEF BytesInv

\* The accounting is that of every snapshot the next report takes, of the
\* collections that the deadline cuts short, and of reports that fail.
LEMMA BytesStep ==
    ASSUME SignalsInv, BytesInv, [Peers!Next]_(Peers!vars)
    PROVE  BytesInv'
<1>0. /\ PeerTypes /\ PeerTypes' /\ BytesTypes /\ peers \in [PeerKeys -> PeerRecords \cup {Peers!NoPeer}]
      /\ SignalsInv' /\ Peers!Live \subseteq PeerKeys
  BY SignalsStep DEF SignalsInv, BytesInv, PeerTypes, Peers!Live
<1>n. /\ relayed \in Nat /\ pendingBytes \in Nat /\ billed \in Nat /\ lost \in Nat /\ flight \in Seq(Nat)
  BY <1>0 DEF BytesTypes
<1>s. ASSUME NEW K PROVE Peers!Slow(K) \subseteq SUBSET K
  BY DEF Peers!Slow
<1>u. ASSUME peers' = peers PROVE Settled({})
  BY <1>u DEF Settled, SameBytes
<1>1. CASE Peers!Tick \/ Peers!SendCandidate \/ UNCHANGED Peers!vars
  BY <1>0, <1>1, <1>u, BytesStay DEF Peers!Tick, Peers!SendCandidate, Peers!vars
<1>2. CASE Peers!Poll
  <2>1. PICK gone \in SUBSET Peers!Live, slow \in SUBSET Peers!Live :
          /\ slow \subseteq gone
          /\ peers' = [k \in PeerKeys |->
                         IF k \in gone THEN Peers!NoPeer
                         ELSE IF k \in Peers!Pending THEN [peers[k] EXCEPT !.gathered = 2]
                         ELSE peers[k]]
          /\ Peers!ClosePeers(gone, slow)
    BY <1>2, <1>s DEF Peers!Poll
  <2>2. ASSUME NEW k \in PeerKeys PROVE (k \in gone => AllCounted(k)) /\ (k \notin gone => SameBytes(k))
    <3>1. CASE k \in gone
      BY <2>1, <3>1 DEF AllCounted
    <3>2. CASE k \notin gone /\ k \in Peers!Pending
      <4>1. peers[k] \in PeerRecords /\ peers'[k] = [peers[k] EXCEPT !.gathered = 2] /\ peers[k] # Peers!NoPeer
        BY <2>1, <3>2, <1>0, PeerFacts DEF Peers!Pending, Peers!Live
      <4>2. peers'[k] \in PeerRecords /\ peers'[k].total = peers[k].total /\ peers'[k].counted = peers[k].counted
        BY <4>1 DEF PeerRecords
      <4>3. peers'[k] # Peers!NoPeer
        BY <4>2 DEF PeerRecords, Peers!NoPeer
      <4> QED
        BY <3>2, <4>1, <4>2, <4>3 DEF SameBytes
    <3>3. CASE k \notin gone /\ k \notin Peers!Pending
      BY <2>1, <3>3 DEF SameBytes
    <3> QED
      BY <3>1, <3>2, <3>3
  <2>3. Settled(gone) /\ gone \in SUBSET PeerKeys /\ slow \in SUBSET gone
    BY <2>1, <2>2, <1>0 DEF Settled
  <2> QED
    BY <2>1, <2>3, <1>0, BytesClosed
<1>c. ASSUME NEW K \in SUBSET Peers!Live, peers' = Peers!Counted(K) PROVE Settled(K)
  <2>1. ASSUME NEW k \in PeerKeys PROVE (k \in K => AllCounted(k)) /\ (k \notin K => SameBytes(k))
    <3>1. CASE k \in K
      <4>1. peers[k] \in PeerRecords /\ peers'[k] = [peers[k] EXCEPT !.counted = peers[k].total]
        BY <3>1, <1>0, <1>c, PeerFacts DEF Peers!Counted, Peers!Live
      <4> QED
        BY <3>1, <4>1 DEF PeerRecords, AllCounted
    <3>2. CASE k \notin K
      BY <3>2, <1>c DEF Peers!Counted, SameBytes
    <3> QED
      BY <3>1, <3>2
  <2> QED
    BY <2>1 DEF Settled
<1>3. CASE Peers!UsageTick
  <2>1. PICK slow \in Peers!Slow(Peers!Live), token \in BOOLEAN :
          LET delta == pendingBytes + Peers!RelayDelta(Peers!Live \ slow) IN
          /\ peers' = Peers!Counted(Peers!Live \ slow)
          /\ pendingBytes' = 0
          /\ flight' = IF token /\ delta > 0 THEN Append(flight, delta) ELSE flight
          /\ lost' = IF token THEN lost ELSE lost + delta
          /\ UNCHANGED <<relayed, billed>>
    BY <1>3 DEF Peers!UsageTick
  <2>2. PICK K \in SUBSET Peers!Live : K = Peers!Live \ slow
    OBVIOUS
  <2>3. Settled(K) /\ PeerKeys \cap K = K /\ K \subseteq PeerKeys
    BY <2>1, <2>2, <1>0, <1>c
  <2>4. PICK a \in Nat : a = Peers!RelayDelta(K)
    BY <2>3, <1>0, DeltaSplit
  <2>5. PICK y \in Nat : y = pendingBytes + a
    BY <1>n
  <2>6. /\ pendingBytes' = 0 /\ UNCHANGED <<relayed, billed>>
        /\ flight' = IF token /\ y > 0 THEN Append(flight, y) ELSE flight
        /\ lost' = IF token THEN lost ELSE lost + y
    BY <2>1, <2>2, <2>4, <2>5
  <2>7. CASE ~token \/ y = 0
    <3>1. flight' = flight /\ lost' \in Nat /\ pendingBytes' \in Nat /\ lost' = lost + y
      BY <2>6, <2>7, <1>n
    <3>2. pendingBytes' + lost' = (pendingBytes + lost) + a
      BY <2>5, <2>6, <3>1, <1>n
    <3> QED
      BY <3>1, <3>2, <2>3, <2>4, <2>6, <1>0, BytesMove
  <2>8. CASE token /\ y # 0
    <3>1. flight' = Append(flight, y) /\ lost' = lost
      BY <2>6, <2>8
    <3>2. PICK x \in Nat :
            Flown(x) /\ relayed = billed + pendingBytes + lost + Peers!RelayDelta(PeerKeys) + x
      BY DEF BytesInv
    <3>3. Flown(x + y)' /\ flight' \in Seq(Nat)
      BY <3>1, <3>2, <1>n, ReportLeaves
    <3>4. PICK b \in Nat : b = Peers!RelayDelta(PeerKeys)' /\ Peers!RelayDelta(PeerKeys) = b + a
      BY <2>3, <2>4, <1>0, DeltaSplit, SettledDelta
    <3>5. relayed = billed + pendingBytes + lost + (b + a) + x
      BY <3>2, <3>4
    <3>6. PICK z \in Nat : z = x + y
      BY <3>2
    <3>7. relayed' = billed' + pendingBytes' + lost' + b + z
      BY <3>1, <3>5, <3>6, <2>5, <2>6, <1>n
    <3>8. BytesTypes'
      BY <3>1, <3>3, <2>6, <2>3, <1>0, <1>n, SettledDelta DEF BytesTypes
    <3>9. Flown(z)'
      BY <3>3, <3>6
    <3> QED
      BY <3>4, <3>7, <3>8, <3>9 DEF BytesInv
  <2> QED
    BY <2>7, <2>8
<1>4. CASE Peers!ConnectionEnds
  <2>1. PICK slow \in Peers!Slow(Peers!Live) : Peers!ClosePeers(Peers!Live, slow)
    BY <1>4 DEF Peers!ConnectionEnds
  <2>2. PICK K \in SUBSET PeerKeys : K = Peers!Live
    BY <1>0
  <2>3. peers' = [k \in PeerKeys |-> Peers!NoPeer] /\ slow \in SUBSET K
    BY <1>4, <2>2, <1>s DEF Peers!ConnectionEnds
  <2>4. Settled(K)
    BY <2>2, <2>3 DEF Settled, SameBytes, AllCounted, Peers!Live
  <2> QED
    BY <2>1, <2>2, <2>3, <2>4, <1>0, BytesClosed
<1>r. ASSUME NEW k \in PeerKeys, peers[k] # Peers!NoPeer, NEW r \in PeerRecords,
             peers' = [peers EXCEPT ![k] = r], r.total = peers[k].total, r.counted = peers[k].counted
      PROVE  Settled({})
  <2>1. \A j \in PeerKeys : peers'[j] = IF j = k THEN r ELSE peers[j]
    BY <1>r, <1>0
  <2>2. r # Peers!NoPeer
    BY DEF PeerRecords, Peers!NoPeer
  <2> QED
    BY <1>r, <2>1, <2>2 DEF Settled, SameBytes
<1>d. ASSUME NEW k \in PeerKeys, NEW r, peers' = [peers EXCEPT ![k] = r],
             r = Peers!NoPeer \/ r.total = r.counted
      PROVE  Settled({k})
  <2>1. \A j \in PeerKeys : peers'[j] = IF j = k THEN r ELSE peers[j]
    BY <1>d, <1>0
  <2> QED
    BY <1>d, <2>1 DEF Settled, SameBytes, AllCounted
<1>5. ASSUME NEW k \in PeerKeys, NEW to \in {"connected", "disconnected", "failed", "closed"},
             Peers!StateChanges(k, to)
      PROVE  BytesInv'
  <2> DEFINE r == [peers[k] EXCEPT !.state = to]
  <2>1. peers[k] \in PeerRecords /\ peers[k] # Peers!NoPeer
    BY <1>5, <1>0, PeerFacts DEF Peers!StateChanges, Peers!Live
  <2>2. r \in PeerRecords /\ r.total = peers[k].total /\ r.counted = peers[k].counted
    BY <2>1 DEF PeerRecords
  <2>3. peers' = [peers EXCEPT ![k] = r] /\ UNCHANGED Peers!bytes
    BY <1>5 DEF Peers!StateChanges
  <2> HIDE DEF r
  <2> QED
    BY <2>1, <2>2, <2>3, <1>r, <1>0, BytesStay
<1>6. ASSUME NEW k \in PeerKeys, Peers!Gathers(k) PROVE BytesInv'
  <2> DEFINE r == [peers[k] EXCEPT !.gathered = 1]
  <2>1. peers[k] \in PeerRecords /\ peers[k] # Peers!NoPeer
    BY <1>6, <1>0, PeerFacts DEF Peers!Gathers, Peers!Live
  <2>2. r \in PeerRecords /\ r.total = peers[k].total /\ r.counted = peers[k].counted
    BY <2>1 DEF PeerRecords
  <2>3. peers' = [peers EXCEPT ![k] = r] /\ UNCHANGED Peers!bytes
    BY <1>6 DEF Peers!Gathers
  <2> HIDE DEF r
  <2> QED
    BY <2>1, <2>2, <2>3, <1>r, <1>0, BytesStay
<1>7. ASSUME NEW k \in PeerKeys, Peers!PairLeaves(k) PROVE BytesInv'
  <2> DEFINE r == [peers[k] EXCEPT !.total = 0, !.counted = 0]
  <2>1. peers[k] \in PeerRecords /\ k \in Peers!Live /\ PeerKeys \cap {k} = {k}
    BY <1>7, <1>0, PeerFacts DEF Peers!PairLeaves, Peers!Live
  <2>2. r.total = r.counted
    BY <2>1 DEF PeerRecords
  <2>3. /\ peers' = [peers EXCEPT ![k] = r] /\ lost' = lost + peers[k].total - peers[k].counted
        /\ UNCHANGED <<relayed, pendingBytes, flight, billed>>
    BY <1>7, <1>0, <2>1 DEF Peers!PairLeaves, PeerRecords
  <2> HIDE DEF r
  <2>4. Settled({k})
    BY <2>2, <2>3, <1>d
  <2>5. PICK a \in Nat : a = peers[k].total - peers[k].counted
    BY <2>1, <1>0 DEF PeerRecords, BytesTypes, Peers!Live
  <2>6. Peers!RelayDelta({k}) = a
    BY <2>1, <2>5, <1>0, DeltaOfOne
  <2>7. lost' = lost + a
    BY <2>1, <2>3, <2>5, <1>n DEF PeerRecords
  <2>8. /\ lost' \in Nat /\ pendingBytes' \in Nat /\ pendingBytes' + lost' = (pendingBytes + lost) + a
    BY <2>3, <2>7, <1>n
  <2> QED
    BY <2>1, <2>3, <2>4, <2>6, <2>8, <1>0, BytesMove
<1>8. ASSUME NEW k \in PeerKeys, Peers!Relays(k) PROVE BytesInv'
  <2> DEFINE r == [peers[k] EXCEPT !.total = peers[k].total + 1]
  <2>1. peers[k] \in PeerRecords /\ k \in Peers!Live
    BY <1>8, <1>0, PeerFacts DEF Peers!Relays, Peers!Live
  <2>2. r \in PeerRecords /\ r.total = peers[k].total + 1 /\ r.counted = peers[k].counted
    BY <2>1 DEF PeerRecords
  <2>3. /\ peers' = [peers EXCEPT ![k] = r] /\ relayed' = relayed + 1
        /\ UNCHANGED <<pendingBytes, flight, billed, lost>>
    BY <1>8, <1>0 DEF Peers!Relays
  <2> HIDE DEF r
  <2>4. \A j \in PeerKeys : peers'[j] = IF j = k THEN r ELSE peers[j]
    BY <2>3, <1>0
  <2>5. r # Peers!NoPeer /\ peers[k].total \in Nat /\ peers[k].counted \in Nat
    BY <2>1, <2>2 DEF PeerRecords, Peers!NoPeer
  <2>6. BytesTypes'
    <3>1. ASSUME NEW j \in PeerKeys, peers'[j] # Peers!NoPeer PROVE peers'[j].counted <= peers'[j].total
      <4>1. CASE j = k
        <5>1. peers[k].counted <= peers[k].total
          BY <1>0, <2>1 DEF BytesTypes, Peers!Live
        <5> QED
          BY <4>1, <5>1, <2>2, <2>4, <2>5
      <4>2. CASE j # k
        BY <4>2, <3>1, <2>4, <1>0 DEF BytesTypes
      <4> QED
        BY <4>1, <4>2
    <3> QED
      BY <3>1, <2>3, <1>n DEF BytesTypes
  <2>7. Peers!RelayDelta(PeerKeys)' = Peers!RelayDelta(PeerKeys) + 1
    <3>1. Peers!Live' = Peers!Live
      BY <2>1, <2>4, <2>5 DEF Peers!Live
    <3>2. ASSUME NEW j PROVE Peers!Delta(j, PeerKeys)' = Peers!Delta(j, PeerKeys) + (IF j = k THEN 1 ELSE 0)
      <4>0. Peers!Delta(j, PeerKeys) \in Nat
        BY <1>0, DeltaNat
      <4>1. CASE j = k
        <5>1. Peers!Delta(k, PeerKeys) = peers[k].total - peers[k].counted
          BY <2>1 DEF Peers!Delta
        <5>2. Peers!Delta(k, PeerKeys)' = (peers[k].total + 1) - peers[k].counted
          BY <2>1, <2>2, <2>4, <3>1 DEF Peers!Delta
        <5> QED
          BY <4>1, <5>1, <5>2, <2>5
      <4>2. CASE j # k
        <5>1. Peers!Delta(j, PeerKeys)' = Peers!Delta(j, PeerKeys)
          BY <4>2, <3>1, <2>4 DEF Peers!Delta
        <5> QED
          BY <4>0, <4>2, <5>1
      <4> QED
        BY <4>1, <4>2
    <3>3. PICK a, b, c, d \in Nat :
            /\ a = Peers!Delta("session", PeerKeys) /\ b = Peers!Delta("stats", PeerKeys)
            /\ c = Peers!Delta("files", PeerKeys) /\ d = Peers!Delta("agent", PeerKeys)
      BY <1>0, DeltaNat
    <3>4. Peers!RelayDelta(PeerKeys) = a + b + c + d
      BY <3>3 DEF Peers!RelayDelta
    <3>5. Peers!RelayDelta(PeerKeys)' =
            (a + (IF "session" = k THEN 1 ELSE 0)) + (b + (IF "stats" = k THEN 1 ELSE 0))
              + (c + (IF "files" = k THEN 1 ELSE 0)) + (d + (IF "agent" = k THEN 1 ELSE 0))
      BY <3>2, <3>3 DEF Peers!RelayDelta
    <3>6. k \in {"session", "stats", "files", "agent"}
      BY PeersAssumption DEF Peers!PeersAssumption
    <3>7. CASE k = "session"
      BY <3>3, <3>4, <3>5, <3>7
    <3>8. CASE k = "stats"
      BY <3>3, <3>4, <3>5, <3>8
    <3>9. CASE k = "files"
      BY <3>3, <3>4, <3>5, <3>9
    <3>10. CASE k = "agent"
      BY <3>3, <3>4, <3>5, <3>10
    <3> QED
      BY <3>6, <3>7, <3>8, <3>9, <3>10
  <2>8. PICK x \in Nat :
          Flown(x) /\ relayed = billed + pendingBytes + lost + Peers!RelayDelta(PeerKeys) + x
    BY DEF BytesInv
  <2>9. Flown(x)'
    BY <2>3, <2>8 DEF Flown
  <2>10. PICK b \in Nat : b = Peers!RelayDelta(PeerKeys)
    BY <1>0, DeltaSplit
  <2>11. relayed' = billed' + pendingBytes' + lost' + (b + 1) + x
    BY <2>3, <2>8, <2>10, <1>n
  <2>12. relayed' = billed' + pendingBytes' + lost' + Peers!RelayDelta(PeerKeys)' + x
    BY <2>7, <2>10, <2>11
  <2> QED
    BY <2>6, <2>8, <2>9, <2>12 DEF BytesInv
<1>9. ASSUME NEW k \in PeerKeys, Peers!Offer(k) PROVE BytesInv'
  <2>1. CASE Peers!OfferFails(k) \/ \E ttl \in Ttls : Peers!OfferSkipped(k, ttl)
    BY <2>1, <1>0, <1>u, BytesStay DEF Peers!OfferFails, Peers!OfferSkipped
  <2>2. ASSUME NEW ttl \in Ttls, NEW o \in {"answered", "refused", "timeout"}, Peers!OfferTaken(k, ttl, o)
        PROVE  BytesInv'
    <3>1. PICK slow \in Peers!Slow({k} \cap Peers!Live) :
            IF Peers!ShouldCreate(k) \/ o = "timeout" THEN Peers!ClosePeers({k}, slow) ELSE UNCHANGED Peers!bytes
      BY <2>2 DEF Peers!OfferTaken
    <3>2. PICK st : \/ o = "timeout" /\ peers' = [peers EXCEPT ![k] = Peers!NoPeer]
                    \/ o # "timeout" /\ peers' = [peers EXCEPT ![k] = Peers!Accepted(k, st)]
                       /\ st \in {"new", "connecting"}
      BY <2>2 DEF Peers!OfferTaken
    <3>3. CASE Peers!ShouldCreate(k) \/ o = "timeout"
      <4>1. PICK r : /\ peers' = [peers EXCEPT ![k] = r]
                     /\ r = Peers!NoPeer \/ r = Peers!NewPeer(offers + 1, st)
        BY <3>2, <3>3 DEF Peers!Accepted
      <4>2. r = Peers!NoPeer \/ r.total = r.counted
        BY <4>1 DEF Peers!NewPeer
      <4>s. slow \in SUBSET ({k} \cap Peers!Live)
        BY <1>s
      <4>3. Settled({k}) /\ slow \in SUBSET {k} /\ {k} \in SUBSET PeerKeys
        BY <4>1, <4>2, <4>s, <1>d
      <4> QED
        BY <3>1, <3>3, <4>3, <1>0, BytesClosed
    <3>4. CASE ~(Peers!ShouldCreate(k) \/ o = "timeout")
      <4>1. peers[k] \in PeerRecords /\ peers[k] # Peers!NoPeer
        BY <1>0, <3>4, PeerFacts DEF Peers!ShouldCreate, Peers!Live
      <4>2. PICK r : r = [peers[k] EXCEPT !.state = IF peers[k].state = "new" THEN st ELSE peers[k].state]
        OBVIOUS
      <4>3. peers' = [peers EXCEPT ![k] = r] /\ st \in {"new", "connecting"}
        BY <3>2, <3>4, <4>2 DEF Peers!Accepted
      <4>4. r \in PeerRecords /\ r.total = peers[k].total /\ r.counted = peers[k].counted
        BY <4>1, <4>2, <4>3 DEF PeerRecords
      <4> QED
        BY <3>1, <3>4, <4>1, <4>3, <4>4, <1>r, <1>0, BytesStay
    <3> QED
      BY <3>3, <3>4
  <2> QED
    BY <1>9, <2>1, <2>2 DEF Peers!Offer
<1>10. CASE Peers!SessionOffer \/ Peers!StatsOffer \/ Peers!FilesOffer \/ Peers!AgentOffer
  <2>1. PICK k \in PeerKeys : Peers!Offer(k)
    BY <1>10 DEF Peers!SessionOffer, Peers!StatsOffer, Peers!FilesOffer, Peers!AgentOffer, Peers!Offer
  <2> QED
    BY <2>1, <1>9
<1>11. ASSUME NEW K \in SUBSET Peers!Live, Peers!UsageTimeout(K) PROVE BytesInv'
  <2>1. /\ peers' = Peers!Counted(K) /\ lost' = lost + Peers!RelayDelta(K)
        /\ UNCHANGED <<relayed, pendingBytes, flight, billed>>
    BY <1>11 DEF Peers!UsageTimeout
  <2>2. Settled(K) /\ PeerKeys \cap K = K
    BY <2>1, <1>0, <1>c
  <2>3. PICK a \in Nat : a = Peers!RelayDelta(K)
    BY <2>2, <1>0, DeltaSplit
  <2>4. /\ lost' \in Nat /\ pendingBytes' \in Nat /\ pendingBytes' + lost' = (pendingBytes + lost) + a
    BY <2>1, <2>3, <1>n
  <2> QED
    BY <2>1, <2>2, <2>3, <2>4, <1>0, BytesMove
<1>12. ASSUME NEW ok \in BOOLEAN, Peers!Reported(ok) PROVE BytesInv'
  <2>1. PICK y : y = flight[1]
    OBVIOUS
  <2>2. /\ flight # <<>> /\ flight' = Tail(flight) /\ UNCHANGED <<peers, relayed, pendingBytes>>
        /\ billed' = (IF ok THEN billed + y ELSE billed) /\ lost' = (IF ok THEN lost ELSE lost + y)
    BY <1>12, <2>1 DEF Peers!Reported
  <2>3. PICK x \in Nat :
          Flown(x) /\ relayed = billed + pendingBytes + lost + Peers!RelayDelta(PeerKeys) + x
    BY DEF BytesInv
  <2>4. flight' \in Seq(Nat) /\ y \in Nat /\ x - y \in Nat /\ Flown(x - y)'
    BY <2>1, <2>2, <2>3, <1>n, ReportEnds
  <2>5. PICK z \in Nat : z = x - y
    BY <2>4
  <2>6. PICK b \in Nat : b = Peers!RelayDelta(PeerKeys)
    BY <1>0, DeltaSplit
  <2>7. Peers!RelayDelta(PeerKeys)' = b
    BY <2>2, <2>6 DEF Peers!RelayDelta, Peers!Delta, Peers!Live
  <2>8. billed' \in Nat /\ lost' \in Nat /\ billed' + lost' = (billed + lost) + y
    BY <2>2, <2>4, <1>n
  <2>9. relayed' = billed' + pendingBytes' + lost' + b + z
    <3>1. relayed = billed + pendingBytes + lost + b + x /\ relayed' = relayed /\ pendingBytes' = pendingBytes
      BY <2>2, <2>3, <2>6
    <3>2. x = z + y
      BY <2>3, <2>4, <2>5
    <3>3. relayed = (billed + lost) + y + pendingBytes + b + z
      BY <3>1, <3>2, <2>4, <2>5, <2>6, <1>n
    <3>4. relayed = (billed' + lost') + pendingBytes + b + z
      BY <3>3, <2>8
    <3> QED
      BY <3>1, <3>4, <2>5, <2>6, <2>8, <1>n
  <2>10. BytesTypes'
    BY <2>2, <2>4, <2>8, <1>0, <1>n DEF BytesTypes
  <2>11. Flown(z)'
    BY <2>4, <2>5
  <2> QED
    BY <2>7, <2>9, <2>10, <2>11 DEF BytesInv
<1> QED
  BY <1>1, <1>2, <1>3, <1>4, <1>5, <1>6, <1>7, <1>8, <1>10, <1>11, <1>12 DEF Peers!Next

\* BytesAccounted, of MCHost: for any number of offers, reports and bytes, every
\* byte that is relayed is billed, on its way to the backend, kept for the next
\* report, not counted yet, or lost to a timeout or a failure that the code
\* lets happen; no byte is reported twice (webrtc_peer.rs: collect_relay_delta,
\* webrtc_manager.rs: close_peer, daemon.rs 1230-1256, api.rs 676-707).
THEOREM BytesAreAccounted == Peers!Init /\ [][Peers!Next]_(Peers!vars) => []BytesAccounted
<1>1. SignalsInv /\ BytesInv => BytesAccounted
  <2> SUFFICES ASSUME SignalsInv, BytesInv PROVE BytesAccounted
    OBVIOUS
  <2>0. /\ PeerTypes /\ BytesTypes /\ relayed \in Nat /\ pendingBytes \in Nat /\ billed \in Nat /\ lost \in Nat
    BY DEF SignalsInv, BytesInv, BytesTypes
  <2>1. PICK x \in Nat :
          Flown(x) /\ relayed = billed + pendingBytes + lost + Peers!RelayDelta(PeerKeys) + x
    BY DEF BytesInv
  <2>2. PICK b \in Nat : b = Peers!RelayDelta(PeerKeys)
    BY <2>0, DeltaSplit
  <2>3. x <= relayed
    <3>1. relayed = billed + pendingBytes + lost + b + x
      BY <2>1, <2>2
    <3> QED
      BY <2>0, <2>1, <2>2, <3>1
  <2>4. PICK sum \in [0..Len(flight) -> Nat] :
          /\ sum[0] = 0 /\ \A i \in 1..Len(flight) : sum[i] = sum[i - 1] + flight[i]
          /\ \A i \in 0..Len(flight) : sum[i] <= x
          /\ sum[Len(flight)] = x
    BY <2>1 DEF Flown
  <2>5. ASSUME NEW i \in 0..Len(flight) PROVE sum[i] \in 0..relayed
    <3>1. sum[i] \in Nat /\ sum[i] <= x
      BY <2>4
    <3> QED
      BY <3>1, <2>0, <2>1, <2>3
  <2>6. sum \in [0..Len(flight) -> 0..relayed]
    BY <2>4, <2>5
  <2> QED
    BY <2>1, <2>4, <2>6 DEF BytesAccounted, Peers!BytesAccounted
<1>2. Peers!Init => SignalsInv /\ BytesInv
  BY SignalsInit, BytesInit
<1>3. SignalsInv /\ BytesInv /\ [Peers!Next]_(Peers!vars) => SignalsInv' /\ BytesInv'
  BY SignalsStep, BytesStep
<1> QED
  BY <1>1, <1>2, <1>3, PTL

-----------------------------------------------------------------------------
(* The composition.                                                        *)

\* Each component of the composition behaves as its own specification says.
LEMMA HostComponents ==
  Spec =>
    /\ Update!Spec /\ Service!Spec /\ Exposed!Spec /\ Stats!Spec /\ Marks!Spec /\ Pair!Spec
    /\ Peers!Init /\ [][Peers!Next]_(Peers!vars)
    /\ Transfer!Init /\ [][Transfer!Next]_(Transfer!vars)
<1>1. Init => /\ Update!Init /\ Service!Init /\ Exposed!Init /\ Stats!Init /\ Marks!Init
              /\ Pair!Init /\ Peers!Init /\ Transfer!Init
  BY DEF Init
<1>2. [Next]_vars => [Update!Next]_(Update!vars)
  BY DEF Next, Stay, vars, updateVars, Update!vars
<1>3. [Next]_vars => [Service!Next]_(Service!vars)
  BY DEF Next, Stay, vars, serviceVars, Service!vars
<1>4. [Next]_vars => [Exposed!Next]_(Exposed!vars)
  BY DEF Next, Stay, vars, portsVars, Exposed!vars
<1>5. [Next]_vars => [Stats!Next]_(Stats!vars)
  BY DEF Next, Stay, vars, statsVars, Stats!vars
<1>6. [Next]_vars => [Marks!Next]_(Marks!vars)
  BY DEF Next, Stay, vars, marksVars, Marks!vars
<1>7. [Next]_vars => [Pair!Next]_(Pair!vars)
  BY DEF Next, Stay, vars, pairVars, Pair!vars, Pair!files, Pair!counts, Pair!host
<1>8. [Next]_vars => [Peers!Next]_(Peers!vars)
  BY DEF Next, Stay, vars, peersVars, Peers!vars, Peers!bytes
<1>9. [Next]_vars => [Transfer!Next]_(Transfer!vars)
  BY DEF Next, Stay, vars, transferVars, Transfer!vars, Transfer!signals, Transfer!source,
         Transfer!target, Transfer!channel, Transfer!events
<1> QED
  BY <1>1, <1>2, <1>3, <1>4, <1>5, <1>6, <1>7, <1>8, <1>9, PTL
     DEF Spec, Update!Spec, Service!Spec, Exposed!Spec, Stats!Spec, Marks!Spec, Pair!Spec

\* What the run host checks of these components, for every value of the other
\* constants, when neither two updates nor two commands overlap.
THEOREM HostSound ==
  ASSUME ~UpdateOverlap, Disorder = {}
  PROVE  Spec => [](/\ UpdateSound /\ ServingReachable /\ PersistentOnlyTyped /\ MinuteSamples
                    /\ AttentionEarned /\ PairingSound /\ SignalsSound /\ BytesAccounted /\ TransferSound)
BY HostComponents, UpdateIsSound, ServingIsReachable, PhonePortsDoNotLast, MinutesReportedOnce,
   AttentionIsEarned, PairingIsSound, SignalsAreSound, BytesAreAccounted, TransferIsSound, PTL

=============================================================================
