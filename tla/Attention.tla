------------------------------ MODULE Attention ------------------------------
(***************************************************************************)
(* When a terminal asks for its user: the reader thread of a PTY feeds     *)
(* every chunk to a byte-wise parser of escape sequences and what it finds *)
(* to a debouncer, the user's input unlocks both, and the output tick of   *)
(* the daemon takes an event once the terminal has been quiet for long     *)
(* enough (terminal_marks.rs; pty.rs and daemon.rs call it).               *)
(*                                                                         *)
(* Time is relative: fire_in counts down to fire_at, ages count up and     *)
(* stay at the bound they are compared with.  A byte of an OSC string that *)
(* is "A", "C", "D" or "N" stands for the whole body of a prompt, command  *)
(* start, command done or notification mark; other bytes are "x".          *)
(***************************************************************************)
EXTENDS Integers, Sequences, SequencesExt

CONSTANTS
    Chunks,         \* what one read of the PTY may return
    OscLimit,       \* OSC_BUFFER_LIMIT
    Quiet,          \* quiet_period
    MinCommand,     \* MIN_COMMAND_ATTENTION_DURATION
    IdleBytes,      \* IDLE_ARM_BYTES
    MinIdle         \* MIN_IDLE_ACTIVITY_DURATION

AttentionAssumption == {OscLimit, Quiet, MinCommand, IdleBytes, MinIdle} \subseteq Nat

None == "none"
Never == -1         \* an age of what has not happened
Marks == {"A", "C", "D", "N"}

VARIABLES
    parser,             \* MarkParser: state, osc_buf and osc_overflow
    pending,            \* kind of the armed event
    fire_in,            \* time until it may fire
    command_age,        \* time since command_started_at
    input_age,          \* time since user_input_at; had_user_input is input_age # Never
    bytes_since_arm,
    quiet_for,          \* how long the terminal has written nothing
    events              \* events taken since the last submitted input

debouncer == <<pending, fire_in, command_age>>
vars == <<parser, pending, fire_in, command_age, input_age, bytes_since_arm, quiet_for, events>>

Fresh == [state |-> "Normal", osc_buf |-> <<>>, osc_overflow |-> FALSE]

Init ==
    /\ parser = Fresh
    /\ pending = None /\ fire_in = 0 /\ command_age = Never
    /\ input_age = Never /\ bytes_since_arm = 0
    /\ quiet_for = 0 /\ events = 0

AtMost(n, bound) == IF n > bound THEN bound ELSE n
Older(age, bound) == IF age = Never THEN Never ELSE AtMost(age + 1, bound)

---------------------------------------------------------------------------
\* The parser: one byte of output, and the signals found so far.

Signal(p) ==
    IF ~p.osc_overflow /\ Len(p.osc_buf) = 1 /\ p.osc_buf[1] \in Marks
    THEN <<p.osc_buf[1]>> ELSE <<>>

\* An OSC string ends: its mark, if it is one, is a signal.
FinishOsc(f) == [p |-> Fresh, signals |-> f.signals \o Signal(f.p)]

Collect(p, b) ==
    IF p.osc_overflow THEN p
    ELSE IF Len(p.osc_buf) >= OscLimit THEN [p EXCEPT !.osc_overflow = TRUE]
    ELSE [p EXCEPT !.osc_buf = Append(@, b)]

StepNormal(f, b) ==
    CASE b = "esc" -> [f EXCEPT !.p.state = "Esc"]
      [] b = "bel" -> [f EXCEPT !.signals = Append(@, "bell")]
      [] OTHER -> f

StepEsc(f, b) ==
    CASE b = "]" -> [f EXCEPT !.p = [Fresh EXCEPT !.state = "Osc"]]
      [] b = "esc" -> f
      [] OTHER -> [f EXCEPT !.p.state = "Normal"]

StepOsc(f, b) ==
    CASE b = "bel" -> FinishOsc(f)
      [] b = "esc" -> [f EXCEPT !.p.state = "OscEsc"]
      [] OTHER -> [f EXCEPT !.p = Collect(@, b)]

StepOscEsc(f, b) ==
    IF b = "\\" THEN FinishOsc(f) ELSE [f EXCEPT !.p.state = "Osc"]

Step(f, b) ==
    CASE f.p.state = "Normal" -> StepNormal(f, b)
      [] f.p.state = "Esc" -> StepEsc(f, b)
      [] f.p.state = "Osc" -> StepOsc(f, b)
      [] f.p.state = "OscEsc" -> StepOscEsc(f, b)

Feed(chunk) == FoldLeft(Step, [p |-> parser, signals |-> <<>>], chunk)

---------------------------------------------------------------------------
\* The debouncer: d is its pending event, fire time and running command.

Arm(d, kind) == [pending |-> kind, fire_in |-> Quiet, command_age |-> Never]

Finishes(d) ==
    IF d.command_age >= MinCommand THEN Arm(d, "command_done")
    ELSE [d EXCEPT !.command_age = Never]

OnSignal(d, s) ==
    CASE s = "C" -> [d EXCEPT !.command_age = 0, !.pending = None]
      [] s \in {"A", "D"} -> Finishes(d)
      [] s = "bell" -> Arm(d, "bell")
      [] s = "N" -> Arm(d, "notification")

\* Mutant: only text does.
OnOutputPlain(d) == IF parser.state = "Normal" THEN [d EXCEPT !.fire_in = Quiet] ELSE d

\* Any output puts an armed event off.
OnOutput(d) == [pending |-> d.pending, fire_in |-> Quiet, command_age |-> d.command_age]

\* Much output, long after the input and with nothing else armed.
ArmsIdle(d, bytes) == d.pending = None /\ bytes >= IdleBytes /\ input_age >= MinIdle

\* The reader thread feeds a chunk.  Without input since the last event the
\* parser goes on and its signals are dropped.
OnBytes(chunk) ==
    LET f == Feed(chunk)
        signalled ==
            FoldLeft(OnSignal,
                     [pending |-> pending, fire_in |-> fire_in, command_age |-> command_age],
                     f.signals)
        d == OnOutput(signalled)
        bytes == AtMost(bytes_since_arm + Len(chunk), IdleBytes)
        idle == ArmsIdle(d, bytes)
    IN  /\ parser' = f.p
        /\ quiet_for' = 0
        /\ IF input_age = Never
           THEN UNCHANGED <<debouncer, bytes_since_arm>>
           ELSE /\ pending' = IF idle THEN "idle" ELSE d.pending
                /\ fire_in' = IF pending' = None THEN 0 ELSE IF idle THEN Quiet ELSE d.fire_in
                /\ command_age' = d.command_age
                /\ bytes_since_arm' = IF idle THEN 0 ELSE bytes
        /\ UNCHANGED <<input_age, events>>

\* The user submits a line; other keys change nothing.
NoteUserInput ==
    /\ input_age' = 0 /\ bytes_since_arm' = 0 /\ events' = 0
    /\ UNCHANGED <<parser, debouncer, quiet_for>>

\* The output tick takes the event and asks for new input before the next.
TakeReady ==
    /\ pending # None /\ fire_in = 0
    /\ pending' = None /\ bytes_since_arm' = 0 /\ input_age' = Never
    /\ events' = AtMost(events + 1, 2)
    /\ UNCHANGED <<parser, fire_in, command_age, quiet_for>>

Tick ==
    /\ fire_in' = IF fire_in = 0 THEN 0 ELSE fire_in - 1
    /\ command_age' = Older(command_age, MinCommand)
    /\ input_age' = Older(input_age, MinIdle)
    /\ quiet_for' = AtMost(quiet_for + 1, Quiet)
    /\ UNCHANGED <<parser, pending, bytes_since_arm, events>>

Next ==
    \/ \E chunk \in Chunks : OnBytes(chunk)
    \/ NoteUserInput
    \/ TakeReady
    \/ Tick

Spec == Init /\ [][Next]_vars

---------------------------------------------------------------------------
\* An armed event fires only after a full quiet period without any output, be
\* it text or escape sequences, and at most one fires for one submitted line,
\* whatever the interleaving of output, input, ticks and time
\* (terminal_marks.rs:440, 549 and 580).
AttentionEarned ==
    pending # None => fire_in + quiet_for >= Quiet /\ events = 0

=============================================================================
