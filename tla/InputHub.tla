------------------------------ MODULE InputHub ------------------------------
(***************************************************************************)
(* The input hub (input.rs): what players hold on their gamepads, as the   *)
(* running core reads it (input_state_callback in libretro.rs).            *)
(*                                                                         *)
(* A client sends whenever its gamepad changes and on a keepalive timer,   *)
(* over a WebSocket or over a data channel opened unordered and without    *)
(* retransmits, which loses and reorders; the sequence in a message is     *)
(* never looked at.  A message need not name every button and axis: the    *)
(* page's do, those of the documented protocol may name only what changed. *)
(* The hub writes what a message names over what it holds of the source,   *)
(* skips sources that have been quiet for STALE_TIMEOUT, merges the others *)
(* when the core asks, and adds the pulses of inserted coins.              *)
(*                                                                         *)
(* A source is a connection (its name ends in a fresh client id): it does  *)
(* not come back.  Time is counted in units, of 50 or 100 ms.  Axis values *)
(* a client sends are n / Unit; in the hub they are signed words of which  *)
(* AxisMin and AxisMax are the ends.  Ports do not interact; port is that  *)
(* of every message.                                                       *)
(***************************************************************************)
EXTENDS Integers, FiniteSets, SequencesExt

CONSTANTS Source, Button,
          Coin,      \* Button::Select
          Ordered,   \* the sources on a WebSocket, which loses, reorders, delays nothing
          Full,      \* the sources whose messages name every button and axis
          Trigger,   \* the axes that also press a button: [axis -> button]
          Axis,
          Pads,      \* for each source the states its gamepad may be in
          Neutral,   \* the state in which nothing is held
          port, MAX_PORTS,
          Unit,      \* denominator of the axis values clients send
          AxisMax,   \* i16::MAX; i16::MIN is -AxisMax - 1
          Stale, Pulse, Keepalive,
          MaxDelay,  \* assumption on the network: a message comes in time or never
          Losses     \* a longer run of lost messages is a disturbance

ASSUME HubAssumption ==
  /\ Axis # {} /\ DOMAIN Trigger \subseteq Axis /\ \A a \in DOMAIN Trigger : Trigger[a] \in Button
  /\ {AxisMax, Unit, Stale, Pulse, Keepalive} \subseteq Nat \ {0}
  /\ {MaxDelay, Losses, port, MAX_PORTS} \subseteq Nat
  /\ IsFiniteSet(Source) /\ Ordered \subseteq Source /\ Full \subseteq Source /\ Coin \in Button
  /\ Neutral = [buttons |-> {}, axes |-> [a \in Axis |-> 0]]
  /\ \A s \in Source : /\ Neutral \in Pads[s]
                       /\ Pads[s] \subseteq [buttons : SUBSET Button, axes : [Axis -> Int]]

VARIABLES pad,      \* what each player holds
          alive,    \* clients that run
          timer,    \* per client: units since its last keepalive
          flight,   \* per client: its messages on their way
          lost,     \* history: length of the present run of lost messages
          steady,   \* history: units since the gamepad changed or the network failed
          held,     \* history: units since some player last held a button
          coined,   \* history: the sources heard of by a coin since their last message
          per_port, \* sources of the port, each with its last update
          transient_buttons \* units left of each button's pulse

vars == <<pad, alive, timer, flight, lost, steady, held, coined, per_port, transient_buttons>>
client == <<pad, alive, timer, flight, lost, steady, held>>
hub == <<per_port, transient_buttons>>
-----------------------------------------------------------------------------
(* Axis values. *)

AxisMin == -AxisMax - 1

\* i16::abs in a release build: the least value is its own absolute value.
Abs16(x) == IF x = AxisMin THEN AxisMin ELSE IF x < 0 THEN -x ELSE x

\* n / d to the nearest integer, halves away from zero (f32::round).
Rounded(n, d) == IF n >= 0 THEN (2 * n + d) \div (2 * d) ELSE -((2 * (-n) + d) \div (2 * d))

clamp_axis(n) ==
  LET clamped == IF n > Unit THEN Unit ELSE IF n < -Unit THEN -Unit ELSE n
  IN IF clamped >= 0 THEN Rounded(clamped * AxisMax, Unit) ELSE Rounded(clamped * (-AxisMin), Unit)

\* Mutant: the later source wins, whatever its value.
last_axis(existing, candidate) == IF candidate # 0 THEN candidate ELSE existing

dominant_axis(existing, candidate) ==
  IF Abs16(candidate) > Abs16(existing) THEN candidate ELSE existing
-----------------------------------------------------------------------------
(* What the core reads. *)

\* Mutant: a source at the limit is stale already.
FreshBefore(s) == s \in DOMAIN per_port /\ per_port[s].age < Stale

\* Mutant: sources never go stale.
FreshAlways(s) == s \in DOMAIN per_port

Fresh(s) == s \in DOMAIN per_port /\ per_port[s].age <= Stale

\* The axis after the loop has read the sources in this order.
after_reading(order, axis) ==
  LET merged[i \in 0..Len(order)] ==
        IF i = 0 THEN 0 ELSE dominant_axis(merged[i - 1], per_port[order[i]].axes[axis])
  IN merged[Len(order)]

\* The sources are a hash map, read in any order.
merged_axis(axis) ==
  {after_reading(order, axis) : order \in SetToSeqs({s \in Source : Fresh(s)})}

\* The buttons some read of the port reports pressed.
merged_buttons ==
  IF DOMAIN per_port = {} THEN {}
  ELSE (UNION {per_port[s].buttons : s \in {x \in Source : Fresh(x)}})
       \cup {b \in Button : transient_buttons[b] > 0}
       \cup {Trigger[a] : a \in {x \in DOMAIN Trigger : \E v \in merged_axis(x) : v > AxisMax \div 4}}

Pressed(b) == port < MAX_PORTS /\ b \in merged_buttons

Deflected(a) == IF port < MAX_PORTS THEN merged_axis(a) ELSE {0}
-----------------------------------------------------------------------------
\* What a gamepad state presses, buttons and triggers.
Holds(p, b) ==
  b \in p.buttons \/ \E a \in DOMAIN Trigger : Trigger[a] = b /\ clamp_axis(p.axes[a]) > AxisMax \div 4

\* What the hub's entry of a source presses.
Keeps(entry, b) ==
  b \in entry.buttons \/ \E a \in DOMAIN Trigger : Trigger[a] = b /\ entry.axes[a] > AxisMax \div 4

\* Sources of which a message can only be missed until the next one.
Reliable == Full \cup Ordered

Settle == Keepalive * (Losses + 1) + 2 * MaxDelay + 1
Ghost == Stale + MaxDelay

Init ==
  /\ pad = [s \in Source |-> Neutral]
  /\ alive = Source
  /\ timer = [s \in Source |-> 0]
  /\ flight = [s \in Source |-> {}]
  /\ lost = [s \in Source |-> 0]
  /\ steady = [s \in Source |-> 0]
  /\ held = [b \in Button |-> Ghost + 1]
  /\ coined = {}
  /\ per_port = << >>
  /\ transient_buttons = [b \in Button |-> 0]

\* The message that takes the gamepad to state p: all of it, or what changes.
Message(s, p) ==
  [pad |-> p, age |-> 0,
   buttons |-> {b \in Button : s \in Full \/ (b \in p.buttons) # (b \in pad[s].buttons)},
   axes |-> {a \in Axis : s \in Full \/ p.axes[a] # pad[s].axes[a]}]

\* The network takes the message or not.
Sends(s, p, arrives) ==
  /\ s \in Ordered => arrives /\ flight[s] = {}
  /\ flight' = [flight EXCEPT ![s] = IF arrives THEN @ \cup {Message(s, p)} ELSE @]
  /\ lost' = [lost EXCEPT ![s] = IF arrives THEN 0 ELSE IF @ > Losses THEN @ ELSE @ + 1]

\* The player presses or lets go (sendInput on change); bound: once per unit.
move(s, p, arrives) ==
  /\ s \in alive /\ steady[s] > 0 /\ p \in Pads[s] \ {pad[s]}
  /\ pad' = [pad EXCEPT ![s] = p]
  /\ held' = [b \in Button |-> IF Holds(p, b) THEN 0 ELSE held[b]]
  /\ steady' = [steady EXCEPT ![s] = 0]
  /\ Sends(s, p, arrives)
  /\ UNCHANGED <<alive, timer, coined, hub>>

\* The keepalive timer sends the same again, or that nothing changed.
keepalive(s, arrives) ==
  /\ s \in alive /\ timer[s] > 0
  /\ timer' = [timer EXCEPT ![s] = 0]
  /\ Sends(s, pad[s], arrives)
  /\ steady' = [steady EXCEPT ![s] = IF lost'[s] > Losses THEN 0 ELSE @]
  /\ UNCHANGED <<pad, alive, held, coined, hub>>

Rests(f, s, rest) == [f EXCEPT ![s] = rest]

\* The tab is closed or put to sleep; what it sent may still come.
Silences(s) ==
  /\ alive' = alive \ {s}
  /\ pad' = Rests(pad, s, Neutral)
  /\ timer' = Rests(timer, s, 0) /\ lost' = Rests(lost, s, 0) /\ steady' = Rests(steady, s, 0)

falls_silent(s) ==
  /\ s \in alive
  /\ Silences(s)
  /\ UNCHANGED <<flight, held, coined, hub>>

\* The maps of an InputUpdate: the buttons and axes the message names.
to_input_update(m) == [buttons |-> [b \in m.buttons |-> b \in m.pad.buttons],
                       axes |-> [a \in m.axes |-> m.pad.axes[a]]]

Blank == [buttons |-> {}, age |-> 0, axes |-> [a \in Axis |-> 0]]
EntryOf(s) == IF s \in DOMAIN per_port THEN per_port[s] ELSE Blank

\* Mutant: a release is not written.
merged_presses(entry, update) ==
  [buttons |-> entry.buttons \cup {b \in DOMAIN update.buttons : update.buttons[b]}, age |-> 0,
   axes |-> [a \in Axis |-> IF a \in DOMAIN update.axes THEN clamp_axis(update.axes[a]) ELSE entry.axes[a]]]

\* What the update does not name stays as it is.
merged_entry(entry, update) ==
  [buttons |-> {b \in Button : IF b \in DOMAIN update.buttons THEN update.buttons[b] ELSE b \in entry.buttons},
   axes |-> [a \in Axis |-> IF a \in DOMAIN update.axes THEN clamp_axis(update.axes[a]) ELSE entry.axes[a]],
   age |-> 0]

\* A message of any age is written over what the hub holds.
apply_update(s, m) ==
  /\ m \in flight[s]
  /\ flight' = [flight EXCEPT ![s] = @ \ {m}]
  /\ IF port >= MAX_PORTS THEN UNCHANGED <<per_port, coined>>
     ELSE /\ per_port' = [x \in DOMAIN per_port \cup {s} |->
                            IF x # s THEN per_port[x] ELSE merged_entry(EntryOf(s), to_input_update(m))]
          /\ coined' = coined \ {s}
  /\ UNCHANGED <<pad, alive, timer, lost, steady, held, transient_buttons>>

\* An inserted coin presses Select for a while, and makes the source count as heard from.
pulse_button(s, b) ==
  /\ s \in alive /\ port < MAX_PORTS
  /\ per_port' = [x \in DOMAIN per_port \cup {s} |->
                    IF x # s THEN per_port[x] ELSE [EntryOf(s) EXCEPT !.age = 0]]
  /\ transient_buttons' = [transient_buttons EXCEPT ![b] = Pulse]
  /\ coined' = coined \cup {s}
  /\ UNCHANGED client

\* The server saw the connection end: on a WebSocket, after all it read from it.
remove_source(s) ==
  /\ s \in DOMAIN per_port
  /\ s \in Ordered => flight[s] = {}
  /\ Silences(s)
  /\ per_port' = [x \in DOMAIN per_port \ {s} |-> per_port[x]]
  /\ coined' = coined \ {s}
  /\ UNCHANGED <<flight, held, transient_buttons>>

Older(age, limit) == IF age > limit THEN age ELSE age + 1

\* One unit of time passes; timers fire and messages arrive when they are due.
tick ==
  /\ \A s \in Source : /\ s \in alive => timer[s] < Keepalive
                       /\ \A m \in flight[s] : s \notin Ordered /\ m.age < MaxDelay
  /\ timer' = [s \in Source |-> IF s \in alive THEN timer[s] + 1 ELSE 0]
  /\ flight' = [s \in Source |-> {[m EXCEPT !.age = @ + 1] : m \in flight[s]}]
  /\ steady' = [s \in Source |-> IF s \notin alive THEN 0 ELSE Older(steady[s], Settle - 1)]
  /\ held' = [b \in Button |-> IF \E s \in alive : Holds(pad[s], b) THEN 0 ELSE Older(held[b], Ghost)]
  /\ per_port' = [s \in DOMAIN per_port |-> [per_port[s] EXCEPT !.age = Older(@, Stale)]]
  /\ transient_buttons' = [b \in Button |-> IF transient_buttons[b] = 0 THEN 0 ELSE transient_buttons[b] - 1]
  /\ UNCHANGED <<pad, alive, lost, coined>>

Next ==
  \/ \E s \in Source :
       \/ \E arrives \in BOOLEAN : (\E p \in Pads[s] : move(s, p, arrives)) \/ keepalive(s, arrives)
       \/ falls_silent(s)
       \/ \E m \in flight[s] : apply_update(s, m)
       \/ pulse_button(s, Coin)
       \/ remove_source(s)
  \/ tick

Spec == Init /\ [][Next]_vars
-----------------------------------------------------------------------------
(* What the core may rely on. *)

TypeOK ==
  /\ pad \in [Source -> UNION {Pads[s] : s \in Source}] /\ alive \subseteq Source
  /\ timer \in [Source -> 0..Keepalive] /\ lost \in [Source -> 0..(Losses + 1)]
  /\ steady \in [Source -> 0..Settle]
  /\ held \in [Button -> 0..(Ghost + 1)] /\ coined \subseteq Source
  /\ \A s \in Source : \A m \in flight[s] :
       m.pad \in Pads[s] /\ m.age \in 0..MaxDelay /\ m.buttons \subseteq Button /\ m.axes \subseteq Axis
  /\ DOMAIN per_port \subseteq Source
  /\ \A s \in DOMAIN per_port :
       /\ per_port[s].buttons \subseteq Button /\ per_port[s].age \in 0..(Stale + 1)
       /\ per_port[s].axes \in [Axis -> AxisMin..AxisMax]
  /\ transient_buttons \in [Button -> 0..Pulse]

(* However messages are lost or reordered, a button reads pressed only if some
   player held it within the last STALE_TIMEOUT (plus the delay of a message),
   or a pulse is on, or one source keeps it alive: one that inserted a coin
   after its last message (pulse_button refreshes the age of everything the
   source ever said), or one that names only what changes over a channel that
   loses messages (HubPartial shows why). *)
GhostsArePruned ==
  \A b \in Button : Pressed(b) =>
    \/ held[b] <= Ghost \/ transient_buttons[b] > 0
    \/ \E s \in Source : Fresh(s) /\ Keeps(per_port[s], b) /\ (s \in coined \/ s \notin Reliable)

(* A button held down reads pressed without interruption once it has been held
   for a few keepalives, although each keepalive may be late and single ones
   are lost: only a longer run of losses lets the source go stale. *)
HoldIsNotInterrupted ==
  \A s \in alive \cap Reliable : port < MAX_PORTS /\ steady[s] = Settle =>
    \A b \in Button : Holds(pad[s], b) => Pressed(b)

(* A button let go of is let go of in the hub after a few keepalives: they
   repair what a lost or overtaken release left behind (the documented
   heartbeat).  True where all sources are Reliable. *)
ReleasesAreHeard ==
  \A s \in alive \cap DOMAIN per_port : steady[s] = Settle =>
    \A b \in Button : Keeps(per_port[s], b) => Holds(pad[s], b)

\* How far a stick is from its centre.
Deflection(x) == IF x < 0 THEN -x ELSE x

(* Whatever order the map of sources is read in, an axis is that of the fresh
   source that deflects it furthest; a stick at the very end of the range
   (i16::MIN, its own absolute value) counts as one that is centred. *)
StrongestStickWins ==
  \A a \in Axis : \A v \in Deflected(a) :
    LET counted == {per_port[s].axes[a] : s \in {x \in Source : Fresh(x)}} \ {AxisMin}
    IN /\ v \in counted \cup {0}
       /\ \A x \in counted : Deflection(x) <= Deflection(v)
-----------------------------------------------------------------------------
(* What the documents and the tests lead to expect, and the code does not do. *)

(* A stick pushed to an end is not read as centred.  It is: -1.0 becomes
   i16::MIN, which dominant_axis never prefers. *)
DeflectionsReachTheCore ==
  \A a \in Axis : (\E s \in Source : Fresh(s) /\ per_port[s].axes[a] # 0) /\ port < MAX_PORTS
    => 0 \notin Deflected(a)

(* A pulse expires after its short duration: the coin's button is not read
   pressed afterwards, unless somebody held it.  It may be: the pulse refreshes
   an old press of the same source. *)
PulseExpires ==
  Pressed(Coin) => held[Coin] <= Ghost \/ transient_buttons[Coin] > 0
=============================================================================
