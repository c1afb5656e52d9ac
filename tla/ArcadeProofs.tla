---------------------------- MODULE ArcadeProofs ----------------------------
(* Theorems about Arcade, for every number of machines, players and        *)
(* tickets, every time-out and every age of a clock reading: first one     *)
(* line and one machine, then the desk (calls and statuses), then lines,   *)
(* seats and cooldowns of all machines taken together, and last what one   *)
(* step may do to them and that it moves each player along its life cycle. *)
EXTENDS ArcadeLifecycle, SequenceTheorems, TLAPS

-----------------------------------------------------------------------------
\* Removing one position of a sequence closes the gap and keeps the rest.
LEMMA RemoveAtProperties ==
  ASSUME NEW S, NEW q \in Seq(S), NEW k \in 1 .. Len(q)
  PROVE  /\ RemoveAt(q, k) \in Seq(S)
         /\ Len(RemoveAt(q, k)) = Len(q) - 1
         /\ \A i \in 1 .. Len(q) - 1 :
              RemoveAt(q, k)[i] = IF i < k THEN q[i] ELSE q[i + 1]
<1> DEFINE front == SubSeq(q, 1, k - 1)
           back == SubSeq(q, k + 1, Len(q))
<1>1. /\ front \in Seq(S) /\ Len(front) = k - 1
      /\ \A i \in 1 .. k - 1 : front[i] = q[i]
  BY SubSeqProperties
<1>2. /\ back \in Seq(S) /\ Len(back) = Len(q) - k
      /\ \A i \in 1 .. Len(q) - k : back[i] = q[k + i]
  BY SubSeqProperties
<1>3. RemoveAt(q, k) = front \o back
  BY DEF RemoveAt
<1> HIDE DEF front, back
<1>4. /\ Len(q) \in Nat /\ k \in Nat
      /\ Len(front) + Len(back) = Len(q) - 1
  BY <1>1, <1>2, LenProperties
<1>5. /\ front \o back \in Seq(S)
      /\ Len(front \o back) = Len(front) + Len(back)
      /\ \A i \in 1 .. Len(front) + Len(back) :
           (front \o back)[i] = IF i <= Len(front) THEN front[i] ELSE back[i - Len(front)]
  BY <1>1, <1>2, ConcatProperties
<1>6. \A i \in 1 .. Len(q) - 1 : (front \o back)[i] = IF i < k THEN q[i] ELSE q[i + 1]
  <2> TAKE i \in 1 .. Len(q) - 1
  <2>1. CASE i < k
    BY <2>1, <1>1, <1>4, <1>5
  <2>2. CASE ~(i < k)
    <3>1. /\ i - (k - 1) \in 1 .. Len(q) - k
          /\ k + (i - (k - 1)) = i + 1
      BY <2>2, <1>4
    <3>2. (front \o back)[i] = back[i - (k - 1)]
      BY <2>2, <1>1, <1>4, <1>5
    <3>3. back[i - (k - 1)] = q[k + (i - (k - 1))]
      BY <3>1, <1>2
    <3> QED
      BY <2>2, <3>1, <3>2, <3>3
  <2> QED
    BY <2>1, <2>2
<1> QED
  BY <1>3, <1>4, <1>5, <1>6

(* Lines.                                                                  *)

\* The entries of a line.
LEMMA EntryOfLine ==
  ASSUME NEW q \in Seq(Entry)
  PROVE  /\ DOMAIN q = 1 .. Len(q) /\ Len(q) \in Nat
         /\ \A a \in DOMAIN q :
              q[a] \in Entry /\ q[a].ticket \in Nat /\ q[a].player \in Player
<1>1. DOMAIN q = 1 .. Len(q) /\ Len(q) \in Nat
  BY LenProperties
<1>2. ASSUME NEW a \in DOMAIN q
      PROVE  q[a] \in Entry
  BY <1>1, ElementOfSeq
<1> QED
  BY <1>1, <1>2 DEF Entry

\* Every two entries of r are entries of q in the same order.
SubLine(r, q) ==
  \A i, j \in DOMAIN r : \E a, b \in DOMAIN q :
    r[i] = q[a] /\ r[j] = q[b] /\ (i < j => a < b) /\ (i = j <=> a = b)

\* What is left of a line when a ticket goes is the line in its old order.
LEMMA WithoutIsSubLine ==
  ASSUME NEW q \in Seq(Entry), NEW t
  PROVE  Without(q, t) \in Seq(Entry) /\ SubLine(Without(q, t), q)
<1>1. CASE ~HasTicket(q, t)
  BY <1>1 DEF Without, SubLine
<1>2. CASE HasTicket(q, t)
  <2> DEFINE k == Position(q, t)
  <2>1. k \in 1 .. Len(q)
    BY <1>2, LenProperties DEF HasTicket, Position
  <2>2. Without(q, t) = RemoveAt(q, k)
    BY <1>2 DEF Without
  <2> HIDE DEF k
  <2>3. /\ Without(q, t) \in Seq(Entry)
        /\ Len(Without(q, t)) = Len(q) - 1
        /\ \A i \in 1 .. Len(q) - 1 :
             Without(q, t)[i] = IF i < k THEN q[i] ELSE q[i + 1]
    BY <2>1, <2>2, RemoveAtProperties
  <2>4. DOMAIN Without(q, t) = 1 .. Len(q) - 1 /\ DOMAIN q = 1 .. Len(q) /\ Len(q) \in Nat
    BY <2>3, LenProperties
  <2>5. ASSUME NEW i \in DOMAIN Without(q, t), NEW j \in DOMAIN Without(q, t)
        PROVE  \E a, b \in DOMAIN q :
                 /\ Without(q, t)[i] = q[a] /\ Without(q, t)[j] = q[b]
                 /\ (i < j => a < b) /\ (i = j <=> a = b)
    <3> DEFINE a == IF i < k THEN i ELSE i + 1
               b == IF j < k THEN j ELSE j + 1
    <3>1. a \in DOMAIN q /\ b \in DOMAIN q
      BY <2>1, <2>4
    <3>2. Without(q, t)[i] = q[a] /\ Without(q, t)[j] = q[b]
      BY <2>3, <2>4
    <3>3. (i < j => a < b) /\ (i = j <=> a = b)
      BY <2>1, <2>4
    <3> QED
      BY <3>1, <3>2, <3>3
  <2> QED
    BY <2>3, <2>5 DEF SubLine
<1> QED
  BY <1>1, <1>2

\* A head with another ticket stays the head.
LEMMA WithoutKeepsHead ==
  ASSUME NEW q \in Seq(Entry), NEW t, q # <<>>, q[1].ticket # t
  PROVE  Without(q, t) # <<>> /\ Without(q, t)[1] = q[1]
<1>1. CASE ~HasTicket(q, t)
  BY <1>1 DEF Without
<1>2. CASE HasTicket(q, t)
  <2> DEFINE k == Position(q, t)
  <2>1. k \in 1 .. Len(q) /\ q[k].ticket = t
    BY <1>2, LenProperties DEF HasTicket, Position
  <2>2. Without(q, t) = RemoveAt(q, k)
    BY <1>2 DEF Without
  <2> HIDE DEF k
  <2>3. /\ Without(q, t) \in Seq(Entry)
        /\ Len(Without(q, t)) = Len(q) - 1
        /\ \A i \in 1 .. Len(q) - 1 :
             Without(q, t)[i] = IF i < k THEN q[i] ELSE q[i + 1]
    BY <2>1, <2>2, RemoveAtProperties
  <2>4. Len(q) \in Nat /\ k > 1 /\ 1 \in 1 .. Len(q) - 1
    BY <2>1, LenProperties
  <2>5. Without(q, t)[1] = q[1]
    BY <2>3, <2>4
  <2>6. Len(Without(q, t)) # 0
    BY <2>3, <2>4
  <2> QED
    BY <2>3, <2>5, <2>6, EmptySeq
<1> QED
  BY <1>1, <1>2

\* In a line in order the ticket is gone for good.
LEMMA WithoutDropsTicket ==
  ASSUME NEW q \in Seq(Entry), NEW t, LineInOrder(q)
  PROVE  ~HasTicket(Without(q, t), t)
<1>1. CASE ~HasTicket(q, t)
  BY <1>1 DEF Without
<1>2. CASE HasTicket(q, t)
  <2> DEFINE k == Position(q, t)
  <2>1. k \in 1 .. Len(q) /\ q[k].ticket = t
    BY <1>2, LenProperties DEF HasTicket, Position
  <2>2. Without(q, t) = RemoveAt(q, k)
    BY <1>2 DEF Without
  <2> HIDE DEF k
  <2>3. /\ Without(q, t) \in Seq(Entry)
        /\ Len(Without(q, t)) = Len(q) - 1
        /\ \A i \in 1 .. Len(q) - 1 :
             Without(q, t)[i] = IF i < k THEN q[i] ELSE q[i + 1]
    BY <2>1, <2>2, RemoveAtProperties
  <2>4. DOMAIN Without(q, t) = 1 .. Len(q) - 1 /\ DOMAIN q = 1 .. Len(q) /\ Len(q) \in Nat
    BY <2>3, LenProperties
  <2>5. \A a \in 1 .. Len(q) : q[a] \in Entry /\ (a # k => q[a].ticket # t)
    <3>1. \A a \in 1 .. Len(q) : q[a] \in Entry /\ q[a].ticket \in Nat
      BY EntryOfLine
    <3>2. ASSUME NEW a \in 1 .. Len(q), a # k
          PROVE  q[a].ticket # t
      <4>1. a < k \/ k < a
        BY <2>1, <2>4, <3>2
      <4>2. a < k => q[a].ticket < q[k].ticket
        BY <2>1, <2>4 DEF LineInOrder
      <4>3. k < a => q[k].ticket < q[a].ticket
        BY <2>1, <2>4 DEF LineInOrder
      <4>4. q[a].ticket \in Nat /\ q[k].ticket \in Nat
        BY <2>1, <3>1
      <4>5. q[a].ticket # q[k].ticket
        BY <4>1, <4>2, <4>3, <4>4
      <4> QED
        BY <2>1, <4>5
    <3> QED
      BY <3>1, <3>2
  <2>6. ASSUME NEW i \in DOMAIN Without(q, t)
        PROVE  Without(q, t)[i].ticket # t
    <3> DEFINE a == IF i < k THEN i ELSE i + 1
    <3>1. a \in 1 .. Len(q) /\ a # k
      BY <2>1, <2>4
    <3>2. Without(q, t)[i] = q[a]
      BY <2>3, <2>4
    <3> QED
      BY <2>5, <3>1, <3>2
  <2> QED
    BY <2>6 DEF HasTicket
<1> QED
  BY <1>1, <1>2

-----------------------------------------------------------------------------
(* One machine.                                                            *)

\* What holds of every machine between two requests.
MachineOK(mc) ==
  /\ mc \in MachineState
  /\ CalledMachineOK(mc)
  /\ mc.status = derive_status(mc)

LEMMA SideFacts ==
  ASSUME NEW s \in Side
  PROVE  opposite(s) \in Side /\ opposite(s) # s /\ opposite(opposite(s)) = s
BY DEF Side, opposite

LEMMA DerivedOK ==
  ASSUME NEW mc \in MachineState, CalledMachineOK(mc)
  PROVE  /\ MachineOK(Derived(mc))
         /\ Derived(mc).queue = mc.queue
         /\ Derived(mc).seat = mc.seat
         /\ Derived(mc).called = mc.called
BY DEF MachineOK, MachineState, CalledMachineOK, Derived, derive_status, Status

\* Calling the next player keeps lines and seats, and a call that was pending.
LEMMA CallNextOK ==
  ASSUME NEW mc \in MachineState, CalledMachineOK(mc), NEW s \in Side, NEW lag \in Lag
  PROVE  LET next == call_next_for_side(mc, s, lag) IN
         /\ MachineOK(next)
         /\ next.queue = mc.queue
         /\ next.seat = mc.seat
         /\ mc.called # NoCall => next.called = mc.called
<1>1. CASE mc.called # NoCall \/ mc.seat[s] # NoPlayer \/ mc.queue[s] = <<>>
  BY <1>1, DerivedOK DEF call_next_for_side
<1>2. CASE ~(mc.called # NoCall \/ mc.seat[s] # NoPlayer \/ mc.queue[s] = <<>>)
  <2> DEFINE e == mc.queue[s][1]
             c == [side |-> s, ticket |-> e.ticket, player |-> e.player,
                   expires |-> ClaimTimeout - lag]
             next == [mc EXCEPT !.called = c, !.status = "SeatCall"]
  <2>1. call_next_for_side(mc, s, lag) = next
    BY <1>2 DEF call_next_for_side
  <2>2. mc.queue[s] \in Seq(Entry) /\ 1 \in DOMAIN mc.queue[s]
    <3>1. mc.queue[s] \in Seq(Entry)
      BY DEF MachineState
    <3> QED
      BY <1>2, <3>1, EntryOfLine, EmptySeq
  <2>3. e \in Entry /\ e.ticket \in Nat /\ e.player \in Player
    BY <2>2, EntryOfLine
  <2>4. c \in Call /\ c # NoCall
    <3>1. ClaimTimeout - lag \in Int
      BY ArcadeAssumption DEF Lag
    <3>2. c \in Call
      BY <2>3, <3>1 DEF Call
    <3> QED
      BY <3>2, ArcadeAssumption
  <2>5. e = [ticket |-> e.ticket, player |-> e.player]
    BY <2>3 DEF Entry
  <2> HIDE DEF e
  <2>6. next \in MachineState
    BY <2>4 DEF MachineState, Status
  <2>7. next.called = c /\ next.status = "SeatCall" /\ next.queue = mc.queue /\ next.seat = mc.seat
    BY DEF MachineState
  <2>8. CalledMachineOK(next)
    BY <1>2, <2>5, <2>7 DEF CalledMachineOK, e
  <2>9. next.status = derive_status(next)
    BY <2>4, <2>7 DEF derive_status
  <2> QED
    BY <1>2, <2>1, <2>6, <2>7, <2>8, <2>9 DEF MachineOK
<1> QED
  BY <1>1, <1>2

\* A line is part of itself.
LEMMA SubLineSelf ==
  ASSUME NEW q
  PROVE  SubLine(q, q)
BY DEF SubLine

\* The machine after a sweep: seats stay, lines only lose entries, and a call
\* that timed out has lost its ticket.
LEMMA SweepOK ==
  ASSUME NEW mc, MachineOK(mc), NEW lag \in Lag
  PROVE  /\ MachineOK(Sweep(mc, lag))
         /\ Sweep(mc, lag).seat = mc.seat
         /\ \A s \in Side : SubLine(Sweep(mc, lag).queue[s], mc.queue[s])
         /\ NoShow(mc, lag) =>
              /\ Sweep(mc, lag).queue[mc.called.side]
                   = Without(mc.queue[mc.called.side], mc.called.ticket)
              /\ \A s \in Side : s # mc.called.side => Sweep(mc, lag).queue[s] = mc.queue[s]
         /\ ~NoShow(mc, lag) =>
              Sweep(mc, lag).queue = mc.queue /\ Sweep(mc, lag).called = mc.called
<1>1. CASE ~NoShow(mc, lag)
  BY <1>1, DerivedOK, SubLineSelf DEF Sweep, MachineOK
<1>2. CASE NoShow(mc, lag)
  <2> DEFINE c == mc.called
             q == Without(mc.queue[c.side], c.ticket)
             left == [mc EXCEPT !.queue[c.side] = q, !.called = NoCall, !.status = "PostRound"]
  <2>1. mc \in MachineState /\ c \in Call /\ c.side \in Side
    BY <1>2 DEF MachineOK, MachineState, NoShow, Call
  <2>2. mc.queue[c.side] \in Seq(Entry)
    BY <2>1 DEF MachineState
  <2>3. q \in Seq(Entry) /\ SubLine(q, mc.queue[c.side])
    BY <2>2, WithoutIsSubLine
  <2> HIDE DEF q
  <2>4. left \in MachineState
    BY <2>1, <2>3 DEF MachineState, Status
  <2>5. /\ left.called = NoCall /\ left.seat = mc.seat
        /\ left.queue = [mc.queue EXCEPT ![c.side] = q]
    BY <2>1 DEF MachineState
  <2>6. CalledMachineOK(left)
    BY <2>5 DEF CalledMachineOK
  <2>7. Sweep(mc, lag) = call_next_for_side(left, c.side, lag)
    BY <1>2 DEF Sweep, q
  <2> HIDE DEF left
  <2>8. /\ MachineOK(Sweep(mc, lag))
        /\ Sweep(mc, lag).seat = left.seat
        /\ Sweep(mc, lag).queue = left.queue
    BY <2>1, <2>4, <2>6, <2>7, CallNextOK
  <2>9. left.queue[c.side] = q /\ \A s \in Side : s # c.side => left.queue[s] = mc.queue[s]
    BY <2>1, <2>5 DEF MachineState
  <2>10. \A s \in Side : SubLine(left.queue[s], mc.queue[s])
    BY <2>3, <2>9, SubLineSelf
  <2> QED
    BY <1>2, <2>5, <2>8, <2>9, <2>10 DEF q
<1> QED
  BY <1>1, <1>2

\* The machine after a join: one entry at the end of one line.
LEMMA EnqueueOK ==
  ASSUME NEW mc, MachineOK(mc), NEW s \in Side, NEW e \in Entry, NEW lag \in Lag
  PROVE  /\ MachineOK(Enqueue(mc, s, e, lag))
         /\ Enqueue(mc, s, e, lag).seat = mc.seat
         /\ Enqueue(mc, s, e, lag).queue = [mc.queue EXCEPT ![s] = Append(@, e)]
<1> DEFINE q == Append(mc.queue[s], e)
           queued == [mc EXCEPT !.queue[s] = q]
<1>1. mc \in MachineState /\ mc.queue[s] \in Seq(Entry)
  BY DEF MachineOK, MachineState
<1>2. q \in Seq(Entry) /\ q # <<>>
  BY <1>1, AppendProperties
<1>3. mc.queue[s] # <<>> => q[1] = mc.queue[s][1]
  <2>1. mc.queue[s] # <<>> => 1 \in 1 .. Len(mc.queue[s])
    BY <1>1, EntryOfLine, EmptySeq
  <2> QED
    BY <1>1, <2>1, AppendProperties
<1> HIDE DEF q
<1>4. queued \in MachineState
  BY <1>1, <1>2 DEF MachineState
<1>5. /\ queued.called = mc.called /\ queued.seat = mc.seat
      /\ queued.queue = [mc.queue EXCEPT ![s] = q]
  BY <1>1 DEF MachineState
<1>6. queued.queue[s] = q /\ \A r \in Side : r # s => queued.queue[r] = mc.queue[r]
  BY <1>1, <1>5 DEF MachineState
<1>7. CalledMachineOK(queued)
  <2> SUFFICES ASSUME queued.called # NoCall
               PROVE  LET c == queued.called IN
                      /\ queued.seat[c.side] = NoPlayer
                      /\ queued.queue[c.side] # <<>>
                      /\ queued.queue[c.side][1] = [ticket |-> c.ticket, player |-> c.player]
    BY DEF CalledMachineOK
  <2>1. mc.called \in Call /\ mc.called.side \in Side
    BY <1>1, <1>5 DEF MachineState, Call
  <2>2. /\ mc.seat[mc.called.side] = NoPlayer
        /\ mc.queue[mc.called.side] # <<>>
        /\ mc.queue[mc.called.side][1] = [ticket |-> mc.called.ticket, player |-> mc.called.player]
    BY <1>5 DEF MachineOK, CalledMachineOK
  <2>3. queued.queue[mc.called.side] # <<>> /\ queued.queue[mc.called.side][1] = mc.queue[mc.called.side][1]
    BY <1>2, <1>3, <1>6, <2>1, <2>2
  <2> QED
    BY <1>5, <2>2, <2>3
<1>8. \/ Enqueue(mc, s, e, lag) = call_next_for_side(queued, s, lag)
      \/ Enqueue(mc, s, e, lag) = Derived(queued)
  BY DEF Enqueue, q
<1> HIDE DEF queued
<1>9. /\ MachineOK(Enqueue(mc, s, e, lag))
      /\ Enqueue(mc, s, e, lag).seat = queued.seat
      /\ Enqueue(mc, s, e, lag).queue = queued.queue
  BY <1>4, <1>7, <1>8, CallNextOK, DerivedOK
<1> QED
  BY <1>5, <1>9 DEF q

\* The machine after a leave: a call for that very ticket is passed on.
LEMMA DropOK ==
  ASSUME NEW mc, MachineOK(mc), NEW t, NEW lag \in Lag, TicketOn(mc, t)
  PROVE  /\ MachineOK(Drop(mc, t, lag))
         /\ Drop(mc, t, lag).seat = mc.seat
         /\ \A s \in Side :
              /\ SubLine(Drop(mc, t, lag).queue[s], mc.queue[s])
              /\ Drop(mc, t, lag).queue[s] = IF s = SideOf(mc, t) THEN Without(mc.queue[s], t)
                                             ELSE mc.queue[s]
<1> DEFINE s == SideOf(mc, t)
           q == Without(mc.queue[s], t)
           left == [mc EXCEPT !.queue[s] = q]
           open == [left EXCEPT !.called = NoCall]
<1>1. s \in Side /\ mc \in MachineState
  BY DEF SideOf, Side, MachineOK
<1> HIDE DEF s
<1>2. mc.queue[s] \in Seq(Entry)
  BY <1>1 DEF MachineState
<1>3. q \in Seq(Entry) /\ SubLine(q, mc.queue[s])
  BY <1>2, WithoutIsSubLine
<1>4. mc.queue[s] # <<>> /\ mc.queue[s][1].ticket # t => q # <<>> /\ q[1] = mc.queue[s][1]
  BY <1>2, WithoutKeepsHead
<1> HIDE DEF q
<1>5. left \in MachineState /\ open \in MachineState
  BY <1>1, <1>3 DEF MachineState
<1>6. /\ left.called = mc.called /\ left.seat = mc.seat
      /\ left.queue = [mc.queue EXCEPT ![s] = q]
      /\ open.called = NoCall /\ open.seat = mc.seat /\ open.queue = left.queue
  BY <1>1 DEF MachineState
<1>7. left.queue[s] = q /\ \A r \in Side : r # s => left.queue[r] = mc.queue[r]
  BY <1>1, <1>6 DEF MachineState
<1>8. \A r \in Side : SubLine(left.queue[r], mc.queue[r])
  BY <1>3, <1>7, SubLineSelf
<1>9. CASE mc.called # NoCall /\ mc.called.ticket = t
  <2>1. Drop(mc, t, lag) = call_next_for_side(open, s, lag)
    BY <1>9 DEF Drop, s, q
  <2>2. CalledMachineOK(open)
    BY <1>6 DEF CalledMachineOK
  <2> HIDE DEF open
  <2>3. /\ MachineOK(Drop(mc, t, lag))
        /\ Drop(mc, t, lag).seat = open.seat
        /\ Drop(mc, t, lag).queue = open.queue
    BY <1>1, <1>5, <2>1, <2>2, CallNextOK
  <2> QED
    BY <1>6, <1>7, <1>8, <2>3 DEF s, q
<1>10. CASE ~(mc.called # NoCall /\ mc.called.ticket = t)
  <2>1. Drop(mc, t, lag) = Derived(left)
    BY <1>10 DEF Drop, s, q
  <2>2. CalledMachineOK(left)
    <3> SUFFICES ASSUME left.called # NoCall
                 PROVE  LET c == left.called IN
                        /\ left.seat[c.side] = NoPlayer
                        /\ left.queue[c.side] # <<>>
                        /\ left.queue[c.side][1] = [ticket |-> c.ticket, player |-> c.player]
      BY DEF CalledMachineOK
    <3>1. mc.called \in Call /\ mc.called.side \in Side
      BY <1>1, <1>6 DEF MachineState, Call
    <3>2. /\ mc.seat[mc.called.side] = NoPlayer
          /\ mc.queue[mc.called.side] # <<>>
          /\ mc.queue[mc.called.side][1] = [ticket |-> mc.called.ticket, player |-> mc.called.player]
      BY <1>6 DEF MachineOK, CalledMachineOK
    <3>3. mc.queue[mc.called.side][1].ticket # t
      BY <1>6, <1>10, <3>2
    <3>4. left.queue[mc.called.side] # <<>> /\ left.queue[mc.called.side][1] = mc.queue[mc.called.side][1]
      BY <1>4, <1>7, <3>1, <3>2, <3>3
    <3> QED
      BY <1>6, <3>2, <3>4
  <2> HIDE DEF left
  <2>3. /\ MachineOK(Drop(mc, t, lag))
        /\ Drop(mc, t, lag).seat = left.seat
        /\ Drop(mc, t, lag).queue = left.queue
    BY <1>5, <2>1, <2>2, DerivedOK
  <2> QED
    BY <1>6, <1>7, <1>8, <2>3 DEF s, q
<1> QED
  BY <1>9, <1>10

\* The machine after a claim: the called player sits, the ticket is gone.
LEMMA TakeSeatOK ==
  ASSUME NEW mc, MachineOK(mc), NEW t, NEW lag \in Lag, MayClaim(mc, t)
  PROVE  /\ MachineOK(TakeSeat(mc, lag))
         /\ mc.called \in Call
         /\ TakeSeat(mc, lag).seat = [mc.seat EXCEPT ![mc.called.side] = mc.called.player]
         /\ \A s \in Side : SubLine(TakeSeat(mc, lag).queue[s], mc.queue[s])
         /\ TakeSeat(mc, lag).queue[mc.called.side]
              = Without(mc.queue[mc.called.side], mc.called.ticket)
         /\ \A s \in Side : s # mc.called.side => TakeSeat(mc, lag).queue[s] = mc.queue[s]
<1> DEFINE c == mc.called
           q == Without(mc.queue[c.side], c.ticket)
           seated == [mc EXCEPT !.queue[c.side] = q, !.seat[c.side] = c.player, !.called = NoCall]
           other == opposite(c.side)
           next == call_next_for_side(seated, other, lag)
<1>1. mc \in MachineState /\ c \in Call /\ c.side \in Side /\ c.player \in Player
  BY DEF MachineOK, MachineState, MayClaim, Call
<1>2. mc.queue[c.side] \in Seq(Entry)
  BY <1>1 DEF MachineState
<1>3. q \in Seq(Entry) /\ SubLine(q, mc.queue[c.side])
  BY <1>2, WithoutIsSubLine
<1>4. other \in Side /\ other # c.side /\ Side = {c.side, other}
  BY <1>1 DEF Side, opposite
<1>5. TakeSeat(mc, lag) = IF seated.seat[other] # NoPlayer
                          THEN [seated EXCEPT !.status = "MatchLive"]
                          ELSE IF next.called = NoCall THEN [next EXCEPT !.status = "FreePlay"]
                          ELSE next
  BY DEF TakeSeat
<1> HIDE DEF q, other
<1>6. seated \in MachineState
  BY <1>1, <1>3 DEF MachineState
<1>7. /\ seated.called = NoCall
      /\ seated.seat = [mc.seat EXCEPT ![c.side] = c.player]
      /\ seated.queue = [mc.queue EXCEPT ![c.side] = q]
  BY <1>1 DEF MachineState
<1>8. seated.queue[c.side] = q /\ \A s \in Side : s # c.side => seated.queue[s] = mc.queue[s]
  BY <1>1, <1>7 DEF MachineState
<1>9. \A s \in Side : SubLine(seated.queue[s], mc.queue[s])
  BY <1>3, <1>8, SubLineSelf
<1>10. CalledMachineOK(seated)
  BY <1>7 DEF CalledMachineOK
<1>11. seated.seat[c.side] # NoPlayer
  BY <1>1, <1>7, ArcadeAssumption DEF MachineState
<1> HIDE DEF seated
<1>12. /\ MachineOK(next) /\ next.queue = seated.queue /\ next.seat = seated.seat
  BY <1>4, <1>6, <1>10, CallNextOK
<1> HIDE DEF next
<1>13. /\ MachineOK(TakeSeat(mc, lag))
       /\ TakeSeat(mc, lag).seat = seated.seat
       /\ TakeSeat(mc, lag).queue = seated.queue
  <2>1. CASE seated.seat[other] # NoPlayer
    <3> DEFINE live == [seated EXCEPT !.status = "MatchLive"]
    <3>1. TakeSeat(mc, lag) = live
      BY <1>5, <2>1
    <3>2. /\ live \in MachineState /\ live.called = NoCall /\ live.seat = seated.seat
          /\ live.queue = seated.queue /\ live.status = "MatchLive"
      BY <1>6, <1>7 DEF MachineState, Status
    <3> HIDE DEF live
    <3>3. derive_status(live) = "MatchLive"
      BY <1>4, <1>11, <2>1, <3>2 DEF derive_status
    <3> QED
      BY <3>1, <3>2, <3>3 DEF MachineOK, CalledMachineOK
  <2>2. CASE seated.seat[other] = NoPlayer /\ next.called = NoCall
    <3> DEFINE free == [next EXCEPT !.status = "FreePlay"]
    <3>1. TakeSeat(mc, lag) = free
      BY <1>5, <2>2
    <3>2. next \in MachineState
      BY <1>12 DEF MachineOK
    <3>3. /\ free \in MachineState /\ free.called = NoCall /\ free.seat = seated.seat
          /\ free.queue = seated.queue /\ free.status = "FreePlay"
      BY <1>12, <2>2, <3>2 DEF MachineState, Status
    <3> HIDE DEF free
    <3>4. derive_status(free) = "FreePlay"
      BY <1>4, <2>2, <3>3 DEF derive_status
    <3> QED
      BY <3>1, <3>3, <3>4 DEF MachineOK, CalledMachineOK
  <2>3. CASE seated.seat[other] = NoPlayer /\ next.called # NoCall
    BY <1>5, <1>12, <2>3
  <2> QED
    BY <2>1, <2>2, <2>3
<1> QED
  BY <1>1, <1>7, <1>8, <1>9, <1>13 DEF q

\* The machine after a round: one seat is empty and its side is called.
LEMMA BackfillOK ==
  ASSUME NEW mc, MachineOK(mc), NEW w \in Side, NEW lag \in Lag
  PROVE  /\ MachineOK(Backfill(mc, w, lag))
         /\ Backfill(mc, w, lag).queue = mc.queue
         /\ Backfill(mc, w, lag).seat = [mc.seat EXCEPT ![opposite(w)] = NoPlayer]
<1> DEFINE loser == opposite(w)
           ended == [mc EXCEPT !.status = "PostRound", !.called = NoCall, !.seat[loser] = NoPlayer]
           next == call_next_for_side(ended, loser, lag)
<1>1. loser \in Side /\ mc \in MachineState
  BY SideFacts DEF MachineOK
<1>2. Backfill(mc, w, lag) = IF next.called = NoCall THEN Derived(next) ELSE next
  BY DEF Backfill
<1> HIDE DEF loser
<1>3. ended \in MachineState
  BY <1>1 DEF MachineState, Status
<1>4. /\ ended.called = NoCall /\ ended.queue = mc.queue
      /\ ended.seat = [mc.seat EXCEPT ![loser] = NoPlayer]
  BY <1>1 DEF MachineState
<1>5. CalledMachineOK(ended)
  BY <1>4 DEF CalledMachineOK
<1> HIDE DEF ended
<1>6. MachineOK(next) /\ next.queue = ended.queue /\ next.seat = ended.seat
  BY <1>1, <1>3, <1>5, CallNextOK
<1> HIDE DEF next
<1>7. /\ MachineOK(Derived(next)) /\ Derived(next).queue = next.queue
      /\ Derived(next).seat = next.seat
  BY <1>6, DerivedOK DEF MachineOK
<1> QED
  BY <1>2, <1>4, <1>6, <1>7 DEF loser

-----------------------------------------------------------------------------
(* The whole arcade: types, calls and statuses.                            *)

\* The inductive invariant behind the first three theorems.
DeskOK == TypeOK /\ \A m \in Machine : MachineOK(machines[m])

\* What the housekeeping of a request leaves for the handler to work on.
LEMMA SweptOK ==
  ASSUME DeskOK, NEW lag \in Lag
  PROVE  /\ Swept(lag) \in [Machine -> MachineState]
         /\ CooldownAfter(lag) \in [Player -> Int]
         /\ \A m \in Machine :
              /\ MachineOK(Swept(lag)[m])
              /\ Swept(lag)[m].seat = machines[m].seat
              /\ \A s \in Side : SubLine(Swept(lag)[m].queue[s], machines[m].queue[s])
              /\ Swept(lag)[m] = Sweep(machines[m], lag)
<1>1. \A m \in Machine : /\ Swept(lag)[m] = Sweep(machines[m], lag)
                         /\ MachineOK(Swept(lag)[m])
                         /\ Swept(lag)[m].seat = machines[m].seat
                         /\ \A s \in Side : SubLine(Swept(lag)[m].queue[s], machines[m].queue[s])
  BY SweepOK DEF DeskOK, Swept
<1>2. Swept(lag) \in [Machine -> MachineState]
  BY <1>1 DEF Swept, MachineOK
<1>3. CooldownAfter(lag) \in [Player -> Int]
  <2>1. /\ NoShowCooldown - lag \in Int /\ -MaxLag \in Int
        /\ cooldown_until \in [Player -> Int]
    BY ArcadeAssumption DEF Lag, DeskOK, TypeOK
  <2> QED
    BY <2>1 DEF CooldownAfter
<1> QED
  BY <1>1, <1>2, <1>3

LEMMA InitDeskOK == Init => DeskOK
<1> SUFFICES ASSUME Init PROVE DeskOK
  OBVIOUS
<1>1. ASSUME NEW m \in Machine
      PROVE  MachineOK(machines[m])
  <2>1. machines[m] = [seat   |-> [s \in Side |-> NoPlayer],
                       queue  |-> [s \in Side |-> <<>>],
                       called |-> NoCall,
                       status |-> "FreePlay"]
    BY DEF Init, EmptyMachines
  <2>2. <<>> \in Seq(Entry)
    BY EmptySeq
  <2>3. machines[m] \in MachineState
    BY <2>1, <2>2 DEF MachineState, Status
  <2> QED
    BY <2>1, <2>3 DEF MachineOK, CalledMachineOK, derive_status, Side
<1>2. machines \in [Machine -> MachineState]
  BY <1>1 DEF Init, EmptyMachines, MachineOK
<1>3. cooldown_until \in [Player -> Int] /\ next_ticket_id \in Nat \ {0}
  BY ArcadeAssumption DEF Init
<1>4. /\ daily_machine_scores \in [Day \X Machine \X Player -> Nat \cup {NoScore}]
      /\ daily_global_scores \in [Day \X Player -> Nat \cup {NoScore}]
      /\ day \in Day
  BY ArcadeAssumption DEF Init, NoScores, Day
<1> QED
  BY <1>1, <1>2, <1>3, <1>4 DEF DeskOK, TypeOK

\* Scores that were recorded are scores.
LEMMA UpdateScoresTypes ==
  ASSUME DeskOK, NEW d \in Day, NEW m \in Machine, NEW l \in Player, NEW r \in Player,
         NEW ls \in Score, NEW rs \in Score, update_scores(d, m, l, r, ls, rs)
  PROVE  /\ daily_machine_scores' \in [Day \X Machine \X Player -> Nat \cup {NoScore}]
         /\ daily_global_scores' \in [Day \X Player -> Nat \cup {NoScore}]
<1>1. /\ daily_machine_scores \in [Day \X Machine \X Player -> Nat \cup {NoScore}]
      /\ daily_global_scores \in [Day \X Player -> Nat \cup {NoScore}]
      /\ ls \in Nat /\ rs \in Nat
  BY ArcadeAssumption DEF DeskOK, TypeOK
<1>2. ASSUME NEW K, NEW f \in [K -> Nat \cup {NoScore}], NEW k \in K, NEW n \in Nat
      PROVE  Recorded(f, k, n) \in [K -> Nat \cup {NoScore}]
  BY <1>2 DEF Recorded, Best
<1>3. /\ <<d, m, l>> \in Day \X Machine \X Player /\ <<d, m, r>> \in Day \X Machine \X Player
      /\ <<d, l>> \in Day \X Player /\ <<d, r>> \in Day \X Player
  OBVIOUS
<1>4. Recorded(daily_machine_scores, <<d, m, l>>, ls)
        \in [Day \X Machine \X Player -> Nat \cup {NoScore}]
  BY <1>1, <1>2, <1>3
<1>5. Recorded(daily_global_scores, <<d, l>>, ls) \in [Day \X Player -> Nat \cup {NoScore}]
  BY <1>1, <1>2, <1>3
<1>6. daily_machine_scores' \in [Day \X Machine \X Player -> Nat \cup {NoScore}]
  BY <1>1, <1>2, <1>3, <1>4 DEF update_scores
<1>7. daily_global_scores' \in [Day \X Player -> Nat \cup {NoScore}]
  BY <1>1, <1>2, <1>3, <1>5 DEF update_scores
<1> QED
  BY <1>6, <1>7

\* A table in which one machine was replaced by another good one.
LEMMA ReplaceOK ==
  ASSUME NEW ms \in [Machine -> MachineState], \A n \in Machine : MachineOK(ms[n]),
         NEW m \in Machine, NEW mc, MachineOK(mc)
  PROVE  /\ [ms EXCEPT ![m] = mc] \in [Machine -> MachineState]
         /\ \A n \in Machine : MachineOK([ms EXCEPT ![m] = mc][n])
BY DEF MachineOK

LEMMA HousekeepingDeskOK ==
  ASSUME DeskOK, NEW lag \in Lag, OnlyHousekeeping(lag)
  PROVE  DeskOK'
BY SweptOK DEF DeskOK, TypeOK, OnlyHousekeeping, scores

LEMMA JoinDeskOK ==
  ASSUME DeskOK, NEW lag \in Lag, NEW m \in MachineId, NEW n \in Name, NEW s \in Side,
         join_queue(m, n, s, lag)
  PROVE  DeskOK'
<1> DEFINE p == KeyOf[n]
           ms == Swept(lag)
           entry == [ticket |-> next_ticket_id, player |-> p]
<1>1. CASE OnlyHousekeeping(lag)
  BY <1>1, HousekeepingDeskOK
<1>2. CASE /\ p # NoPlayer
           /\ next_ticket_id' = next_ticket_id + 1
           /\ machines' = [k \in Machine |-> IF k = m THEN Enqueue(ms[k], s, entry, lag) ELSE ms[k]]
           /\ cooldown_until' = CooldownAfter(lag)
           /\ UNCHANGED <<scores, day>>
  <2>1. entry \in Entry
    BY <1>2, ArcadeAssumption DEF DeskOK, TypeOK, Entry
  <2> HIDE DEF entry
  <2>2. \A k \in Machine : MachineOK(machines'[k])
    BY <1>2, <2>1, SweptOK, EnqueueOK
  <2>3. machines' \in [Machine -> MachineState]
    BY <1>2, <2>2 DEF MachineOK
  <2>4. cooldown_until' \in [Player -> Int] /\ next_ticket_id' \in Nat \ {0}
    BY <1>2, SweptOK DEF DeskOK, TypeOK
  <2> QED
    BY <1>2, <2>2, <2>3, <2>4 DEF DeskOK, TypeOK, scores
<1> QED
  BY <1>1, <1>2 DEF join_queue

LEMMA LeaveDeskOK ==
  ASSUME DeskOK, NEW lag \in Lag, NEW m \in MachineId, NEW t \in Ticket, leave_queue(m, t, lag)
  PROVE  DeskOK'
<1>1. CASE OnlyHousekeeping(lag)
  BY <1>1, HousekeepingDeskOK
<1>2. CASE /\ m \in Machine /\ TicketOn(Swept(lag)[m], t)
           /\ machines' = [Swept(lag) EXCEPT ![m] = Drop(Swept(lag)[m], t, lag)]
           /\ cooldown_until' = CooldownAfter(lag)
           /\ UNCHANGED <<next_ticket_id, scores, day>>
  <2>1. MachineOK(Drop(Swept(lag)[m], t, lag))
    BY <1>2, SweptOK, DropOK
  <2>2. machines' \in [Machine -> MachineState] /\ \A n \in Machine : MachineOK(machines'[n])
    BY <1>2, <2>1, SweptOK, ReplaceOK
  <2> QED
    BY <1>2, <2>2, SweptOK DEF DeskOK, TypeOK, scores
<1> QED
  BY <1>1, <1>2 DEF leave_queue

LEMMA ClaimDeskOK ==
  ASSUME DeskOK, NEW lag \in Lag, NEW m \in MachineId, NEW t \in Ticket, claim_seat(m, t, lag)
  PROVE  DeskOK'
<1>1. CASE OnlyHousekeeping(lag)
  BY <1>1, HousekeepingDeskOK
<1>2. CASE /\ m \in Machine /\ MayClaim(Swept(lag)[m], t)
           /\ machines' = [Swept(lag) EXCEPT ![m] = TakeSeat(Swept(lag)[m], lag)]
           /\ cooldown_until' = CooldownAfter(lag)
           /\ UNCHANGED <<next_ticket_id, scores, day>>
  <2>1. MachineOK(TakeSeat(Swept(lag)[m], lag))
    BY <1>2, SweptOK, TakeSeatOK
  <2>2. machines' \in [Machine -> MachineState] /\ \A n \in Machine : MachineOK(machines'[n])
    BY <1>2, <2>1, SweptOK, ReplaceOK
  <2> QED
    BY <1>2, <2>2, SweptOK DEF DeskOK, TypeOK, scores
<1> QED
  BY <1>1, <1>2 DEF claim_seat

LEMMA EndRoundDeskOK ==
  ASSUME DeskOK, NEW lag \in Lag, NEW m \in MachineId, NEW w \in Side,
         NEW ls \in Score, NEW rs \in Score, end_round(m, w, ls, rs, lag)
  PROVE  DeskOK'
<1>1. CASE OnlyHousekeeping(lag)
  BY <1>1, HousekeepingDeskOK
<1>2. CASE /\ m \in Machine /\ BothSeated(Swept(lag)[m])
           /\ \E d \in DaysSeen(lag) :
                update_scores(d, m, Swept(lag)[m].seat["left"], Swept(lag)[m].seat["right"], ls, rs)
           /\ machines' = [Swept(lag) EXCEPT ![m] = Backfill(Swept(lag)[m], w, lag)]
           /\ cooldown_until' = CooldownAfter(lag)
           /\ UNCHANGED <<next_ticket_id, day>>
  <2>1. MachineOK(Backfill(Swept(lag)[m], w, lag))
    BY <1>2, SweptOK, BackfillOK
  <2>2. machines' \in [Machine -> MachineState] /\ \A n \in Machine : MachineOK(machines'[n])
    BY <1>2, <2>1, SweptOK, ReplaceOK
  <2>3. Swept(lag)[m].seat["left"] \in Player /\ Swept(lag)[m].seat["right"] \in Player
    BY <1>2, SweptOK DEF MachineState, BothSeated, Side
  <2>4. DaysSeen(lag) \subseteq Day
    BY ArcadeAssumption DEF DaysSeen, Day, DeskOK, TypeOK
  <2>5. /\ daily_machine_scores' \in [Day \X Machine \X Player -> Nat \cup {NoScore}]
        /\ daily_global_scores' \in [Day \X Player -> Nat \cup {NoScore}]
    BY <1>2, <2>3, <2>4, UpdateScoresTypes
  <2> QED
    BY <1>2, <2>2, <2>5, SweptOK DEF DeskOK, TypeOK
<1> QED
  BY <1>1, <1>2 DEF end_round

\* Time moves deadlines only.
LEMMA TickDeskOK ==
  ASSUME DeskOK, Tick
  PROVE  /\ DeskOK'
         /\ \A m \in Machine : /\ machines'[m].queue = machines[m].queue
                               /\ machines'[m].seat = machines[m].seat
<1>1. ASSUME NEW m \in Machine
      PROVE  /\ MachineOK(machines'[m])
             /\ machines'[m].queue = machines[m].queue
             /\ machines'[m].seat = machines[m].seat
  <2>1. MachineOK(machines[m])
    BY DEF DeskOK
  <2>2. CASE machines[m].called = NoCall
    BY <2>1, <2>2 DEF Tick
  <2>3. CASE machines[m].called # NoCall
    <3> DEFINE mc == machines[m]
               c == [mc.called EXCEPT !.expires = Earlier(@)]
               ticked == [mc EXCEPT !.called = c]
    <3>1. mc \in MachineState /\ mc.called \in Call
      BY <2>1, <2>3 DEF MachineOK, MachineState
    <3>2. machines'[m] = ticked
      BY <2>3, <3>1 DEF Tick, MachineState
    <3>3. c \in Call
      <4>1. Earlier(mc.called.expires) \in Int
        BY <3>1 DEF Earlier, Call
      <4> QED
        BY <3>1, <4>1 DEF Call
    <3>4. c.side = mc.called.side /\ c.ticket = mc.called.ticket /\ c.player = mc.called.player
      BY <3>1 DEF Call
    <3>5. c # NoCall
      BY <3>3, ArcadeAssumption
    <3> HIDE DEF c
    <3>6. /\ ticked \in MachineState /\ ticked.called = c /\ ticked.queue = mc.queue
          /\ ticked.seat = mc.seat /\ ticked.status = mc.status
      BY <3>1, <3>3 DEF MachineState
    <3> HIDE DEF ticked
    <3>7. CalledMachineOK(ticked)
      BY <2>1, <2>3, <3>4, <3>6 DEF MachineOK, CalledMachineOK
    <3>8. ticked.status = derive_status(ticked)
      BY <2>1, <2>3, <3>5, <3>6 DEF MachineOK, derive_status
    <3> QED
      BY <3>2, <3>6, <3>7, <3>8 DEF MachineOK
  <2> QED
    BY <2>2, <2>3
<1>2. machines' \in [Machine -> MachineState]
  BY <1>1 DEF Tick, MachineOK
<1>3. cooldown_until' \in [Player -> Int]
  BY DEF Tick, Earlier, DeskOK, TypeOK
<1> QED
  BY <1>1, <1>2, <1>3 DEF DeskOK, TypeOK, Tick, scores

LEMMA StepDeskOK == DeskOK /\ [Next]_vars => DeskOK'
<1> SUFFICES ASSUME DeskOK, [Next]_vars PROVE DeskOK'
  OBVIOUS
<1>1. CASE Tick
  BY <1>1, TickDeskOK
<1>2. CASE Midnight
  BY <1>2, ArcadeAssumption DEF Midnight, DeskOK, TypeOK, Day, scores
<1>3. ASSUME NEW lag \in Lag, overview(lag)
      PROVE  DeskOK'
  BY <1>3, HousekeepingDeskOK DEF overview
<1>4. ASSUME NEW lag \in Lag, NEW m \in MachineId, NEW n \in Name, NEW s \in Side,
             join_queue(m, n, s, lag)
      PROVE  DeskOK'
  BY <1>4, JoinDeskOK
<1>5. ASSUME NEW lag \in Lag, NEW m \in MachineId, NEW t \in Ticket, leave_queue(m, t, lag)
      PROVE  DeskOK'
  BY <1>5, LeaveDeskOK
<1>6. ASSUME NEW lag \in Lag, NEW m \in MachineId, NEW t \in Ticket, claim_seat(m, t, lag)
      PROVE  DeskOK'
  BY <1>6, ClaimDeskOK
<1>7. ASSUME NEW lag \in Lag, NEW m \in MachineId, NEW w \in Side, NEW ls \in Score,
             NEW rs \in Score, end_round(m, w, ls, rs, lag)
      PROVE  DeskOK'
  BY <1>7, EndRoundDeskOK
<1>8. CASE UNCHANGED vars
  BY <1>8 DEF vars, scores, DeskOK, TypeOK
<1> QED
  BY <1>1, <1>2, <1>3, <1>4, <1>5, <1>6, <1>7, <1>8 DEF Next

\* The inductive invariant holds in every reachable state.
THEOREM DeskInvariant == Spec => []DeskOK
<1>1. Init => DeskOK
  BY InitDeskOK
<1>2. DeskOK /\ [Next]_vars => DeskOK'
  BY StepDeskOK
<1> QED
  BY <1>1, <1>2, PTL DEF Spec

\* The tables of ArcadeInner keep their types through every handler.
THEOREM TypeCorrect == Spec => []TypeOK
<1>1. DeskOK => TypeOK
  BY DEF DeskOK
<1> QED
  BY <1>1, DeskInvariant, PTL

\* Whatever was joined, left, claimed, swept or ended in between: a pending
\* call is for the head of its line and for an empty seat.
THEOREM CallsNameTheHead == Spec => []CallIsHeadOfLine
<1>1. DeskOK => CallIsHeadOfLine
  BY DEF DeskOK, MachineOK, CallIsHeadOfLine
<1> QED
  BY <1>1, DeskInvariant, PTL

\* Whichever of the handlers wrote the status last, it fits the tables.
THEOREM StatusIsDerived == Spec => []StatusMatchesTables
<1>1. DeskOK => StatusMatchesTables
  BY DEF DeskOK, MachineOK, StatusMatchesTables
<1> QED
  BY <1>1, DeskInvariant, PTL

\* Everything a machine shows fits its tables, for any machines, players,
\* deadlines and ages of clock readings.
THEOREM DeskConsistent == Spec => []DeskIsConsistent
<1>1. CallIsHeadOfLine /\ StatusMatchesTables => DeskIsConsistent
  BY DEF DeskIsConsistent
<1> QED
  BY <1>1, CallsNameTheHead, StatusIsDerived, PTL
-----------------------------------------------------------------------------
(* The waiting lines and seats of all machines taken together.             *)

Tables == {ms \in [Machine -> MachineState] : \A m \in Machine : MachineOK(ms[m])}

\* Every line of new is what is left of the same line of old.
Shrunk(new, old) ==
  \A m \in Machine : \A s \in Side : SubLine(new[m].queue[s], old[m].queue[s])

SameSeats(new, old) == \A m \in Machine : new[m].seat = old[m].seat

LEMMA TableFacts ==
  ASSUME NEW ms \in Tables, NEW m \in Machine, NEW s \in Side
  PROVE  /\ MachineOK(ms[m])
         /\ ms[m].queue[s] \in Seq(Entry)
         /\ ms[m].seat[s] \in Player \cup {NoPlayer}
         /\ ms[m].called \in Call \cup {NoCall}
         /\ \A i \in DOMAIN ms[m].queue[s] :
              /\ ms[m].queue[s][i].player \in Player
              /\ ms[m].queue[s][i].ticket \in Nat
<1>1. MachineOK(ms[m]) /\ ms[m] \in MachineState
  BY DEF Tables
<1>2. ms[m].queue[s] \in Seq(Entry)
  BY <1>1 DEF MachineState
<1>3. /\ ms[m].seat[s] \in Player \cup {NoPlayer}
      /\ ms[m].called \in Call \cup {NoCall}
  BY <1>1 DEF MachineState
<1> QED
  BY <1>1, <1>2, <1>3, EntryOfLine

\* A pending call is also a ticket in a line, so a player without a ticket and
\* without a seat is out.
LEMMA OutFacts ==
  ASSUME NEW ms \in Tables, NEW p \in Player
  PROVE  Out(ms, p) <=>
           /\ \A m \in Machine : \A s \in Side : \A i \in DOMAIN ms[m].queue[s] :
                ms[m].queue[s][i].player # p
           /\ \A m \in Machine : \A s \in Side : ms[m].seat[s] # p
<1>1. ASSUME NEW m \in Machine, ms[m].called # NoCall, ms[m].called.player = p
      PROVE  \E s \in Side : \E i \in DOMAIN ms[m].queue[s] : ms[m].queue[s][i].player = p
  <2> DEFINE s == ms[m].called.side
  <2>1. ms[m].called \in Call /\ s \in Side
    <3>1. ms[m].called \in Call \cup {NoCall}
      BY DEF Tables, MachineState
    <3> QED
      BY <1>1, <3>1 DEF Call
  <2>2. ms[m].queue[s] # <<>> /\ ms[m].queue[s][1].player = p
    <3>1. CalledMachineOK(ms[m])
      BY DEF Tables, MachineOK
    <3>2. /\ ms[m].queue[s] # <<>>
          /\ ms[m].queue[s][1] = [ticket |-> ms[m].called.ticket, player |-> ms[m].called.player]
      BY <1>1, <3>1 DEF CalledMachineOK
    <3> QED
      BY <1>1, <3>2
  <2>3. 1 \in DOMAIN ms[m].queue[s]
    BY <2>1, <2>2, TableFacts, EntryOfLine, EmptySeq
  <2> QED
    BY <2>1, <2>2, <2>3
<1> QED
  BY <1>1 DEF Out, player_has_active_ticket, player_is_seated

-----------------------------------------------------------------------------
(* Lines that only lose entries.                                           *)

LEMMA ShrunkLines ==
  ASSUME NEW old \in Tables, NEW new \in Tables, Shrunk(new, old), NEW next,
         LinesInOrder(old, next)
  PROVE  LinesInOrder(new, next)
<1> SUFFICES ASSUME NEW m \in Machine, NEW s \in Side
             PROVE  /\ LineInOrder(new[m].queue[s])
                    /\ \A i \in DOMAIN new[m].queue[s] : new[m].queue[s][i].ticket < next
  BY DEF LinesInOrder
<1>1. SubLine(new[m].queue[s], old[m].queue[s])
  BY DEF Shrunk
<1>2. /\ LineInOrder(old[m].queue[s])
      /\ \A i \in DOMAIN old[m].queue[s] : old[m].queue[s][i].ticket < next
  BY DEF LinesInOrder
<1> QED
  BY <1>1, <1>2 DEF SubLine, LineInOrder

LEMMA ShrunkTickets ==
  ASSUME NEW old \in Tables, NEW new \in Tables, Shrunk(new, old)
  PROVE  /\ UniqueTickets(old) => UniqueTickets(new)
         /\ OneTicket(old) => OneTicket(new)
<1>1. ASSUME NEW m \in Machine, NEW n \in Machine, NEW s \in Side, NEW r \in Side,
             NEW i \in DOMAIN new[m].queue[s], NEW j \in DOMAIN new[n].queue[r]
      PROVE  \E a \in DOMAIN old[m].queue[s], b \in DOMAIN old[n].queue[r] :
               /\ new[m].queue[s][i] = old[m].queue[s][a]
               /\ new[n].queue[r][j] = old[n].queue[r][b]
               /\ m = n /\ s = r => (i = j <=> a = b)
  <2>1. SubLine(new[m].queue[s], old[m].queue[s]) /\ SubLine(new[n].queue[r], old[n].queue[r])
    BY DEF Shrunk
  <2>2. CASE m = n /\ s = r
    <3>1. \E a, b \in DOMAIN old[m].queue[s] :
            /\ new[m].queue[s][i] = old[m].queue[s][a]
            /\ new[m].queue[s][j] = old[m].queue[s][b]
            /\ (i = j <=> a = b)
      BY <2>1, <2>2 DEF SubLine
    <3> QED
      BY <2>2, <3>1
  <2>3. CASE ~(m = n /\ s = r)
    <3>1. \E a \in DOMAIN old[m].queue[s] : new[m].queue[s][i] = old[m].queue[s][a]
      BY <2>1 DEF SubLine
    <3>2. \E b \in DOMAIN old[n].queue[r] : new[n].queue[r][j] = old[n].queue[r][b]
      BY <2>1 DEF SubLine
    <3> QED
      BY <2>3, <3>1, <3>2
  <2> QED
    BY <2>2, <2>3
<1>2. ASSUME UniqueTickets(old) PROVE UniqueTickets(new)
  <2> SUFFICES ASSUME NEW m \in Machine, NEW n \in Machine, NEW s \in Side, NEW r \in Side,
                      NEW i \in DOMAIN new[m].queue[s], NEW j \in DOMAIN new[n].queue[r],
                      new[m].queue[s][i].ticket = new[n].queue[r][j].ticket
               PROVE  m = n /\ s = r /\ i = j
    BY DEF UniqueTickets
  <2>1. PICK a \in DOMAIN old[m].queue[s], b \in DOMAIN old[n].queue[r] :
               /\ new[m].queue[s][i] = old[m].queue[s][a]
               /\ new[n].queue[r][j] = old[n].queue[r][b]
               /\ m = n /\ s = r => (i = j <=> a = b)
    BY <1>1
  <2> QED
    BY <1>2, <2>1 DEF UniqueTickets
<1>3. ASSUME OneTicket(old) PROVE OneTicket(new)
  <2> SUFFICES ASSUME NEW m \in Machine, NEW n \in Machine, NEW s \in Side, NEW r \in Side,
                      NEW i \in DOMAIN new[m].queue[s], NEW j \in DOMAIN new[n].queue[r],
                      new[m].queue[s][i].player = new[n].queue[r][j].player
               PROVE  m = n /\ s = r /\ i = j
    BY DEF OneTicket
  <2>1. PICK a \in DOMAIN old[m].queue[s], b \in DOMAIN old[n].queue[r] :
               /\ new[m].queue[s][i] = old[m].queue[s][a]
               /\ new[n].queue[r][j] = old[n].queue[r][b]
               /\ m = n /\ s = r => (i = j <=> a = b)
    BY <1>1
  <2> QED
    BY <1>3, <2>1 DEF OneTicket
<1> QED
  BY <1>2, <1>3

\* Who stands in a line of new stood in it before.
LEMMA ShrunkPlayers ==
  ASSUME NEW old \in Tables, NEW new \in Tables, Shrunk(new, old),
         NEW m \in Machine, NEW s \in Side, NEW i \in DOMAIN new[m].queue[s]
  PROVE  \E a \in DOMAIN old[m].queue[s] : new[m].queue[s][i] = old[m].queue[s][a]
BY DEF Shrunk, SubLine

\* Nobody sat down: one place per player stays true.
LEMMA ShrunkPlaces ==
  ASSUME NEW old \in Tables, NEW new \in Tables, Shrunk(new, old), SameSeats(new, old)
  PROVE  /\ OneSeat(old) => OneSeat(new)
         /\ SeatedDoNotQueue(old) => SeatedDoNotQueue(new)
         /\ \A p \in Player : Out(old, p) => Out(new, p)
<1>1. OneSeat(old) => OneSeat(new)
  BY DEF OneSeat, SameSeats
<1>2. ASSUME SeatedDoNotQueue(old) PROVE SeatedDoNotQueue(new)
  <2> SUFFICES ASSUME NEW m \in Machine, NEW n \in Machine, NEW s \in Side, NEW r \in Side,
                      NEW i \in DOMAIN new[m].queue[s]
               PROVE  new[m].queue[s][i].player # new[n].seat[r]
    BY DEF SeatedDoNotQueue
  <2>1. PICK a \in DOMAIN old[m].queue[s] : new[m].queue[s][i] = old[m].queue[s][a]
    BY ShrunkPlayers
  <2> QED
    BY <1>2, <2>1 DEF SeatedDoNotQueue, SameSeats
<1>3. ASSUME NEW p \in Player, Out(old, p) PROVE Out(new, p)
  BY <1>3, OutFacts, ShrunkPlayers DEF SameSeats
<1> QED
  BY <1>1, <1>2, <1>3

\* One seat is given to p, who has left every line, or is emptied.
LEMMA SeatChange ==
  ASSUME NEW old \in Tables, NEW new \in Tables, Shrunk(new, old),
         NEW m \in Machine, NEW s \in Side, NEW p \in Player \cup {NoPlayer},
         \A n \in Machine : \A r \in Side :
           new[n].seat[r] = IF n = m /\ r = s THEN p ELSE old[n].seat[r],
         p # NoPlayer =>
           /\ \A n \in Machine : \A r \in Side : old[n].seat[r] # p
           /\ \A n \in Machine : \A r \in Side : \A i \in DOMAIN new[n].queue[r] :
                new[n].queue[r][i].player # p,
         OneSeat(old), SeatedDoNotQueue(old)
  PROVE  OneSeat(new) /\ SeatedDoNotQueue(new)
<1>1. OneSeat(new)
  BY DEF OneSeat
<1>2. ASSUME NEW n \in Machine, NEW k \in Machine, NEW r \in Side, NEW q \in Side,
             NEW i \in DOMAIN new[n].queue[r]
      PROVE  new[n].queue[r][i].player # new[k].seat[q]
  <2>1. CASE k = m /\ q = s
    <3>1. new[n].queue[r][i].player \in Player
      BY TableFacts
    <3> QED
      BY <2>1, <3>1, ArcadeAssumption
  <2>2. CASE ~(k = m /\ q = s)
    <3>1. new[k].seat[q] = old[k].seat[q]
      BY <2>2
    <3>2. \E a \in DOMAIN old[n].queue[r] : new[n].queue[r][i] = old[n].queue[r][a]
      BY ShrunkPlayers
    <3> QED
      BY <3>1, <3>2 DEF SeatedDoNotQueue
  <2> QED
    BY <2>1, <2>2
<1> QED
  BY <1>1, <1>2 DEF SeatedDoNotQueue

\* Player p stands in some line.
Stands(ms, p) ==
  \E m \in Machine : \E s \in Side : \E i \in DOMAIN ms[m].queue[s] :
    ms[m].queue[s][i].player = p

\* The ticket of a pending call is the only one of its player: once it is
\* removed the player stands in no line.
LEMMA CalledTicketGone ==
  ASSUME NEW old \in Tables, NEW new \in Tables, Shrunk(new, old),
         NEW m \in Machine, old[m].called # NoCall,
         OneTicket(old), LineInOrder(old[m].queue[old[m].called.side]),
         new[m].queue[old[m].called.side]
           = Without(old[m].queue[old[m].called.side], old[m].called.ticket)
  PROVE  /\ old[m].called \in Call
         /\ Stands(old, old[m].called.player)
         /\ ~Stands(new, old[m].called.player)
<1> DEFINE c == old[m].called
           q == old[m].queue[c.side]
<1>1. c \in Call /\ c.side \in Side
  <2>1. c \in Call \cup {NoCall}
    BY DEF Tables, MachineState
  <2> QED
    BY <2>1 DEF Call
<1>2. /\ q \in Seq(Entry) /\ 1 \in DOMAIN q
      /\ q[1].ticket = c.ticket /\ q[1].player = c.player
  <2>1. CalledMachineOK(old[m]) /\ q \in Seq(Entry)
    BY <1>1, TableFacts DEF MachineOK
  <2>2. q # <<>> /\ q[1] = [ticket |-> c.ticket, player |-> c.player]
    BY <2>1 DEF CalledMachineOK
  <2> QED
    BY <2>1, <2>2, EntryOfLine, EmptySeq
<1>3. ~HasTicket(new[m].queue[c.side], c.ticket)
  BY <1>2, WithoutDropsTicket
<1>4. ASSUME NEW n \in Machine, NEW r \in Side, NEW i \in DOMAIN new[n].queue[r],
             new[n].queue[r][i].player = c.player
      PROVE  FALSE
  <2>1. PICK a \in DOMAIN old[n].queue[r] : new[n].queue[r][i] = old[n].queue[r][a]
    BY ShrunkPlayers
  <2>2. n = m /\ r = c.side /\ a = 1
    <3>1. /\ c.side \in Side /\ 1 \in DOMAIN old[m].queue[c.side]
          /\ old[n].queue[r][a].player = old[m].queue[c.side][1].player
      BY <1>1, <1>2, <1>4, <2>1
    <3> HIDE DEF c, q
    <3> QED
      BY <3>1 DEF OneTicket
  <2>3. new[m].queue[c.side][i].ticket = c.ticket
    BY <1>2, <2>1, <2>2
  <2> QED
    BY <1>3, <1>4, <2>2, <2>3 DEF HasTicket
<1>5. ~Stands(new, c.player)
  BY <1>4 DEF Stands
<1>6. Stands(old, c.player)
  BY <1>1, <1>2 DEF Stands
<1> QED
  BY <1>1, <1>5, <1>6

-----------------------------------------------------------------------------
(* What a request does to the lines and seats.                             *)

PlacesOK(ms, next) ==
  /\ ms \in Tables
  /\ LinesInOrder(ms, next) /\ UniqueTickets(ms)
  /\ OneTicket(ms) /\ OneSeat(ms) /\ SeatedDoNotQueue(ms)

\* Whoever is out of old is out of new.
StillOut(new, old) == \A p \in Player : Out(old, p) => Out(new, p)

LEMMA ShrunkPlacesOK ==
  ASSUME NEW old, NEW new \in Tables, NEW next, PlacesOK(old, next),
         Shrunk(new, old), SameSeats(new, old)
  PROVE  PlacesOK(new, next) /\ StillOut(new, old)
BY ShrunkLines, ShrunkTickets, ShrunkPlaces DEF PlacesOK, StillOut

LEMMA DropPlacesOK ==
  ASSUME NEW ms, NEW next, PlacesOK(ms, next), NEW m \in Machine, NEW t, NEW lag \in Lag,
         TicketOn(ms[m], t)
  PROVE  LET new == [ms EXCEPT ![m] = Drop(ms[m], t, lag)] IN
         PlacesOK(new, next) /\ StillOut(new, ms)
<1> DEFINE new == [ms EXCEPT ![m] = Drop(ms[m], t, lag)]
<1>1. /\ ms \in [Machine -> MachineState] /\ ms \in Tables
      /\ \A n \in Machine : MachineOK(ms[n])
  BY DEF PlacesOK, Tables
<1>2. /\ MachineOK(Drop(ms[m], t, lag))
      /\ Drop(ms[m], t, lag).seat = ms[m].seat
      /\ \A s \in Side : SubLine(Drop(ms[m], t, lag).queue[s], ms[m].queue[s])
  BY <1>1, DropOK
<1>3. new \in Tables
  BY <1>1, <1>2, ReplaceOK DEF Tables
<1>4. Shrunk(new, ms) /\ SameSeats(new, ms)
  BY <1>1, <1>2, SubLineSelf DEF Shrunk, SameSeats
<1> QED
  BY <1>3, <1>4, ShrunkPlacesOK

LEMMA BackfillPlacesOK ==
  ASSUME NEW ms, NEW next, PlacesOK(ms, next), NEW m \in Machine, NEW w \in Side, NEW lag \in Lag
  PROVE  LET new == [ms EXCEPT ![m] = Backfill(ms[m], w, lag)] IN
         PlacesOK(new, next) /\ StillOut(new, ms)
<1> DEFINE new == [ms EXCEPT ![m] = Backfill(ms[m], w, lag)]
           s == opposite(w)
<1>1. /\ ms \in [Machine -> MachineState] /\ ms \in Tables /\ s \in Side
      /\ \A n \in Machine : MachineOK(ms[n])
  BY SideFacts DEF PlacesOK, Tables
<1>2. /\ MachineOK(Backfill(ms[m], w, lag))
      /\ Backfill(ms[m], w, lag).queue = ms[m].queue
      /\ Backfill(ms[m], w, lag).seat = [ms[m].seat EXCEPT ![s] = NoPlayer]
  BY <1>1, BackfillOK
<1>3. new \in Tables
  BY <1>1, <1>2, ReplaceOK DEF Tables
<1>4. Shrunk(new, ms)
  BY <1>1, <1>2, SubLineSelf DEF Shrunk
<1>5. \A n \in Machine : \A r \in Side :
        new[n].seat[r] = IF n = m /\ r = s THEN NoPlayer ELSE ms[n].seat[r]
  <2>1. \A n \in Machine : n # m => new[n] = ms[n]
    BY <1>1
  <2>2. new[m] = Backfill(ms[m], w, lag)
    BY <1>1
  <2>3. DOMAIN ms[m].seat = Side
    BY <1>1 DEF MachineState
  <2> QED
    BY <1>1, <1>2, <2>1, <2>2, <2>3
<1> HIDE DEF new, s
<1>6. OneSeat(new) /\ SeatedDoNotQueue(new)
  <2>1. ms \in Tables /\ OneSeat(ms) /\ SeatedDoNotQueue(ms)
    BY DEF PlacesOK
  <2>2. s \in Side /\ NoPlayer \in Player \cup {NoPlayer}
    BY <1>1
  <2> QED
    BY <1>3, <1>4, <1>5, <2>1, <2>2, SeatChange
<1>7. PlacesOK(new, next)
  BY <1>3, <1>4, <1>6, ShrunkLines, ShrunkTickets DEF PlacesOK
<1>8. StillOut(new, ms)
  <2> SUFFICES ASSUME NEW p \in Player, Out(ms, p) PROVE Out(new, p)
    BY DEF StillOut
  <2>1. \A n \in Machine : \A r \in Side : new[n].seat[r] # p
    BY <1>1, <1>5, OutFacts, ArcadeAssumption
  <2>2. \A n \in Machine : \A r \in Side : \A i \in DOMAIN new[n].queue[r] :
          new[n].queue[r][i].player # p
    BY <1>1, <1>3, <1>4, OutFacts, ShrunkPlayers
  <2> QED
    BY <1>3, <2>1, <2>2, OutFacts
<1> QED
  BY <1>7, <1>8 DEF new

LEMMA TakeSeatPlacesOK ==
  ASSUME NEW ms, NEW next, PlacesOK(ms, next), NEW m \in Machine, NEW t, NEW lag \in Lag,
         MayClaim(ms[m], t)
  PROVE  LET new == [ms EXCEPT ![m] = TakeSeat(ms[m], lag)] IN
         PlacesOK(new, next) /\ StillOut(new, ms)
<1> DEFINE new == [ms EXCEPT ![m] = TakeSeat(ms[m], lag)]
           c == ms[m].called
<1>1. /\ ms \in [Machine -> MachineState] /\ ms \in Tables
      /\ \A n \in Machine : MachineOK(ms[n])
  BY DEF PlacesOK, Tables
<1>2. /\ MachineOK(TakeSeat(ms[m], lag)) /\ c \in Call /\ c # NoCall
      /\ TakeSeat(ms[m], lag).seat = [ms[m].seat EXCEPT ![c.side] = c.player]
      /\ \A s \in Side : SubLine(TakeSeat(ms[m], lag).queue[s], ms[m].queue[s])
      /\ TakeSeat(ms[m], lag).queue[c.side] = Without(ms[m].queue[c.side], c.ticket)
  BY <1>1, TakeSeatOK DEF MayClaim
<1>3. new \in Tables /\ c.side \in Side /\ c.player \in Player
  BY <1>1, <1>2, ReplaceOK DEF Tables, Call
<1>4. Shrunk(new, ms)
  BY <1>1, <1>2, SubLineSelf DEF Shrunk
<1>5. new[m].queue[c.side] = Without(ms[m].queue[c.side], c.ticket)
  BY <1>1, <1>2
<1>6. \A n \in Machine : \A r \in Side :
        new[n].seat[r] = IF n = m /\ r = c.side THEN c.player ELSE ms[n].seat[r]
  <2>1. \A n \in Machine : n # m => new[n] = ms[n]
    BY <1>1
  <2>2. new[m] = TakeSeat(ms[m], lag)
    BY <1>1
  <2>3. DOMAIN ms[m].seat = Side
    BY <1>1 DEF MachineState
  <2> QED
    BY <1>1, <1>2, <2>1, <2>2, <2>3
<1> HIDE DEF new
<1>7. Stands(ms, c.player) /\ ~Stands(new, c.player)
  <2>1. LineInOrder(ms[m].queue[c.side]) /\ OneTicket(ms) /\ ms \in Tables
    BY <1>3 DEF PlacesOK, LinesInOrder
  <2>2. new \in Tables /\ c # NoCall
    BY <1>2, <1>3
  <2> QED
    BY <1>4, <1>5, <2>1, <2>2, CalledTicketGone
<1>8. \A n \in Machine : \A r \in Side : ms[n].seat[r] # c.player
  BY <1>3, <1>7 DEF PlacesOK, SeatedDoNotQueue, Stands
<1> HIDE DEF c
<1>9. OneSeat(new) /\ SeatedDoNotQueue(new)
  <2>1. ms \in Tables /\ OneSeat(ms) /\ SeatedDoNotQueue(ms) /\ c.player \in Player \cup {NoPlayer}
    BY <1>3 DEF PlacesOK
  <2>2. \A n \in Machine : \A r \in Side : \A i \in DOMAIN new[n].queue[r] :
          new[n].queue[r][i].player # c.player
    BY <1>7 DEF Stands
  <2> QED
    BY <1>3, <1>4, <1>6, <1>8, <2>1, <2>2, SeatChange
<1>10. PlacesOK(new, next)
  BY <1>3, <1>4, <1>9, ShrunkLines, ShrunkTickets DEF PlacesOK
<1>11. StillOut(new, ms)
  <2> SUFFICES ASSUME NEW p \in Player, Out(ms, p) PROVE Out(new, p)
    BY DEF StillOut
  <2>1. p # c.player
    BY <1>1, <1>3, <1>7, OutFacts DEF Stands
  <2>2. \A n \in Machine : \A r \in Side : new[n].seat[r] # p
    BY <1>1, <1>6, <2>1, OutFacts
  <2>3. \A n \in Machine : \A r \in Side : \A i \in DOMAIN new[n].queue[r] :
          new[n].queue[r][i].player # p
    BY <1>1, <1>3, <1>4, OutFacts, ShrunkPlayers
  <2> QED
    BY <1>3, <2>2, <2>3, OutFacts
<1> QED
  BY <1>10, <1>11 DEF new

LEMMA EnqueuePlacesOK ==
  ASSUME NEW ms, NEW next \in Nat, PlacesOK(ms, next), NEW m \in Machine, NEW s \in Side,
         NEW p \in Player, Out(ms, p), NEW lag \in Lag
  PROVE  LET e == [ticket |-> next, player |-> p]
             new == [n \in Machine |-> IF n = m THEN Enqueue(ms[n], s, e, lag) ELSE ms[n]] IN
         /\ PlacesOK(new, next + 1)
         /\ \A p2 \in Player : p2 # p /\ Out(ms, p2) => Out(new, p2)
<1> DEFINE e == [ticket |-> next, player |-> p]
           new == [n \in Machine |-> IF n = m THEN Enqueue(ms[n], s, e, lag) ELSE ms[n]]
           q == ms[m].queue[s]
           last == Len(q) + 1
<1>1. /\ ms \in [Machine -> MachineState] /\ ms \in Tables
      /\ \A n \in Machine : MachineOK(ms[n])
  BY DEF PlacesOK, Tables
<1>2. e \in Entry /\ e.ticket = next /\ e.player = p
  BY DEF Entry
<1> HIDE DEF e
<1>3. /\ MachineOK(Enqueue(ms[m], s, e, lag))
      /\ Enqueue(ms[m], s, e, lag).seat = ms[m].seat
      /\ Enqueue(ms[m], s, e, lag).queue = [ms[m].queue EXCEPT ![s] = Append(@, e)]
  BY <1>1, <1>2, EnqueueOK
<1>4. new \in Tables
  BY <1>1, <1>3 DEF Tables, MachineOK
<1>5. SameSeats(new, ms)
  BY <1>1, <1>3 DEF SameSeats
<1>6. /\ new[m].queue[s] = Append(q, e)
      /\ \A n \in Machine : \A r \in Side : ~(n = m /\ r = s) => new[n].queue[r] = ms[n].queue[r]
  <2>1. new[m].queue = [ms[m].queue EXCEPT ![s] = Append(@, e)]
    BY <1>3
  <2>2. DOMAIN ms[m].queue = Side
    BY <1>1 DEF MachineState
  <2>3. \A n \in Machine : n # m => new[n] = ms[n]
    OBVIOUS
  <2> QED
    BY <2>1, <2>2, <2>3
<1> HIDE DEF new
<1>7. q \in Seq(Entry)
  BY <1>1, TableFacts
<1>8. /\ DOMAIN q = 1 .. Len(q) /\ Len(q) \in Nat
      /\ DOMAIN Append(q, e) = 1 .. last
      /\ Append(q, e)[last] = e
      /\ \A i \in 1 .. Len(q) : Append(q, e)[i] = q[i]
  BY SMTT(30), <1>2, <1>7, AppendProperties, LenProperties
<1> HIDE DEF q, last
<1>9. ASSUME NEW n \in Machine, NEW r \in Side, NEW i \in DOMAIN new[n].queue[r]
      PROVE  \/ i \in DOMAIN ms[n].queue[r] /\ new[n].queue[r][i] = ms[n].queue[r][i]
             \/ n = m /\ r = s /\ i = last /\ new[n].queue[r][i] = e
  <2>1. CASE n = m /\ r = s
    <3>1. i \in 1 .. last /\ (i = last \/ i \in 1 .. Len(q))
      BY <1>6, <1>8, <2>1 DEF last
    <3> QED
      BY <1>6, <1>8, <2>1, <3>1 DEF q
  <2>2. CASE ~(n = m /\ r = s)
    BY <1>6, <2>2
  <2> QED
    BY <2>1, <2>2
<1>10. ASSUME NEW n \in Machine, NEW r \in Side, NEW i \in DOMAIN ms[n].queue[r]
       PROVE  /\ ms[n].queue[r][i].ticket \in Nat /\ ms[n].queue[r][i].ticket < next
              /\ ms[n].queue[r][i].player # p
  <2>1. ms[n].queue[r][i].ticket < next
    BY DEF PlacesOK, LinesInOrder
  <2>2. ms[n].queue[r][i].player # p
    BY <1>1, OutFacts
  <2> QED
    BY <1>1, <2>1, <2>2, TableFacts
<1>11. LinesInOrder(new, next + 1)
  <2> SUFFICES ASSUME NEW n \in Machine, NEW r \in Side
               PROVE  /\ LineInOrder(new[n].queue[r])
                      /\ \A i \in DOMAIN new[n].queue[r] : new[n].queue[r][i].ticket < next + 1
    BY DEF LinesInOrder
  <2>1. ASSUME NEW i \in DOMAIN new[n].queue[r]
        PROVE  new[n].queue[r][i].ticket < next + 1
    BY <1>2, <1>9, <1>10
  <2>2. ASSUME NEW i \in DOMAIN new[n].queue[r], NEW j \in DOMAIN new[n].queue[r], i < j
        PROVE  new[n].queue[r][i].ticket < new[n].queue[r][j].ticket
    <3>1. CASE ~(n = m /\ r = s)
      BY <1>6, <2>2, <3>1 DEF PlacesOK, LinesInOrder, LineInOrder
    <3>2. CASE n = m /\ r = s
      <4>1. i \in 1 .. Len(q) /\ (j \in 1 .. Len(q) \/ j = last)
        BY <1>6, <1>8, <2>2, <3>2 DEF last
      <4>2. LineInOrder(q)
        BY DEF PlacesOK, LinesInOrder, q
      <4>3. CASE j = last
        BY <1>2, <1>6, <1>8, <1>10, <3>2, <4>1, <4>3 DEF q
      <4>4. CASE j \in 1 .. Len(q)
        BY <1>6, <1>8, <2>2, <3>2, <4>1, <4>2, <4>4 DEF LineInOrder
      <4> QED
        BY <4>1, <4>3, <4>4
    <3> QED
      BY <3>1, <3>2
  <2> QED
    BY <2>1, <2>2 DEF LineInOrder
<1>12. UniqueTickets(new)
  <2> SUFFICES ASSUME NEW n \in Machine, NEW k \in Machine, NEW r \in Side, NEW u \in Side,
                      NEW i \in DOMAIN new[n].queue[r], NEW j \in DOMAIN new[k].queue[u],
                      new[n].queue[r][i].ticket = new[k].queue[u][j].ticket
               PROVE  n = k /\ r = u /\ i = j
    BY DEF UniqueTickets
  <2>1. CASE i \in DOMAIN ms[n].queue[r] /\ new[n].queue[r][i] = ms[n].queue[r][i]
    <3>1. new[k].queue[u][j] # e
      BY <1>2, <1>10, <2>1
    <3> QED
      BY <1>9, <2>1, <3>1 DEF PlacesOK, UniqueTickets
  <2>2. CASE n = m /\ r = s /\ i = last /\ new[n].queue[r][i] = e
    BY <1>2, <1>9, <1>10, <2>2
  <2> QED
    BY <1>9, <2>1, <2>2
<1>13. OneTicket(new)
  <2> SUFFICES ASSUME NEW n \in Machine, NEW k \in Machine, NEW r \in Side, NEW u \in Side,
                      NEW i \in DOMAIN new[n].queue[r], NEW j \in DOMAIN new[k].queue[u],
                      new[n].queue[r][i].player = new[k].queue[u][j].player
               PROVE  n = k /\ r = u /\ i = j
    BY DEF OneTicket
  <2>1. CASE i \in DOMAIN ms[n].queue[r] /\ new[n].queue[r][i] = ms[n].queue[r][i]
    <3>1. new[k].queue[u][j] # e
      BY <1>2, <1>10, <2>1
    <3> QED
      BY <1>9, <2>1, <3>1 DEF PlacesOK, OneTicket
  <2>2. CASE n = m /\ r = s /\ i = last /\ new[n].queue[r][i] = e
    BY <1>2, <1>9, <1>10, <2>2
  <2> QED
    BY <1>9, <2>1, <2>2
<1>14. \A n \in Machine : \A r \in Side : new[n].seat[r] = ms[n].seat[r] /\ ms[n].seat[r] # p
  BY <1>1, <1>5, OutFacts DEF SameSeats
<1>15. OneSeat(new)
  BY <1>14 DEF PlacesOK, OneSeat
<1>16. SeatedDoNotQueue(new)
  <2> SUFFICES ASSUME NEW n \in Machine, NEW k \in Machine, NEW r \in Side, NEW u \in Side,
                      NEW i \in DOMAIN new[n].queue[r]
               PROVE  new[n].queue[r][i].player # new[k].seat[u]
    BY DEF SeatedDoNotQueue
  <2> QED
    BY <1>2, <1>9, <1>14 DEF PlacesOK, SeatedDoNotQueue
<1>17. ASSUME NEW p2 \in Player, p2 # p, Out(ms, p2)
       PROVE  Out(new, p2)
  <2>1. ASSUME NEW n \in Machine, NEW r \in Side, NEW i \in DOMAIN new[n].queue[r]
        PROVE  new[n].queue[r][i].player # p2
    BY <1>1, <1>2, <1>9, <1>17, OutFacts
  <2>2. \A n \in Machine : \A r \in Side : new[n].seat[r] # p2
    BY <1>1, <1>14, <1>17, OutFacts
  <2> QED
    BY <1>4, <2>1, <2>2, OutFacts
<1>18. PlacesOK(new, next + 1)
  BY <1>4, <1>11, <1>12, <1>13, <1>15, <1>16 DEF PlacesOK
<1> QED
  BY <1>17, <1>18 DEF new, e

-----------------------------------------------------------------------------
(* The invariant.                                                          *)

\* A cooldown that runs by this clock reading or a later one keeps its player
\* out.
CooldownsOK(cooldown, ms) == \A p \in Player : cooldown[p] > 0 => Out(ms, p)

PlacesInv ==
  /\ DeskOK
  /\ PlacesOK(machines, next_ticket_id)
  /\ CooldownsOK(cooldown_until, machines)

\* Housekeeping: a no-show loses the only ticket the player has.
LEMMA SweptPlacesOK ==
  ASSUME PlacesInv, NEW lag \in Lag
  PROVE  /\ PlacesOK(Swept(lag), next_ticket_id)
         /\ CooldownsOK(CooldownAfter(lag), Swept(lag))
<1> DEFINE ms == Swept(lag)
<1>1. /\ machines \in Tables /\ PlacesOK(machines, next_ticket_id)
      /\ CooldownsOK(cooldown_until, machines) /\ DeskOK
  BY DEF PlacesInv, PlacesOK
<1>2. ms \in Tables /\ Shrunk(ms, machines) /\ SameSeats(ms, machines)
  BY <1>1, SweptOK DEF Tables, Shrunk, SameSeats
<1>3. PlacesOK(ms, next_ticket_id) /\ StillOut(ms, machines)
  BY <1>1, <1>2, ShrunkPlacesOK
<1>4. ASSUME NEW m \in Machine, NoShow(machines[m], lag), machines[m].called.player \in Player
      PROVE  Out(ms, machines[m].called.player)
  <2> DEFINE c == machines[m].called
  <2>1. c # NoCall /\ MachineOK(machines[m])
    BY <1>1, <1>4 DEF NoShow, DeskOK
  <2>2. ms[m].queue[c.side] = Without(machines[m].queue[c.side], c.ticket)
    BY <1>1, <1>4, <2>1, SweptOK, SweepOK
  <2>3. c \in Call \cup {NoCall}
    BY <1>1 DEF Tables, MachineState
  <2>4. c.side \in Side
    BY <2>1, <2>3 DEF Call
  <2>5. OneTicket(machines) /\ LineInOrder(machines[m].queue[c.side])
    BY <1>1, <2>4 DEF PlacesOK, LinesInOrder
  <2>6. Stands(machines, c.player) /\ ~Stands(ms, c.player)
    BY <1>1, <1>2, <2>1, <2>2, <2>5, CalledTicketGone
  <2>7. \A n \in Machine : \A r \in Side : machines[n].seat[r] # c.player
    BY <1>1, <2>6 DEF PlacesOK, SeatedDoNotQueue, Stands
  <2>8. \A n \in Machine : \A r \in Side : ms[n].seat[r] # c.player
    BY <1>2, <2>7 DEF SameSeats
  <2> HIDE DEF ms
  <2>9. \A n \in Machine : \A r \in Side : \A i \in DOMAIN ms[n].queue[r] :
          ms[n].queue[r][i].player # c.player
    BY <2>6 DEF Stands
  <2> QED
    BY <1>2, <1>4, <2>8, <2>9, OutFacts
<1> HIDE DEF ms
<1>5. ASSUME NEW p \in Player, CooldownAfter(lag)[p] > 0
      PROVE  Out(ms, p)
  <2>1. CASE p \in NoShows(lag)
    BY <1>4, <2>1 DEF NoShows
  <2>2. CASE p \notin NoShows(lag)
    <3>1. cooldown_until[p] > 0
      <4>1. CooldownAfter(lag)[p] = IF Passed(cooldown_until[p], lag) THEN -MaxLag ELSE cooldown_until[p]
        BY <2>2 DEF CooldownAfter
      <4>2. ~(-MaxLag > 0)
        BY ArcadeAssumption
      <4> QED
        BY <1>5, <4>1, <4>2
    <3> QED
      BY <1>1, <1>3, <3>1 DEF CooldownsOK, StillOut
  <2> QED
    BY <2>1, <2>2
<1> QED
  BY <1>3, <1>5 DEF CooldownsOK, ms

LEMMA InitPlacesInv == Init => PlacesInv
<1> SUFFICES ASSUME Init PROVE PlacesInv
  OBVIOUS
<1>1. DeskOK
  BY InitDeskOK
<1>2. machines \in Tables
  BY <1>1 DEF DeskOK, TypeOK, Tables
<1>3. \A m \in Machine : \A s \in Side :
        machines[m].queue[s] = <<>> /\ machines[m].seat[s] = NoPlayer
  BY DEF Init, EmptyMachines
<1>4. \A m \in Machine : \A s \in Side : DOMAIN machines[m].queue[s] = {}
  <2>1. \A m \in Machine : \A s \in Side : DOMAIN machines[m].queue[s] = 1 .. 0
    BY <1>3, EmptySeq
  <2> QED
    BY <2>1
<1>5. PlacesOK(machines, next_ticket_id)
  BY <1>2, <1>3, <1>4
  DEF PlacesOK, LinesInOrder, LineInOrder, UniqueTickets, OneTicket, OneSeat, SeatedDoNotQueue
<1>6. CooldownsOK(cooldown_until, machines)
  <2>1. \A p \in Player : ~(cooldown_until[p] > 0)
    BY ArcadeAssumption DEF Init
  <2> QED
    BY <2>1 DEF CooldownsOK
<1> QED
  BY <1>1, <1>5, <1>6 DEF PlacesInv

\* One request on one machine, after the housekeeping, that lets nobody in.
LEMMA HandlerPlacesOK ==
  ASSUME PlacesInv, NEW lag \in Lag, DeskOK', cooldown_until' = CooldownAfter(lag),
         next_ticket_id' = next_ticket_id,
         PlacesOK(machines', next_ticket_id), StillOut(machines', Swept(lag))
  PROVE  PlacesInv'
BY SweptPlacesOK DEF PlacesInv, CooldownsOK, StillOut, PlacesOK

LEMMA HousekeepingPlacesOK ==
  ASSUME PlacesInv, NEW lag \in Lag, OnlyHousekeeping(lag)
  PROVE  PlacesInv'
<1>1. DeskOK'
  BY HousekeepingDeskOK DEF PlacesInv
<1>2. PlacesOK(machines', next_ticket_id) /\ StillOut(machines', Swept(lag))
  BY SweptPlacesOK DEF OnlyHousekeeping, StillOut
<1> QED
  BY <1>1, <1>2, HandlerPlacesOK DEF OnlyHousekeeping

LEMMA TickPlacesOK == ASSUME PlacesInv, Tick PROVE PlacesInv'
<1>1. DeskOK' /\ \A m \in Machine : /\ machines'[m].queue = machines[m].queue
                                    /\ machines'[m].seat = machines[m].seat
  BY TickDeskOK DEF PlacesInv
<1>2. machines' \in Tables
  BY <1>1 DEF DeskOK, TypeOK, Tables
<1>3. Shrunk(machines', machines) /\ SameSeats(machines', machines)
  BY <1>1, SubLineSelf DEF Shrunk, SameSeats
<1>4. PlacesOK(machines', next_ticket_id) /\ StillOut(machines', machines)
  BY <1>2, <1>3, ShrunkPlacesOK DEF PlacesInv
<1>5. \A p \in Player : cooldown_until'[p] > 0 => cooldown_until[p] > 0
  BY DEF Tick, Earlier, PlacesInv, DeskOK, TypeOK
<1>6. next_ticket_id' = next_ticket_id
  BY DEF Tick
<1> QED
  BY <1>1, <1>4, <1>5, <1>6 DEF PlacesInv, CooldownsOK, StillOut, PlacesOK

LEMMA JoinPlacesOK ==
  ASSUME PlacesInv, NEW lag \in Lag, NEW m \in MachineId, NEW n \in Name, NEW s \in Side,
         join_queue(m, n, s, lag)
  PROVE  PlacesInv'
<1> DEFINE p == KeyOf[n]
           ms == Swept(lag)
           entry == [ticket |-> next_ticket_id, player |-> p]
<1>1. CASE OnlyHousekeeping(lag)
  BY <1>1, HousekeepingPlacesOK
<1>2. CASE /\ p # NoPlayer
           /\ MayJoin(ms, CooldownAfter(lag), p, lag)
           /\ next_ticket_id' = next_ticket_id + 1
           /\ machines' = [k \in Machine |-> IF k = m THEN Enqueue(ms[k], s, entry, lag) ELSE ms[k]]
           /\ cooldown_until' = CooldownAfter(lag)
  <2>1. DeskOK'
    BY JoinDeskOK DEF PlacesInv
  <2>2. p \in Player /\ next_ticket_id \in Nat
    BY <1>2, ArcadeAssumption DEF PlacesInv, DeskOK, TypeOK
  <2>3. PlacesOK(ms, next_ticket_id) /\ CooldownsOK(CooldownAfter(lag), ms)
    BY SweptPlacesOK
  <2>4. Out(ms, p) /\ ~(CooldownAfter(lag)[p] > 0)
    <3>1. CooldownAfter(lag)[p] \in Int /\ lag \in Nat
      BY <2>2, SweptOK, ArcadeAssumption DEF PlacesInv, Lag
    <3>2. CooldownAfter(lag)[p] + lag <= 0
      BY <1>2 DEF MayJoin, Passed
    <3> QED
      BY <1>2, <3>1, <3>2 DEF MayJoin, Out
  <2> HIDE DEF ms, p
  <2>5. /\ PlacesOK(machines', next_ticket_id')
        /\ \A p2 \in Player : p2 # p /\ Out(ms, p2) => Out(machines', p2)
    <3>1. CASE m \in Machine
      BY <1>2, <2>2, <2>3, <2>4, <3>1, EnqueuePlacesOK
    <3>2. CASE m \notin Machine
      <4>1. ms \in [Machine -> MachineState]
        BY <2>3 DEF PlacesOK, Tables
      <4>2. machines' = ms
        BY <1>2, <3>2, <4>1
      <4>3. LinesInOrder(ms, next_ticket_id + 1)
        <5> SUFFICES ASSUME NEW k \in Machine, NEW r \in Side,
                            NEW i \in DOMAIN ms[k].queue[r]
                     PROVE  ms[k].queue[r][i].ticket < next_ticket_id + 1
          BY <2>3 DEF PlacesOK, LinesInOrder
        <5>1. ms[k].queue[r][i].ticket < next_ticket_id
          BY <2>3 DEF PlacesOK, LinesInOrder
        <5>2. ms[k].queue[r][i].ticket \in Nat
          BY <2>3, TableFacts DEF PlacesOK
        <5> QED
          BY <2>2, <5>1, <5>2
      <4> QED
        BY <1>2, <2>3, <4>2, <4>3 DEF PlacesOK
    <3> QED
      BY <3>1, <3>2
  <2> QED
    BY <1>2, <2>1, <2>3, <2>4, <2>5 DEF PlacesInv, CooldownsOK, PlacesOK
<1> QED
  BY <1>1, <1>2 DEF join_queue

LEMMA StepPlacesInv == PlacesInv /\ [Next]_vars => PlacesInv'
<1> SUFFICES ASSUME PlacesInv, [Next]_vars PROVE PlacesInv'
  OBVIOUS
<1>1. DeskOK /\ DeskOK'
  BY StepDeskOK DEF PlacesInv
<1>2. CASE Tick
  BY <1>2, TickPlacesOK
<1>3. CASE Midnight
  BY <1>1, <1>3 DEF Midnight, PlacesInv, CooldownsOK, PlacesOK
<1>4. ASSUME NEW lag \in Lag, overview(lag)
      PROVE  PlacesInv'
  BY <1>4, HousekeepingPlacesOK DEF overview
<1>5. ASSUME NEW lag \in Lag, NEW m \in MachineId, NEW n \in Name, NEW s \in Side,
             join_queue(m, n, s, lag)
      PROVE  PlacesInv'
  BY <1>5, JoinPlacesOK
<1>6. ASSUME NEW lag \in Lag, NEW m \in MachineId, NEW t \in Ticket, leave_queue(m, t, lag)
      PROVE  PlacesInv'
  <2>1. CASE OnlyHousekeeping(lag)
    BY <2>1, HousekeepingPlacesOK
  <2>2. CASE /\ m \in Machine /\ TicketOn(Swept(lag)[m], t)
             /\ machines' = [Swept(lag) EXCEPT ![m] = Drop(Swept(lag)[m], t, lag)]
             /\ cooldown_until' = CooldownAfter(lag)
             /\ next_ticket_id' = next_ticket_id
    BY <1>1, <2>2, SweptPlacesOK, DropPlacesOK, HandlerPlacesOK
  <2> QED
    BY <1>6, <2>1, <2>2 DEF leave_queue
<1>7. ASSUME NEW lag \in Lag, NEW m \in MachineId, NEW t \in Ticket, claim_seat(m, t, lag)
      PROVE  PlacesInv'
  <2>1. CASE OnlyHousekeeping(lag)
    BY <2>1, HousekeepingPlacesOK
  <2>2. CASE /\ m \in Machine /\ MayClaim(Swept(lag)[m], t)
             /\ machines' = [Swept(lag) EXCEPT ![m] = TakeSeat(Swept(lag)[m], lag)]
             /\ cooldown_until' = CooldownAfter(lag)
             /\ next_ticket_id' = next_ticket_id
    BY <1>1, <2>2, SweptPlacesOK, TakeSeatPlacesOK, HandlerPlacesOK
  <2> QED
    BY <1>7, <2>1, <2>2 DEF claim_seat
<1>8. ASSUME NEW lag \in Lag, NEW m \in MachineId, NEW w \in Side, NEW ls \in Score,
             NEW rs \in Score, end_round(m, w, ls, rs, lag)
      PROVE  PlacesInv'
  <2>1. CASE OnlyHousekeeping(lag)
    BY <2>1, HousekeepingPlacesOK
  <2>2. CASE /\ m \in Machine
             /\ machines' = [Swept(lag) EXCEPT ![m] = Backfill(Swept(lag)[m], w, lag)]
             /\ cooldown_until' = CooldownAfter(lag)
             /\ next_ticket_id' = next_ticket_id
    BY <1>1, <2>2, SweptPlacesOK, BackfillPlacesOK, HandlerPlacesOK
  <2> QED
    BY <1>8, <2>1, <2>2 DEF end_round
<1>9. CASE UNCHANGED vars
  BY <1>1, <1>9 DEF vars, PlacesInv, CooldownsOK, PlacesOK
<1> QED
  BY <1>2, <1>3, <1>4, <1>5, <1>6, <1>7, <1>8, <1>9 DEF Next

\* Lines, seats and cooldowns fit together in every reachable state.
THEOREM PlacesInvariant == Spec => []PlacesInv
<1> QED
  BY InitPlacesInv, StepPlacesInv, PTL DEF Spec

\* Tickets stand in every line in the order they were handed out, each once.
THEOREM TicketOrder == Spec => []TicketsInOrder
<1>1. PlacesInv => TicketsInOrder
  BY DEF PlacesInv, PlacesOK, TicketsInOrder
<1> QED
  BY <1>1, PlacesInvariant, PTL

\* Nobody has two tickets, two seats, or a ticket and a seat.
THEOREM OnePlace == Spec => []OnePlacePerPlayer
<1>1. PlacesInv => OnePlacePerPlayer
  BY DEF PlacesInv, PlacesOK, OnePlacePerPlayer
<1> QED
  BY <1>1, PlacesInvariant, PTL

\* While a cooldown runs its player has no ticket and no seat, however stale
\* the clock reading of a request may be.
THEOREM CooldownsKeepOut == Spec => []CooldownKeepsPlayersOut
<1>1. PlacesInv => CooldownKeepsPlayersOut
  BY DEF PlacesInv, CooldownsOK, CooldownKeepsPlayersOut
<1> QED
  BY <1>1, PlacesInvariant, PTL
-----------------------------------------------------------------------------
(* The shapes of a step.                                                   *)

\* Time passes, or nothing does: lines and seats stay, and deadlines only
\* come nearer.
Quiet ==
  /\ \A m \in Machine : /\ machines'[m].queue = machines[m].queue
                        /\ machines'[m].seat = machines[m].seat
  /\ \A p \in Player :
       cooldown_until'[p] \in {cooldown_until[p], Earlier(cooldown_until[p])}

\* What a handler does after its housekeeping.
Joining(lag, m, p, s) ==
  /\ MayJoin(Swept(lag), CooldownAfter(lag), p, lag)
  /\ machines' = [n \in Machine |->
                    IF n = m THEN Enqueue(Swept(lag)[n], s, [ticket |-> next_ticket_id, player |-> p], lag)
                    ELSE Swept(lag)[n]]

Leaving(lag, m, t) ==
  /\ TicketOn(Swept(lag)[m], t)
  /\ machines' = [Swept(lag) EXCEPT ![m] = Drop(Swept(lag)[m], t, lag)]
  /\ leave_queue(m, t, lag)

Claiming(lag, m, t) ==
  /\ MayClaim(Swept(lag)[m], t)
  /\ machines' = [Swept(lag) EXCEPT ![m] = TakeSeat(Swept(lag)[m], lag)]

Ending(lag, m, w) ==
  /\ \E ls, rs \in Score : end_round(m, w, ls, rs, lag)
  /\ BothSeated(Swept(lag)[m])
  /\ machines' = [Swept(lag) EXCEPT ![m] = Backfill(Swept(lag)[m], w, lag)]

Handles(lag) ==
  /\ cooldown_until' = CooldownAfter(lag)
  /\ \/ machines' = Swept(lag)
     \/ \E m \in Machine, p \in Player, s \in Side : Joining(lag, m, p, s)
     \/ \E m \in Machine, t \in Ticket : Leaving(lag, m, t)
     \/ \E m \in Machine, t \in Ticket : Claiming(lag, m, t)
     \/ \E m \in Machine, w \in Side : Ending(lag, m, w)

LEMMA StepShape ==
  ASSUME PlacesInv, [Next]_vars
  PROVE  Quiet \/ \E lag \in Lag : Handles(lag)
<1>1. DeskOK
  BY DEF PlacesInv
<1>2. CASE Tick
  <2>1. \A p \in Player : cooldown_until'[p] = Earlier(cooldown_until[p])
    BY <1>2 DEF Tick
  <2> QED
    BY <1>1, <1>2, <2>1, TickDeskOK DEF Quiet
<1>3. CASE Midnight \/ UNCHANGED vars
  BY <1>1, <1>3 DEF Midnight, vars, Quiet, DeskOK, TypeOK
<1>4. ASSUME NEW lag \in Lag, OnlyHousekeeping(lag)
      PROVE  Handles(lag)
  BY <1>4 DEF OnlyHousekeeping, Handles
<1>5. ASSUME NEW lag \in Lag, NEW m \in MachineId, NEW n \in Name, NEW s \in Side,
             join_queue(m, n, s, lag)
      PROVE  Handles(lag)
  <2> DEFINE p == KeyOf[n]
             entry == [ticket |-> next_ticket_id, player |-> p]
  <2>1. CASE /\ p # NoPlayer
             /\ MayJoin(Swept(lag), CooldownAfter(lag), p, lag)
             /\ machines' = [k \in Machine |-> IF k = m THEN Enqueue(Swept(lag)[k], s, entry, lag)
                                                        ELSE Swept(lag)[k]]
             /\ cooldown_until' = CooldownAfter(lag)
    <3>1. p \in Player
      BY <2>1, ArcadeAssumption
    <3>2. CASE m \in Machine
      <4>1. Joining(lag, m, p, s)
        BY <2>1 DEF Joining
      <4> QED
        BY <2>1, <3>1, <3>2, <4>1 DEF Handles
    <3>3. CASE m \notin Machine
      <4>1. machines' = [k \in Machine |-> Swept(lag)[k]]
        BY <2>1, <3>3
      <4>2. machines' = Swept(lag)
        BY <4>1 DEF Swept
      <4> QED
        BY <2>1, <4>2 DEF Handles
    <3> QED
      BY <3>2, <3>3
  <2> QED
    BY <1>4, <1>5, <2>1 DEF join_queue
<1>6. ASSUME NEW lag \in Lag, NEW m \in MachineId, NEW t \in Ticket, leave_queue(m, t, lag)
      PROVE  Handles(lag)
  <2>1. CASE /\ m \in Machine /\ TicketOn(Swept(lag)[m], t)
             /\ machines' = [Swept(lag) EXCEPT ![m] = Drop(Swept(lag)[m], t, lag)]
             /\ cooldown_until' = CooldownAfter(lag)
    <3>1. Leaving(lag, m, t)
      BY <1>6, <2>1 DEF Leaving
    <3> QED
      BY <2>1, <3>1 DEF Handles
  <2> QED
    BY <1>4, <1>6, <2>1 DEF leave_queue
<1>7. ASSUME NEW lag \in Lag, NEW m \in MachineId, NEW t \in Ticket, claim_seat(m, t, lag)
      PROVE  Handles(lag)
  <2>1. CASE /\ m \in Machine /\ MayClaim(Swept(lag)[m], t)
             /\ machines' = [Swept(lag) EXCEPT ![m] = TakeSeat(Swept(lag)[m], lag)]
             /\ cooldown_until' = CooldownAfter(lag)
    <3>1. Claiming(lag, m, t)
      BY <2>1 DEF Claiming
    <3> QED
      BY <2>1, <3>1 DEF Handles
  <2> QED
    BY <1>4, <1>7, <2>1 DEF claim_seat
<1>8. ASSUME NEW lag \in Lag, NEW m \in MachineId, NEW w \in Side, NEW ls \in Score,
             NEW rs \in Score, end_round(m, w, ls, rs, lag)
      PROVE  Handles(lag)
  <2>1. CASE /\ m \in Machine /\ BothSeated(Swept(lag)[m])
             /\ machines' = [Swept(lag) EXCEPT ![m] = Backfill(Swept(lag)[m], w, lag)]
             /\ cooldown_until' = CooldownAfter(lag)
    <3>1. Ending(lag, m, w)
      BY <1>8, <2>1 DEF Ending
    <3> QED
      BY <2>1, <3>1 DEF Handles
  <2> QED
    BY <1>4, <1>8, <2>1 DEF end_round
<1> QED
  BY <1>2, <1>3, <1>4, <1>5, <1>6, <1>7, <1>8 DEF Next, overview

-----------------------------------------------------------------------------
(* What each shape does to lines and seats.                                *)

\* The tables a handler finds after its housekeeping.
LEMMA SweptFacts ==
  ASSUME PlacesInv, NEW lag \in Lag
  PROVE  /\ DeskOK
         /\ machines \in Tables /\ machines \in [Machine -> MachineState]
         /\ Swept(lag) \in Tables /\ Swept(lag) \in [Machine -> MachineState]
         /\ PlacesOK(Swept(lag), next_ticket_id)
         /\ \A n \in Machine : /\ MachineOK(Swept(lag)[n])
                               /\ Swept(lag)[n].seat = machines[n].seat
                               /\ Swept(lag)[n] = Sweep(machines[n], lag)
<1>1. DeskOK /\ PlacesOK(Swept(lag), next_ticket_id) /\ machines \in Tables
  BY SweptPlacesOK DEF PlacesInv, PlacesOK
<1> QED
  BY <1>1, SweptOK DEF PlacesOK, Tables

LEMMA JoiningFacts ==
  ASSUME PlacesInv, NEW lag \in Lag, NEW m \in Machine, NEW p \in Player, NEW s \in Side,
         Joining(lag, m, p, s)
  PROVE  /\ \A n \in Machine : machines'[n].seat = Swept(lag)[n].seat
         /\ \A n \in Machine : \A r \in Side :
              machines'[n].queue[r] =
                IF n = m /\ r = s
                THEN Append(Swept(lag)[n].queue[r], [ticket |-> next_ticket_id, player |-> p])
                ELSE Swept(lag)[n].queue[r]
<1> DEFINE e == [ticket |-> next_ticket_id, player |-> p]
           ms == Swept(lag)
<1>1. ms \in [Machine -> MachineState] /\ \A n \in Machine : MachineOK(ms[n])
  BY SweptFacts
<1>2. e \in Entry
  BY DEF PlacesInv, DeskOK, TypeOK, Entry
<1>3. machines' = [n \in Machine |-> IF n = m THEN Enqueue(ms[n], s, e, lag) ELSE ms[n]]
  BY DEF Joining
<1> HIDE DEF e, ms
<1>4. /\ Enqueue(ms[m], s, e, lag).seat = ms[m].seat
      /\ Enqueue(ms[m], s, e, lag).queue = [ms[m].queue EXCEPT ![s] = Append(@, e)]
  BY <1>1, <1>2, EnqueueOK
<1>5. DOMAIN ms[m].queue = Side
  BY <1>1 DEF MachineState
<1>6. \A r \in Side : Enqueue(ms[m], s, e, lag).queue[r] =
                        IF r = s THEN Append(ms[m].queue[r], e) ELSE ms[m].queue[r]
  BY <1>4, <1>5
<1> QED
  BY <1>3, <1>4, <1>6 DEF e, ms

LEMMA LeavingFacts ==
  ASSUME PlacesInv, NEW lag \in Lag, NEW m \in Machine, NEW t \in Ticket, Leaving(lag, m, t)
  PROVE  /\ \A n \in Machine : machines'[n].seat = Swept(lag)[n].seat
         /\ \A n \in Machine : \A r \in Side :
              machines'[n].queue[r] =
                IF n = m /\ r = SideOf(Swept(lag)[m], t)
                THEN Without(Swept(lag)[n].queue[r], t)
                ELSE Swept(lag)[n].queue[r]
<1> DEFINE ms == Swept(lag)
<1>1. ms \in [Machine -> MachineState] /\ \A n \in Machine : MachineOK(ms[n])
  BY SweptFacts
<1>2. TicketOn(ms[m], t) /\ machines' = [ms EXCEPT ![m] = Drop(ms[m], t, lag)]
  BY DEF Leaving
<1> HIDE DEF ms
<1>3. /\ Drop(ms[m], t, lag).seat = ms[m].seat
      /\ \A r \in Side : Drop(ms[m], t, lag).queue[r] =
                           IF r = SideOf(ms[m], t) THEN Without(ms[m].queue[r], t)
                           ELSE ms[m].queue[r]
  BY <1>1, <1>2, DropOK
<1>4. machines'[m] = Drop(ms[m], t, lag) /\ \A n \in Machine : n # m => machines'[n] = ms[n]
  BY <1>1, <1>2
<1> QED
  BY <1>3, <1>4 DEF ms

LEMMA ClaimingFacts ==
  ASSUME PlacesInv, NEW lag \in Lag, NEW m \in Machine, NEW t \in Ticket, Claiming(lag, m, t)
  PROVE  LET c == Swept(lag)[m].called IN
         /\ c \in Call /\ c # NoCall /\ c.ticket = t
         /\ Swept(lag)[m].seat[c.side] = NoPlayer
         /\ \A n \in Machine : \A r \in Side :
              /\ machines'[n].seat[r] = IF n = m /\ r = c.side THEN c.player
                                        ELSE Swept(lag)[n].seat[r]
              /\ machines'[n].queue[r] = IF n = m /\ r = c.side
                                         THEN Without(Swept(lag)[n].queue[r], t)
                                         ELSE Swept(lag)[n].queue[r]
<1> DEFINE ms == Swept(lag)
           c == ms[m].called
<1>1. ms \in [Machine -> MachineState] /\ \A n \in Machine : MachineOK(ms[n])
  BY SweptFacts
<1>2. MayClaim(ms[m], t) /\ machines' = [ms EXCEPT ![m] = TakeSeat(ms[m], lag)]
  BY DEF Claiming
<1> HIDE DEF ms
<1>3. c # NoCall /\ c.ticket = t /\ ms[m].seat[c.side] = NoPlayer
  BY <1>2 DEF MayClaim
<1>4. /\ c \in Call
      /\ TakeSeat(ms[m], lag).seat = [ms[m].seat EXCEPT ![c.side] = c.player]
      /\ TakeSeat(ms[m], lag).queue[c.side] = Without(ms[m].queue[c.side], t)
      /\ \A r \in Side : r # c.side => TakeSeat(ms[m], lag).queue[r] = ms[m].queue[r]
  BY <1>1, <1>2, <1>3, TakeSeatOK
<1>5. DOMAIN ms[m].seat = Side
  BY <1>1 DEF MachineState
<1>6. machines'[m] = TakeSeat(ms[m], lag) /\ \A n \in Machine : n # m => machines'[n] = ms[n]
  BY <1>1, <1>2
<1>7. \A r \in Side : TakeSeat(ms[m], lag).seat[r] = IF r = c.side THEN c.player ELSE ms[m].seat[r]
  BY <1>4, <1>5
<1> HIDE DEF c
<1>8. ASSUME NEW n \in Machine, NEW r \in Side
      PROVE  /\ machines'[n].seat[r] = IF n = m /\ r = c.side THEN c.player ELSE ms[n].seat[r]
             /\ machines'[n].queue[r] = IF n = m /\ r = c.side THEN Without(ms[n].queue[r], t)
                                        ELSE ms[n].queue[r]
  <2>1. CASE n = m
    BY <1>4, <1>6, <1>7, <2>1
  <2>2. CASE n # m
    BY <1>6, <2>2
  <2> QED
    BY <2>1, <2>2
<1> QED
  BY <1>3, <1>4, <1>8 DEF ms, c

LEMMA EndingFacts ==
  ASSUME PlacesInv, NEW lag \in Lag, NEW m \in Machine, NEW w \in Side, Ending(lag, m, w)
  PROVE  /\ \A r \in Side : Swept(lag)[m].seat[r] # NoPlayer
         /\ \A n \in Machine : \A r \in Side :
              /\ machines'[n].seat[r] = IF n = m /\ r = opposite(w) THEN NoPlayer
                                        ELSE Swept(lag)[n].seat[r]
              /\ machines'[n].queue[r] = Swept(lag)[n].queue[r]
<1> DEFINE ms == Swept(lag)
<1>1. ms \in [Machine -> MachineState] /\ \A n \in Machine : MachineOK(ms[n])
  BY SweptFacts
<1>2. BothSeated(ms[m]) /\ machines' = [ms EXCEPT ![m] = Backfill(ms[m], w, lag)]
  BY DEF Ending
<1> HIDE DEF ms
<1>3. /\ Backfill(ms[m], w, lag).queue = ms[m].queue
      /\ Backfill(ms[m], w, lag).seat = [ms[m].seat EXCEPT ![opposite(w)] = NoPlayer]
  BY SMTT(30), <1>1, BackfillOK
<1>4. DOMAIN ms[m].seat = Side
  BY <1>1 DEF MachineState
<1>5. machines'[m] = Backfill(ms[m], w, lag) /\ \A n \in Machine : n # m => machines'[n] = ms[n]
  BY <1>1, <1>2
<1>6. \A r \in Side : Backfill(ms[m], w, lag).seat[r] =
                        IF r = opposite(w) THEN NoPlayer ELSE ms[m].seat[r]
  BY <1>3, <1>4
<1>7. ASSUME NEW n \in Machine, NEW r \in Side
      PROVE  /\ machines'[n].seat[r] = IF n = m /\ r = opposite(w) THEN NoPlayer
                                       ELSE ms[n].seat[r]
             /\ machines'[n].queue[r] = ms[n].queue[r]
  <2>1. CASE n = m
    BY <1>3, <1>5, <1>6, <2>1
  <2>2. CASE n # m
    BY <1>5, <2>2
  <2> QED
    BY <2>1, <2>2
<1> QED
  BY <1>2, <1>7 DEF ms, BothSeated

-----------------------------------------------------------------------------
(* Winner stays.                                                           *)

\* A seated player gives up the seat only when a round of two seated players
\* ends, and the opponent keeps theirs.
THEOREM WinnersStay == Spec => WinnerStays
<1> DEFINE Stays ==
             \A m \in Machine : \A s \in Side :
               LET old == machines[m].seat[s]
                   winner == opposite(s) IN
               old # NoPlayer /\ machines'[m].seat[s] # old =>
                 /\ \E lag \in Lag, ls, rs \in Score : end_round(m, winner, ls, rs, lag)
                 /\ machines[m].seat[winner] # NoPlayer
                 /\ machines'[m].seat[winner] = machines[m].seat[winner]
<1>1. PlacesInv /\ [Next]_vars => [Stays]_vars
  <2> SUFFICES ASSUME PlacesInv, [Next]_vars, NEW n \in Machine, NEW r \in Side,
                      machines[n].seat[r] # NoPlayer, machines'[n].seat[r] # machines[n].seat[r]
               PROVE  /\ \E lag \in Lag, ls, rs \in Score : end_round(n, opposite(r), ls, rs, lag)
                      /\ machines[n].seat[opposite(r)] # NoPlayer
                      /\ machines'[n].seat[opposite(r)] = machines[n].seat[opposite(r)]
    OBVIOUS
  <2>1. PICK lag \in Lag : Handles(lag)
    BY StepShape DEF Quiet
  <2>2. \A k \in Machine : Swept(lag)[k].seat = machines[k].seat
    BY SweptFacts
  <2>3. machines' # Swept(lag)
    BY <2>2
  <2>4. ~\E m \in Machine, p \in Player, s \in Side : Joining(lag, m, p, s)
    BY <2>2, JoiningFacts
  <2>5. ~\E m \in Machine, t \in Ticket : Leaving(lag, m, t)
    BY <2>2, LeavingFacts
  <2>6. ~\E m \in Machine, t \in Ticket : Claiming(lag, m, t)
    <3> SUFFICES ASSUME NEW m \in Machine, NEW t \in Ticket, Claiming(lag, m, t)
                 PROVE  FALSE
      OBVIOUS
    <3> QED
      BY <2>2, ClaimingFacts
  <2>7. PICK m \in Machine, w \in Side : Ending(lag, m, w)
    BY <2>1, <2>3, <2>4, <2>5, <2>6 DEF Handles
  <2>8. n = m /\ r = opposite(w) /\ opposite(r) \in Side /\ opposite(r) # r
    BY <2>2, <2>7, EndingFacts, SideFacts
  <2>9. opposite(r) = w /\ \E ls, rs \in Score : end_round(n, w, ls, rs, lag)
    BY <2>7, <2>8, SideFacts DEF Ending
  <2> QED
    BY <2>2, <2>7, <2>8, <2>9, EndingFacts
<1> QED
  BY <1>1, PlacesInvariant, PTL DEF Spec, WinnerStays

-----------------------------------------------------------------------------
(* Who is put on cooldown, and why a called ticket goes.                   *)

\* A player whose call timed out is on cooldown after the housekeeping, and
\* the deadline of that call has passed by the wall clock too.
LEMMA NoShowFacts ==
  ASSUME PlacesInv, NEW lag \in Lag, NEW m \in Machine, NoShow(machines[m], lag)
  PROVE  LET c == machines[m].called IN
         /\ c \in Call /\ c # NoCall /\ c.side \in Side /\ c.player \in Player
         /\ c.expires <= 0
         /\ c.player \in NoShows(lag)
         /\ CooldownAfter(lag)[c.player] > 0
<1> DEFINE c == machines[m].called
<1>1. c \in Call /\ c # NoCall
  BY SweptFacts DEF NoShow, MachineState
<1>2. c.side \in Side /\ c.player \in Player /\ c.expires \in Int
  BY <1>1 DEF Call
<1>3. lag \in Nat /\ NoShowCooldown - lag > 0
  BY ArcadeAssumption DEF Lag
<1>4. c.expires <= 0
  BY <1>2, <1>3 DEF NoShow, Passed
<1>5. c.player \in NoShows(lag)
  BY DEF NoShows
<1>6. CooldownAfter(lag)[c.player] = NoShowCooldown - lag
  BY <1>2, <1>5 DEF CooldownAfter
<1> QED
  BY <1>1, <1>2, <1>3, <1>4, <1>5, <1>6

\* A cooldown that is over is kept at -MaxLag, where every handler sees it
\* passed, and never lower.
CooldownFloor == \A p \in Player : cooldown_until[p] >= -MaxLag

LEMMA StepCooldownFloor == PlacesInv /\ CooldownFloor /\ [Next]_vars => CooldownFloor'
<1> SUFFICES ASSUME PlacesInv, CooldownFloor, [Next]_vars, NEW p \in Player
             PROVE  cooldown_until'[p] >= -MaxLag
  BY DEF CooldownFloor
<1>1. cooldown_until[p] \in Int /\ cooldown_until[p] >= -MaxLag /\ MaxLag \in Nat
  BY ArcadeAssumption DEF PlacesInv, DeskOK, TypeOK, CooldownFloor
<1>2. CASE Quiet
  BY <1>1, <1>2 DEF Quiet, Earlier
<1>3. ASSUME NEW lag \in Lag, Handles(lag)
      PROVE  cooldown_until'[p] >= -MaxLag
  <2>1. cooldown_until'[p] \in {NoShowCooldown - lag, -MaxLag, cooldown_until[p]}
    BY <1>3 DEF Handles, CooldownAfter
  <2>2. NoShowCooldown - lag >= -MaxLag
    BY ArcadeAssumption DEF Lag
  <2> QED
    BY <1>1, <2>1, <2>2
<1> QED
  BY <1>2, <1>3, StepShape

\* No cooldown of the desk is ever lower than that, however long ago it ended.
THEOREM CooldownsHaveAFloor == Spec => []CooldownFloor
<1>1. Init => CooldownFloor
  BY ArcadeAssumption DEF Init, CooldownFloor
<1> QED
  BY <1>1, StepCooldownFloor, PlacesInvariant, PTL DEF Spec

\* A cooldown starts only for a player whose own call ran out, and not before
\* its deadline by the wall clock, whatever the age of the clock reading.
THEOREM CooldownsAreEarned == Spec => CooldownOnlyForNoShows
<1> DEFINE Earned ==
             \A p \in Player : cooldown_until'[p] > cooldown_until[p] =>
               \E m \in Machine : /\ machines[m].called # NoCall
                                  /\ machines[m].called.player = p
                                  /\ machines[m].called.expires <= 0
<1>1. PlacesInv /\ CooldownFloor /\ [Next]_vars => [Earned]_vars
  <2> SUFFICES ASSUME PlacesInv, CooldownFloor, [Next]_vars, NEW p \in Player,
                      cooldown_until'[p] > cooldown_until[p]
               PROVE  \E m \in Machine : /\ machines[m].called # NoCall
                                         /\ machines[m].called.player = p
                                         /\ machines[m].called.expires <= 0
    OBVIOUS
  <2>1. cooldown_until[p] \in Int /\ cooldown_until[p] >= -MaxLag /\ MaxLag \in Nat
    BY ArcadeAssumption DEF PlacesInv, DeskOK, TypeOK, CooldownFloor
  <2>2. ~Quiet
    BY <2>1 DEF Quiet, Earlier
  <2>3. PICK lag \in Lag : Handles(lag)
    BY <2>2, StepShape
  <2>4. cooldown_until'[p] = CooldownAfter(lag)[p]
    BY <2>3 DEF Handles
  <2>5. p \in NoShows(lag)
    BY <2>1, <2>4 DEF CooldownAfter
  <2>6. PICK m \in Machine : NoShow(machines[m], lag) /\ machines[m].called.player = p
    BY <2>5 DEF NoShows
  <2> QED
    BY <2>6, NoShowFacts
<1> QED
  BY <1>1, PlacesInvariant, CooldownsHaveAFloor, PTL DEF Spec, CooldownOnlyForNoShows

InLine(q, e) == \E i \in DOMAIN q : q[i] = e

\* Removing one ticket keeps every other.
LEMMA WithoutKeepsOthers ==
  ASSUME NEW q \in Seq(Entry), NEW t, NEW i \in DOMAIN q, q[i].ticket # t
  PROVE  InLine(Without(q, t), q[i]) /\ HasTicket(Without(q, t), q[i].ticket)
<1> SUFFICES InLine(Without(q, t), q[i])
  BY DEF InLine, HasTicket
<1>1. CASE ~HasTicket(q, t)
  BY <1>1 DEF Without, InLine
<1>2. CASE HasTicket(q, t)
  <2> DEFINE k == Position(q, t)
             j == IF i < k THEN i ELSE i - 1
  <2>1. k \in 1 .. Len(q) /\ q[k].ticket = t
    BY <1>2, LenProperties DEF HasTicket, Position
  <2>2. Without(q, t) = RemoveAt(q, k)
    BY <1>2 DEF Without
  <2> HIDE DEF k
  <2>3. /\ Without(q, t) \in Seq(Entry)
        /\ Len(Without(q, t)) = Len(q) - 1
        /\ \A a \in 1 .. Len(q) - 1 :
             Without(q, t)[a] = IF a < k THEN q[a] ELSE q[a + 1]
    BY <2>1, <2>2, RemoveAtProperties
  <2>4. DOMAIN Without(q, t) = 1 .. Len(q) - 1 /\ i \in 1 .. Len(q) /\ Len(q) \in Nat /\ i # k
    BY <2>1, <2>3, LenProperties
  <2>5. j \in 1 .. Len(q) - 1 /\ (j < k => j = i) /\ (~(j < k) => j + 1 = i)
    BY <2>1, <2>4
  <2> HIDE DEF j
  <2>6. Without(q, t)[j] = q[i]
    BY <2>3, <2>5
  <2> QED
    BY <2>4, <2>5, <2>6 DEF InLine
<1> QED
  BY <1>1, <1>2

\* The head of the line a call is for.
LEMMA CalledHead ==
  ASSUME NEW mc, MachineOK(mc), mc.called # NoCall
  PROVE  LET c == mc.called
             q == mc.queue[c.side] IN
         /\ c \in Call /\ c.side \in Side /\ c.player \in Player
         /\ q \in Seq(Entry) /\ 1 \in DOMAIN q
         /\ q[1].ticket = c.ticket /\ q[1].player = c.player
<1> DEFINE c == mc.called
           q == mc.queue[c.side]
<1>1. mc \in MachineState /\ CalledMachineOK(mc)
  BY DEF MachineOK
<1>2. c \in Call
  BY <1>1 DEF MachineState
<1>3. c.side \in Side /\ c.player \in Player
  BY <1>2 DEF Call
<1>4. q \in Seq(Entry)
  BY <1>1, <1>3 DEF MachineState
<1>5. q # <<>> /\ q[1] = [ticket |-> c.ticket, player |-> c.player]
  BY <1>1 DEF CalledMachineOK
<1> HIDE DEF c, q
<1>6. 1 \in DOMAIN q
  BY <1>4, <1>5, EntryOfLine, EmptySeq
<1> QED
  BY <1>2, <1>3, <1>4, <1>5, <1>6 DEF c, q

\* A called ticket that is gone after a step: its player sits, left the line
\* or is on cooldown.
LEMMA StepAccountsForCall ==
  ASSUME PlacesInv, [Next]_vars, NEW m \in Machine, machines[m].called # NoCall,
         ~HasTicket(machines'[m].queue[machines[m].called.side], machines[m].called.ticket)
  PROVE  \/ machines'[m].seat[machines[m].called.side] = machines[m].called.player
         \/ cooldown_until'[machines[m].called.player] > 0
         \/ \E lag \in Lag : leave_queue(m, machines[m].called.ticket, lag)
<1> DEFINE c == machines[m].called
           q == machines[m].queue[c.side]
<1>1. MachineOK(machines[m])
  BY DEF PlacesInv, DeskOK
<1>2. /\ c \in Call /\ c # NoCall /\ c.side \in Side /\ c.player \in Player
      /\ q \in Seq(Entry) /\ 1 \in DOMAIN q /\ q[1].ticket = c.ticket
  BY <1>1, CalledHead
<1>3. HasTicket(q, c.ticket)
  BY <1>2 DEF HasTicket
<1>4. ~Quiet
  BY <1>3 DEF Quiet
<1>5. PICK lag \in Lag : Handles(lag)
  BY <1>4, StepShape
<1>6. CASE NoShow(machines[m], lag)
  BY <1>5, <1>6, NoShowFacts DEF Handles
<1>7. CASE ~NoShow(machines[m], lag)
  <2>1. Swept(lag)[m].queue = machines[m].queue /\ Swept(lag)[m].called = c
    BY <1>1, <1>7, SweptFacts, SweepOK
  <2>2. Swept(lag)[m].queue[c.side] = q
    BY <2>1
  <2>3. machines' # Swept(lag)
    BY <1>3, <2>2
  <2>4. ASSUME NEW n \in Machine, NEW p \in Player, NEW s \in Side, Joining(lag, n, p, s)
        PROVE  FALSE
    <3> DEFINE e == [ticket |-> next_ticket_id, player |-> p]
    <3>1. machines'[m].queue[c.side] = IF m = n /\ c.side = s THEN Append(q, e) ELSE q
      <4>1. c.side \in Side
        BY <1>2
      <4> HIDE DEF c, e
      <4>2. machines'[m].queue[c.side] = IF m = n /\ c.side = s THEN Append(Swept(lag)[m].queue[c.side], e)
                                         ELSE Swept(lag)[m].queue[c.side]
        BY <2>4, <4>1, JoiningFacts DEF e
      <4> QED
        BY <2>2, <4>2
    <3>2. e \in Entry
      BY DEF PlacesInv, DeskOK, TypeOK, Entry
    <3>3. 1 \in DOMAIN Append(q, e) /\ Append(q, e)[1] = q[1]
      <4>1. Len(q) \in Nat /\ 1 \in 1 .. Len(q)
        BY <1>2, LenProperties
      <4> HIDE DEF e, q
      <4>2. Append(q, e) \in Seq(Entry) /\ Len(Append(q, e)) = Len(q) + 1 /\ Append(q, e)[1] = q[1]
        BY <1>2, <3>2, <4>1, AppendProperties
      <4> QED
        BY <4>1, <4>2, LenProperties
    <3> QED
      BY <1>2, <1>3, <3>1, <3>3 DEF HasTicket
  <2>5. ASSUME NEW n \in Machine, NEW t \in Ticket, Leaving(lag, n, t)
        PROVE  leave_queue(m, c.ticket, lag)
    <3>1. \/ machines'[m].queue[c.side] = q
          \/ m = n /\ machines'[m].queue[c.side] = Without(q, t)
      <4>1. machines'[m].queue[c.side] = IF m = n /\ c.side = SideOf(Swept(lag)[n], t)
                                         THEN Without(Swept(lag)[m].queue[c.side], t)
                                         ELSE Swept(lag)[m].queue[c.side]
        BY <1>2, <2>5, LeavingFacts
      <4> QED
        BY <2>2, <4>1
    <3>2. m = n /\ machines'[m].queue[c.side] = Without(q, t)
      BY <1>3, <3>1
    <3>3. t = c.ticket
      <4> SUFFICES ASSUME t # c.ticket PROVE FALSE
        OBVIOUS
      <4>1. HasTicket(Without(q, t), c.ticket)
        <5> HIDE DEF q, c
        <5> QED
          BY <1>2, WithoutKeepsOthers
      <4> QED
        BY <3>2, <4>1
    <3> QED
      BY <2>5, <3>2, <3>3 DEF Leaving
  <2>6. ASSUME NEW n \in Machine, NEW t \in Ticket, Claiming(lag, n, t)
        PROVE  machines'[m].seat[c.side] = c.player
    <3> DEFINE d == Swept(lag)[n].called
    <3>1. /\ machines'[m].seat[c.side] = IF m = n /\ c.side = d.side THEN d.player
                                          ELSE Swept(lag)[m].seat[c.side]
          /\ machines'[m].queue[c.side] = IF m = n /\ c.side = d.side THEN Without(Swept(lag)[m].queue[c.side], t)
                                           ELSE Swept(lag)[m].queue[c.side]
      <4>1. c.side \in Side
        BY <1>2
      <4> HIDE DEF c
      <4> QED
        BY <2>6, <4>1, ClaimingFacts
    <3>2. n = m => d = c
      BY <2>1
    <3>3. m = n /\ c.side = d.side
      <4> HIDE DEF d
      <4> QED
        BY <1>3, <2>2, <3>1
    <3> QED
      BY <3>1, <3>2, <3>3
  <2>7. ASSUME NEW n \in Machine, NEW w \in Side, Ending(lag, n, w)
        PROVE  FALSE
    <3>1. machines'[m].queue[c.side] = q
      BY <1>2, <2>2, <2>7, EndingFacts
    <3> QED
      BY <1>3, <3>1
  <2> QED
    BY <1>5, <2>3, <2>4, <2>5, <2>6, <2>7 DEF Handles
<1> QED
  BY <1>6, <1>7

\* A called ticket never just vanishes: its player takes the seat, leaves the
\* line, or is on cooldown for not answering.
THEOREM CalledTicketsAreAccountedFor == Spec => CalledTicketIsAccountedFor
<1> DEFINE Accounted ==
             \A m \in Machine :
               LET c == machines[m].called IN
               c # NoCall /\ ~HasTicket(machines'[m].queue[c.side], c.ticket) =>
                 \/ machines'[m].seat[c.side] = c.player
                 \/ cooldown_until'[c.player] > 0
                 \/ \E lag \in Lag : leave_queue(m, c.ticket, lag)
<1>1. PlacesInv /\ [Next]_vars => [Accounted]_vars
  BY StepAccountsForCall
<1> QED
  BY <1>1, PlacesInvariant, PTL DEF Spec, CalledTicketIsAccountedFor

-----------------------------------------------------------------------------
(* Nobody overtakes.                                                       *)

\* Older tickets than the head's are not in a line in order, nor in what is
\* left of it.
LEMMA NobodyBeforeTheHead ==
  ASSUME NEW q \in Seq(Entry), LineInOrder(q), 1 \in DOMAIN q,
         NEW t, NEW old \in Nat, old < q[1].ticket
  PROVE  ~HasTicket(q, old) /\ ~HasTicket(Without(q, t), old)
<1>1. \A i \in DOMAIN q : i \in Nat /\ i >= 1 /\ q[i].ticket \in Nat
  BY EntryOfLine
<1>2. ~HasTicket(q, old)
  <2> SUFFICES ASSUME NEW i \in DOMAIN q, q[i].ticket = old PROVE FALSE
    BY DEF HasTicket
  <2>1. i = 1 \/ 1 < i
    BY <1>1
  <2>2. 1 < i => q[1].ticket < q[i].ticket
    BY DEF LineInOrder
  <2> QED
    BY <1>1, <2>1, <2>2
<1>3. ~HasTicket(Without(q, t), old)
  BY <1>2, WithoutIsSubLine DEF HasTicket, SubLine
<1> QED
  BY <1>2, <1>3

\* An entry the housekeeping took out of a line is the one that was called.
LEMMA SweptAwayIsNoShow ==
  ASSUME PlacesInv, NEW lag \in Lag, NEW m \in Machine, NEW s \in Side,
         NEW j \in DOMAIN machines[m].queue[s],
         ~HasTicket(Swept(lag)[m].queue[s], machines[m].queue[s][j].ticket)
  PROVE  /\ NoShow(machines[m], lag)
         /\ machines[m].called.side = s
         /\ machines[m].queue[s][j].player = machines[m].called.player
<1> DEFINE q == machines[m].queue[s]
           c == machines[m].called
<1>1. MachineOK(machines[m]) /\ q \in Seq(Entry) /\ LineInOrder(q)
  BY SweptFacts, TableFacts DEF Tables, PlacesInv, PlacesOK, LinesInOrder
<1>2. HasTicket(q, q[j].ticket)
  BY DEF HasTicket
<1>3. NoShow(machines[m], lag) /\ c.side = s
  <2>1. Swept(lag)[m].queue[s] # q
    BY <1>2
  <2> QED
    BY <1>1, <2>1, SweptFacts, SweepOK
<1>4. Swept(lag)[m].queue[s] = Without(q, c.ticket)
  BY <1>1, <1>3, SweptFacts, SweepOK
<1>5. q[j].ticket = c.ticket
  <2> SUFFICES ASSUME q[j].ticket # c.ticket PROVE FALSE
    OBVIOUS
  <2>1. j \in DOMAIN q
    OBVIOUS
  <2>2. HasTicket(Without(q, c.ticket), q[j].ticket)
    <3> HIDE DEF q, c
    <3> QED
      BY <1>1, <2>1, WithoutKeepsOthers
  <2> QED
    BY <1>4, <2>2
<1>6. 1 \in DOMAIN q /\ q[1].ticket = c.ticket /\ q[1].player = c.player
  BY <1>1, <1>3, CalledHead DEF NoShow
<1>7. j = 1
  BY <1>5, <1>6 DEF PlacesInv, PlacesOK, UniqueTickets
<1> QED
  BY <1>3, <1>6, <1>7

LEMMA StepSeatsInOrder ==
  ASSUME PlacesInv, [Next]_vars, NEW m \in Machine, NEW s \in Side,
         machines'[m].seat[s] # machines[m].seat[s], machines'[m].seat[s] # NoPlayer
  PROVE  LET q == machines[m].queue[s] IN
         \E i \in DOMAIN q :
           /\ q[i].player = machines'[m].seat[s]
           /\ ~HasTicket(machines'[m].queue[s], q[i].ticket)
           /\ \A j \in DOMAIN q : q[j].ticket < q[i].ticket =>
                /\ ~HasTicket(machines'[m].queue[s], q[j].ticket)
                /\ cooldown_until'[q[j].player] > 0
<1> DEFINE q == machines[m].queue[s]
<1>1. PICK lag \in Lag : Handles(lag)
  BY StepShape DEF Quiet
<1> DEFINE ms == Swept(lag)
           sq == ms[m].queue[s]
<1>2. \A n \in Machine : ms[n].seat = machines[n].seat
  BY SweptFacts
<1>3. PICK t \in Ticket : Claiming(lag, m, t) /\ ms[m].called.side = s
  <2>1. machines' # ms
    BY <1>2
  <2>2. ~\E n \in Machine, p \in Player, r \in Side : Joining(lag, n, p, r)
    BY <1>2, JoiningFacts
  <2>3. ~\E n \in Machine, t \in Ticket : Leaving(lag, n, t)
    BY <1>2, LeavingFacts
  <2>4. ~\E n \in Machine, w \in Side : Ending(lag, n, w)
    BY <1>2, EndingFacts
  <2>5. PICK n \in Machine, t \in Ticket : Claiming(lag, n, t)
    BY <1>1, <2>1, <2>2, <2>3, <2>4 DEF Handles
  <2>6. n = m /\ ms[m].called.side = s
    BY <1>2, <2>5, ClaimingFacts
  <2> QED
    BY <2>5, <2>6
<1> DEFINE c == ms[m].called
<1>4. /\ c # NoCall /\ c.ticket = t
      /\ machines'[m].seat[s] = c.player
      /\ machines'[m].queue[s] = Without(sq, t)
  BY <1>3, ClaimingFacts
<1>5. MachineOK(ms[m]) /\ LineInOrder(sq)
  BY SweptFacts DEF PlacesOK, LinesInOrder
<1>6. sq \in Seq(Entry) /\ 1 \in DOMAIN sq /\ sq[1].ticket = t /\ sq[1].player = c.player
  BY <1>3, <1>4, <1>5, CalledHead
<1>7. PICK i \in DOMAIN q : q[i] = sq[1]
  <2>1. SubLine(sq, q)
    BY SweptFacts, SweptOK
  <2> QED
    BY <1>6, <2>1 DEF SubLine
<1>8. ~HasTicket(machines'[m].queue[s], q[i].ticket)
  BY <1>4, <1>5, <1>6, <1>7, WithoutDropsTicket
<1>9. ASSUME NEW j \in DOMAIN q, q[j].ticket < q[i].ticket
      PROVE  /\ ~HasTicket(machines'[m].queue[s], q[j].ticket)
             /\ cooldown_until'[q[j].player] > 0
  <2>1. q[j].ticket \in Nat
    BY SweptFacts, TableFacts
  <2>2. ~HasTicket(sq, q[j].ticket) /\ ~HasTicket(Without(sq, t), q[j].ticket)
    BY <1>5, <1>6, <1>7, <1>9, <2>1, NobodyBeforeTheHead
  <2>3. NoShow(machines[m], lag) /\ q[j].player = machines[m].called.player
    BY <2>2, SweptAwayIsNoShow
  <2>4. cooldown_until'[q[j].player] > 0
    BY <1>1, <2>3, NoShowFacts DEF Handles
  <2> QED
    BY <1>4, <2>2, <2>4
<1> QED
  BY <1>4, <1>6, <1>7, <1>8, <1>9

\* Whoever takes a seat leaves the line with the ticket, and every older
\* ticket of that line has just been dropped as a no-show.
THEOREM NobodyOvertakes == Spec => SeatsGoInTicketOrder
<1> DEFINE InOrder ==
             \A m \in Machine : \A s \in Side :
               LET old == machines[m].seat[s]
                   new == machines'[m].seat[s]
                   q == machines[m].queue[s] IN
               new # old /\ new # NoPlayer =>
                 \E i \in DOMAIN q :
                   /\ q[i].player = new
                   /\ ~HasTicket(machines'[m].queue[s], q[i].ticket)
                   /\ \A j \in DOMAIN q : q[j].ticket < q[i].ticket =>
                        /\ ~HasTicket(machines'[m].queue[s], q[j].ticket)
                        /\ cooldown_until'[q[j].player] > 0
<1>1. PlacesInv /\ [Next]_vars => [InOrder]_vars
  BY StepSeatsInOrder
<1> QED
  BY <1>1, PlacesInvariant, PTL DEF Spec, SeatsGoInTicketOrder

-----------------------------------------------------------------------------
(* The two score tables.                                                   *)

ScoreOrNone == Nat \cup {NoScore}

\* The global table holds the best of the machine table.
TablesAgree(byMachine, global) ==
  \A d \in Day, p \in Player :
    /\ \A m \in Machine : byMachine[<<d, m, p>>] <= global[<<d, p>>]
    /\ \E m \in Machine : byMachine[<<d, m, p>>] = global[<<d, p>>]

LEMMA RecordedFacts ==
  ASSUME NEW K, NEW f \in [K -> ScoreOrNone], NEW k \in K, NEW n \in Nat
  PROVE  /\ Recorded(f, k, n) \in [K -> ScoreOrNone]
         /\ \A j \in K : Recorded(f, k, n)[j] = IF j = k THEN Best(f[j], n) ELSE f[j]
BY DEF Recorded, Best, ScoreOrNone

\* One score written to both tables keeps them in agreement.
LEMMA RecordedAgree ==
  ASSUME NEW ts \in [Day \X Machine \X Player -> ScoreOrNone],
         NEW gs \in [Day \X Player -> ScoreOrNone], TablesAgree(ts, gs),
         NEW d \in Day, NEW m \in Machine, NEW p \in Player, NEW n \in Nat
  PROVE  TablesAgree(Recorded(ts, <<d, m, p>>, n), Recorded(gs, <<d, p>>, n))
<1> DEFINE ts2 == Recorded(ts, <<d, m, p>>, n)
           gs2 == Recorded(gs, <<d, p>>, n)
<1>1. ASSUME NEW e \in Day, NEW k \in Machine, NEW r \in Player
      PROVE  /\ ts2[<<e, k, r>>] = IF e = d /\ k = m /\ r = p THEN Best(ts[<<e, k, r>>], n) ELSE ts[<<e, k, r>>]
             /\ ts[<<e, k, r>>] \in ScoreOrNone
  <2>1. <<d, m, p>> \in Day \X Machine \X Player /\ <<e, k, r>> \in Day \X Machine \X Player
    OBVIOUS
  <2>2. ts2[<<e, k, r>>] = IF <<e, k, r>> = <<d, m, p>> THEN Best(ts[<<e, k, r>>], n)
                           ELSE ts[<<e, k, r>>]
    BY <2>1 DEF Recorded
  <2>3. <<e, k, r>> = <<d, m, p>> <=> e = d /\ k = m /\ r = p
    OBVIOUS
  <2>4. ts[<<e, k, r>>] \in ScoreOrNone
    BY <2>1
  <2> HIDE DEF ts2
  <2> QED
    BY <2>2, <2>3, <2>4
<1>2. ASSUME NEW e \in Day, NEW r \in Player
      PROVE  /\ gs2[<<e, r>>] = IF e = d /\ r = p THEN Best(gs[<<e, r>>], n) ELSE gs[<<e, r>>]
             /\ gs[<<e, r>>] \in ScoreOrNone
  <2>1. <<d, p>> \in Day \X Player /\ <<e, r>> \in Day \X Player
    OBVIOUS
  <2>2. gs2[<<e, r>>] = IF <<e, r>> = <<d, p>> THEN Best(gs[<<e, r>>], n) ELSE gs[<<e, r>>]
    BY <2>1 DEF Recorded
  <2>3. <<e, r>> = <<d, p>> <=> e = d /\ r = p
    OBVIOUS
  <2>4. gs[<<e, r>>] \in ScoreOrNone
    BY <2>1
  <2> HIDE DEF gs2
  <2> QED
    BY <2>2, <2>3, <2>4
<1> HIDE DEF ts2, gs2
<1> SUFFICES ASSUME NEW e \in Day, NEW r \in Player
             PROVE  /\ \A k \in Machine : ts2[<<e, k, r>>] <= gs2[<<e, r>>]
                    /\ \E k \in Machine : ts2[<<e, k, r>>] = gs2[<<e, r>>]
  BY DEF TablesAgree, ts2, gs2
<1>3. PICK best \in Machine : ts[<<e, best, r>>] = gs[<<e, r>>]
  BY DEF TablesAgree
<1>4. \A k \in Machine : ts[<<e, k, r>>] <= gs[<<e, r>>]
  BY DEF TablesAgree
<1>5. CASE ~(e = d /\ r = p)
  BY <1>1, <1>2, <1>3, <1>4, <1>5
<1>6. CASE e = d /\ r = p
  <2>1. CASE n >= gs[<<e, r>>]
    <3>1. gs2[<<e, r>>] = n /\ \A k \in Machine : ts2[<<e, k, r>>] <= n
      BY <1>1, <1>2, <1>4, <1>6, <2>1 DEF Best, ScoreOrNone, NoScore
    <3>2. ts2[<<e, m, r>>] = n
      <4>1. ts[<<e, m, r>>] <= n
        BY <1>1, <1>2, <1>4, <2>1 DEF ScoreOrNone, NoScore
      <4> QED
        BY <1>1, <1>6, <4>1 DEF Best
    <3> QED
      BY <3>1, <3>2
  <2>2. CASE ~(n >= gs[<<e, r>>])
    <3>1. gs2[<<e, r>>] = gs[<<e, r>>]
      BY <1>2, <1>6, <2>2 DEF Best
    <3>2. \A k \in Machine : ts2[<<e, k, r>>] <= gs[<<e, r>>]
      BY <1>1, <1>2, <1>4, <1>6, <2>2 DEF Best, ScoreOrNone, NoScore
    <3>3. ts2[<<e, best, r>>] = gs[<<e, r>>]
      BY <1>1, <1>3, <1>6, <2>2 DEF Best
    <3> QED
      BY <3>1, <3>2, <3>3
  <2> QED
    BY <2>1, <2>2
<1> QED
  BY <1>5, <1>6

LEMMA UpdateKeepsAgreement ==
  ASSUME DeskOK, GlobalBestIsBestMachine, NEW d \in Day, NEW m \in Machine,
         NEW l \in Player, NEW r \in Player, NEW ls \in Score, NEW rs \in Score,
         update_scores(d, m, l, r, ls, rs)
  PROVE  GlobalBestIsBestMachine'
<1> DEFINE ts1 == Recorded(daily_machine_scores, <<d, m, l>>, ls)
           gs1 == Recorded(daily_global_scores, <<d, l>>, ls)
<1>1. /\ daily_machine_scores \in [Day \X Machine \X Player -> ScoreOrNone]
      /\ daily_global_scores \in [Day \X Player -> ScoreOrNone]
      /\ TablesAgree(daily_machine_scores, daily_global_scores)
      /\ ls \in Nat /\ rs \in Nat
  BY ArcadeAssumption DEF DeskOK, TypeOK, ScoreOrNone, GlobalBestIsBestMachine, TablesAgree
<1>2. /\ <<d, m, l>> \in Day \X Machine \X Player /\ <<d, l>> \in Day \X Player
  OBVIOUS
<1>3. /\ ts1 \in [Day \X Machine \X Player -> ScoreOrNone]
      /\ gs1 \in [Day \X Player -> ScoreOrNone]
  BY <1>1, <1>2, RecordedFacts
<1>4. TablesAgree(ts1, gs1)
  BY <1>1, RecordedAgree
<1> HIDE DEF ts1, gs1
<1>5. TablesAgree(Recorded(ts1, <<d, m, r>>, rs), Recorded(gs1, <<d, r>>, rs))
  BY <1>1, <1>3, <1>4, RecordedAgree
<1>6. TablesAgree(daily_machine_scores', daily_global_scores')
  BY <1>5 DEF update_scores, ts1, gs1
<1> QED
  BY <1>6 DEF GlobalBestIsBestMachine, TablesAgree

\* Every score end_round writes goes to both tables, on the same day's entry,
\* so the daily global best is always the best of the machines.
THEOREM GlobalBestIsRight == Spec => []GlobalBestIsBestMachine
<1>1. Init => GlobalBestIsBestMachine
  <2> SUFFICES ASSUME Init, NEW d \in Day, NEW p \in Player
               PROVE  /\ \A m \in Machine : daily_machine_scores[<<d, m, p>>] <= daily_global_scores[<<d, p>>]
                      /\ \E m \in Machine : daily_machine_scores[<<d, m, p>>] = daily_global_scores[<<d, p>>]
    BY DEF GlobalBestIsBestMachine
  <2>1. \A m \in Machine : daily_machine_scores[<<d, m, p>>] = NoScore
    <3>1. \A m \in Machine : <<d, m, p>> \in Day \X Machine \X Player
      OBVIOUS
    <3> QED
      BY <3>1 DEF Init, NoScores
  <2>2. daily_global_scores[<<d, p>>] = NoScore
    <3>1. <<d, p>> \in Day \X Player
      OBVIOUS
    <3> QED
      BY <3>1 DEF Init, NoScores
  <2>3. NoScore <= NoScore
    BY DEF NoScore
  <2> QED
    BY <2>1, <2>2, <2>3, ArcadeAssumption
<1>2. DeskOK /\ GlobalBestIsBestMachine /\ [Next]_vars => GlobalBestIsBestMachine'
  <2> SUFFICES ASSUME DeskOK, GlobalBestIsBestMachine, [Next]_vars
               PROVE  GlobalBestIsBestMachine'
    OBVIOUS
  <2>1. CASE UNCHANGED scores
    BY <2>1 DEF scores, GlobalBestIsBestMachine
  <2>2. ASSUME NEW lag \in Lag, NEW m \in MachineId, NEW w \in Side, NEW ls \in Score,
               NEW rs \in Score, end_round(m, w, ls, rs, lag)
        PROVE  GlobalBestIsBestMachine'
    <3>1. CASE OnlyHousekeeping(lag)
      BY <2>1, <3>1 DEF OnlyHousekeeping
    <3>2. ASSUME m \in Machine, BothSeated(Swept(lag)[m]), NEW d \in DaysSeen(lag),
                 update_scores(d, m, Swept(lag)[m].seat["left"], Swept(lag)[m].seat["right"], ls, rs)
          PROVE  GlobalBestIsBestMachine'
      <4>1. Swept(lag)[m].seat["left"] \in Player /\ Swept(lag)[m].seat["right"] \in Player
        BY <3>2, SweptOK DEF MachineState, BothSeated, Side
      <4>2. d \in Day
        BY ArcadeAssumption DEF DaysSeen, Day, DeskOK, TypeOK
      <4> QED
        BY <3>2, <4>1, <4>2, UpdateKeepsAgreement
    <3> QED
      BY <2>2, <3>1, <3>2 DEF end_round
  <2>3. CASE Tick \/ Midnight \/ UNCHANGED vars
    BY <2>1, <2>3 DEF Tick, Midnight, vars, scores
  <2>4. CASE \E lag \in Lag : overview(lag)
    BY <2>1, <2>4 DEF overview, OnlyHousekeeping
  <2>5. CASE \E lag \in Lag, m \in MachineId, n \in Name, s \in Side : join_queue(m, n, s, lag)
    BY <2>1, <2>5 DEF join_queue, OnlyHousekeeping
  <2>6. CASE \E lag \in Lag, m \in MachineId, t \in Ticket : leave_queue(m, t, lag)
    BY <2>1, <2>6 DEF leave_queue, OnlyHousekeeping
  <2>7. CASE \E lag \in Lag, m \in MachineId, t \in Ticket : claim_seat(m, t, lag)
    BY <2>1, <2>7 DEF claim_seat, OnlyHousekeeping
  <2> QED
    BY <2>2, <2>3, <2>4, <2>5, <2>6, <2>7 DEF Next
<1> QED
  BY <1>1, <1>2, DeskInvariant, PTL DEF Spec

-----------------------------------------------------------------------------
(* The life cycle: where a player is, from any tables.                     *)

StandsAt(ms, p, m, s) == \E i \in DOMAIN ms[m].queue[s] : ms[m].queue[s][i].player = p

SitsAt(ms, p, m, s) == ms[m].seat[s] = p

\* PlaceOf, from given tables and cooldowns instead of the current ones.
PlaceIn(ms, cooldown, p) ==
  LET seats == {x \in Machine \X Side : SitsAt(ms, p, x[1], x[2])}
      lines == {x \in Machine \X Side : StandsAt(ms, p, x[1], x[2])} IN
  IF seats # {} THEN LET x == CHOOSE y \in seats : TRUE IN Lifecycle!Seated(x[1], x[2])
  ELSE IF lines # {} THEN LET x == CHOOSE y \in lines : TRUE IN Lifecycle!Waiting(x[1], x[2])
  ELSE IF cooldown[p] > 0 THEN Lifecycle!Cooling
  ELSE Lifecycle!Away

LEMMA PlaceOfIsPlaceIn ==
  ASSUME NEW p \in Player
  PROVE  /\ PlaceOf(p) = PlaceIn(machines, cooldown_until, p)
         /\ PlaceOf(p)' = PlaceIn(machines', cooldown_until', p)
BY DEF PlaceOf, PlaceIn, SeatsOf, LinesOf, SitsAt, StandsAt,
       Lifecycle!Seated, Lifecycle!Waiting, Lifecycle!Cooling, Lifecycle!Away

\* The cases of PlaceIn, in tables where everybody is in one place.
LEMMA PlaceFacts ==
  ASSUME NEW ms, NEW next, PlacesOK(ms, next), NEW cooldown, NEW p \in Player
  PROVE  /\ \A m \in Machine, s \in Side :
              SitsAt(ms, p, m, s) => PlaceIn(ms, cooldown, p) = Lifecycle!Seated(m, s)
         /\ \A m \in Machine, s \in Side :
              StandsAt(ms, p, m, s) => PlaceIn(ms, cooldown, p) = Lifecycle!Waiting(m, s)
         /\ Out(ms, p) => PlaceIn(ms, cooldown, p) = IF cooldown[p] > 0 THEN Lifecycle!Cooling
                                                     ELSE Lifecycle!Away
         /\ \/ \E m \in Machine, s \in Side : SitsAt(ms, p, m, s)
            \/ \E m \in Machine, s \in Side : StandsAt(ms, p, m, s)
            \/ Out(ms, p)
<1> DEFINE seats == {x \in Machine \X Side : SitsAt(ms, p, x[1], x[2])}
           lines == {x \in Machine \X Side : StandsAt(ms, p, x[1], x[2])}
<1>1. ms \in Tables /\ OneTicket(ms) /\ OneSeat(ms) /\ SeatedDoNotQueue(ms)
  BY DEF PlacesOK
<1>2. Out(ms, p) <=> /\ ~\E m \in Machine, s \in Side : SitsAt(ms, p, m, s)
                     /\ ~\E m \in Machine, s \in Side : StandsAt(ms, p, m, s)
  BY <1>1, OutFacts DEF SitsAt, StandsAt
<1>3. ASSUME NEW m \in Machine, NEW s \in Side, SitsAt(ms, p, m, s)
      PROVE  PlaceIn(ms, cooldown, p) = Lifecycle!Seated(m, s)
  <2>1. <<m, s>> \in seats
    BY <1>3
  <2>2. \A x \in seats : x[1] = m /\ x[2] = s
    BY <1>1, <1>3, ArcadeAssumption DEF SitsAt, OneSeat
  <2>3. PlaceIn(ms, cooldown, p) = LET x == CHOOSE y \in seats : TRUE IN Lifecycle!Seated(x[1], x[2])
    BY <2>1 DEF PlaceIn
  <2> HIDE DEF seats
  <2>4. (CHOOSE y \in seats : TRUE) \in seats
    BY <2>1
  <2> QED
    BY <2>2, <2>3, <2>4
<1>4. ASSUME NEW m \in Machine, NEW s \in Side, StandsAt(ms, p, m, s)
      PROVE  PlaceIn(ms, cooldown, p) = Lifecycle!Waiting(m, s)
  <2>1. <<m, s>> \in lines
    BY <1>4
  <2>2. \A x \in lines : x[1] = m /\ x[2] = s
    BY <1>1, <1>4 DEF StandsAt, OneTicket
  <2>3. seats = {}
    BY <1>1, <1>4 DEF StandsAt, SitsAt, SeatedDoNotQueue
  <2>4. PlaceIn(ms, cooldown, p) = LET x == CHOOSE y \in lines : TRUE IN Lifecycle!Waiting(x[1], x[2])
    BY <2>1, <2>3 DEF PlaceIn
  <2> HIDE DEF lines
  <2>5. (CHOOSE y \in lines : TRUE) \in lines
    BY <2>1
  <2> QED
    BY <2>2, <2>4, <2>5
<1>5. ASSUME Out(ms, p)
      PROVE  PlaceIn(ms, cooldown, p) = IF cooldown[p] > 0 THEN Lifecycle!Cooling ELSE Lifecycle!Away
  <2>1. seats = {} /\ lines = {}
    BY <1>2, <1>5
  <2> QED
    BY <2>1 DEF PlaceIn
<1> QED
  BY <1>2, <1>3, <1>4, <1>5

\* The kinds of places are different values.
LEMMA PlacesDiffer ==
  ASSUME NEW m, NEW s
  PROVE  /\ Lifecycle!Away.at = "away" /\ Lifecycle!Cooling.at = "cooling"
         /\ Lifecycle!Waiting(m, s).at = "waiting"
         /\ Lifecycle!Waiting(m, s).machine = m /\ Lifecycle!Waiting(m, s).side = s
         /\ Lifecycle!Seated(m, s).at = "seated"
         /\ Lifecycle!Seated(m, s).machine = m /\ Lifecycle!Seated(m, s).side = s
BY DEF Lifecycle!Away, Lifecycle!Cooling, Lifecycle!Waiting, Lifecycle!Seated

\* Every player is in some place, and a seat has one player.
LEMMA ArrangementOK ==
  ASSUME NEW ms, NEW next, PlacesOK(ms, next), NEW cooldown
  PROVE  LET where == [p \in Player |-> PlaceIn(ms, cooldown, p)] IN
         where \in [Player -> Lifecycle!Place] /\ Lifecycle!SeatsAreExclusive(where)
<1> DEFINE where == [p \in Player |-> PlaceIn(ms, cooldown, p)]
<1>1. ASSUME NEW p \in Player
      PROVE  PlaceIn(ms, cooldown, p) \in Lifecycle!Place
  BY PlaceFacts DEF Lifecycle!Place
<1>2. ASSUME NEW p \in Player, PlaceIn(ms, cooldown, p).at = "seated"
      PROVE  \E m \in Machine, s \in Side :
               SitsAt(ms, p, m, s) /\ PlaceIn(ms, cooldown, p) = Lifecycle!Seated(m, s)
  BY <1>2, PlaceFacts, PlacesDiffer
<1>3. ASSUME NEW p \in Player, NEW q \in Player,
             PlaceIn(ms, cooldown, p) = PlaceIn(ms, cooldown, q),
             PlaceIn(ms, cooldown, p).at = "seated"
      PROVE  p = q
  <2>1. PICK m \in Machine, s \in Side :
          SitsAt(ms, p, m, s) /\ PlaceIn(ms, cooldown, p) = Lifecycle!Seated(m, s)
    BY <1>2, <1>3
  <2>2. PICK n \in Machine, r \in Side :
          SitsAt(ms, q, n, r) /\ PlaceIn(ms, cooldown, q) = Lifecycle!Seated(n, r)
    BY <1>2, <1>3
  <2>3. m = n /\ s = r
    <3>1. Lifecycle!Seated(m, s) = Lifecycle!Seated(n, r)
      BY <1>3, <2>1, <2>2
    <3> QED
      BY <3>1 DEF Lifecycle!Seated
  <2> QED
    BY <2>1, <2>2, <2>3 DEF SitsAt
<1>4. where \in [Player -> Lifecycle!Place]
  BY <1>1
<1>5. Lifecycle!SeatsAreExclusive(where)
  BY <1>3 DEF Lifecycle!SeatsAreExclusive
<1> QED
  BY <1>4, <1>5

\* A player who neither came nor went is in the same place.
LEMMA SamePlace ==
  ASSUME NEW old, NEW new, NEW next, NEW next2, PlacesOK(old, next), PlacesOK(new, next2),
         NEW cooldown, NEW cooldown2, NEW p \in Player,
         cooldown[p] > 0 <=> cooldown2[p] > 0,
         \A n \in Machine, r \in Side : SitsAt(new, p, n, r) <=> SitsAt(old, p, n, r),
         \A n \in Machine, r \in Side : StandsAt(new, p, n, r) <=> StandsAt(old, p, n, r)
  PROVE  PlaceIn(new, cooldown2, p) = PlaceIn(old, cooldown, p)
<1>1. CASE \E m \in Machine, s \in Side : SitsAt(old, p, m, s)
  BY <1>1, PlaceFacts
<1>2. CASE \E m \in Machine, s \in Side : StandsAt(old, p, m, s)
  BY <1>2, PlaceFacts
<1>3. CASE Out(old, p)
  <2>1. /\ ~\E m \in Machine, s \in Side : SitsAt(old, p, m, s)
        /\ ~\E m \in Machine, s \in Side : StandsAt(old, p, m, s)
    BY <1>3, OutFacts DEF PlacesOK, SitsAt, StandsAt
  <2>2. Out(new, p)
    BY <2>1, PlaceFacts
  <2> QED
    BY <1>3, <2>2, PlaceFacts
<1> QED
  BY <1>1, <1>2, <1>3, PlaceFacts

-----------------------------------------------------------------------------
(* The life cycle: the moves of one step.                                  *)

HoldsTicket(q, t, p) == \E i \in DOMAIN q : q[i].ticket = t /\ q[i].player = p

\* The lines of new are those of old, without ticket t in one of them.
TakesTicket(new, old, m, s, t) ==
  \A n \in Machine : \A r \in Side :
    new[n].queue[r] = IF n = m /\ r = s THEN Without(old[n].queue[r], t)
                      ELSE old[n].queue[r]

\* One ticket taken out of a line: its player stands nowhere any more, and
\* everybody else where they stood.
LEMMA TicketTaken ==
  ASSUME NEW ms, NEW next, PlacesOK(ms, next), NEW new,
         NEW m \in Machine, NEW s \in Side, NEW t, NEW p1,
         HoldsTicket(ms[m].queue[s], t, p1), TakesTicket(new, ms, m, s, t)
  PROVE  /\ \A n \in Machine, r \in Side : ~StandsAt(new, p1, n, r)
         /\ \A p \in Player, n \in Machine, r \in Side :
              p # p1 => (StandsAt(new, p, n, r) <=> StandsAt(ms, p, n, r))
<1> DEFINE q == ms[m].queue[s]
<1> PICK i \in DOMAIN q : q[i].ticket = t /\ q[i].player = p1
  BY DEF HoldsTicket
<1>1. /\ ms \in Tables /\ OneTicket(ms) /\ UniqueTickets(ms)
      /\ q \in Seq(Entry) /\ LineInOrder(q)
  BY TableFacts DEF PlacesOK, LinesInOrder
<1>2. Without(q, t) \in Seq(Entry) /\ SubLine(Without(q, t), q) /\ ~HasTicket(Without(q, t), t)
  BY <1>1, WithoutIsSubLine, WithoutDropsTicket
<1>3. /\ new[m].queue[s] = Without(q, t)
      /\ \A n \in Machine : \A r \in Side : ~(n = m /\ r = s) => new[n].queue[r] = ms[n].queue[r]
  BY DEF TakesTicket
<1>4. ASSUME NEW n \in Machine, NEW r \in Side, NEW j \in DOMAIN new[n].queue[r]
      PROVE  \E k \in DOMAIN ms[n].queue[r] : new[n].queue[r][j] = ms[n].queue[r][k]
  BY <1>2, <1>3 DEF SubLine
<1>5. ASSUME NEW n \in Machine, NEW r \in Side, StandsAt(new, p1, n, r)
      PROVE  FALSE
  <2>1. PICK j \in DOMAIN new[n].queue[r] : new[n].queue[r][j].player = p1
    BY <1>5 DEF StandsAt
  <2>2. PICK k \in DOMAIN ms[n].queue[r] : new[n].queue[r][j] = ms[n].queue[r][k]
    BY <1>4
  <2>3. n = m /\ r = s /\ k = i
    BY <1>1, <2>1, <2>2 DEF OneTicket
  <2>4. new[m].queue[s][j].ticket = t /\ j \in DOMAIN new[m].queue[s]
    BY <2>2, <2>3
  <2> QED
    BY <1>2, <1>3, <2>4 DEF HasTicket
<1>6. ASSUME NEW p \in Player, NEW n \in Machine, NEW r \in Side, p # p1
      PROVE  StandsAt(new, p, n, r) <=> StandsAt(ms, p, n, r)
  <2>1. StandsAt(new, p, n, r) => StandsAt(ms, p, n, r)
    BY <1>4 DEF StandsAt
  <2>2. ASSUME StandsAt(ms, p, n, r) PROVE StandsAt(new, p, n, r)
    <3>1. CASE n = m /\ r = s
      <4>1. PICK k \in DOMAIN q : q[k].player = p
        BY <2>2, <3>1 DEF StandsAt
      <4>2. q[k].ticket # t
        <5>1. k # i
          BY <1>6, <4>1
        <5> QED
          BY <1>1, <5>1 DEF UniqueTickets
      <4>3. InLine(Without(q, t), q[k])
        <5> HIDE DEF q
        <5> QED
          BY <1>1, <4>1, <4>2, WithoutKeepsOthers
      <4> QED
        BY <1>3, <3>1, <4>1, <4>3 DEF InLine, StandsAt
    <3>2. CASE ~(n = m /\ r = s)
      BY <1>3, <2>2, <3>2 DEF StandsAt
    <3> QED
      BY <3>1, <3>2
  <2> QED
    BY <2>1, <2>2
<1> QED
  BY <1>5, <1>6

\* The housekeeping: whoever missed a call is out and cools down, and nobody
\* else moves.
LEMMA SweepMoves ==
  ASSUME PlacesInv, NEW lag \in Lag, NEW p \in Player
  PROVE  LET before == PlaceIn(machines, cooldown_until, p)
             mid == PlaceIn(Swept(lag), CooldownAfter(lag), p) IN
         mid = before \/ Lifecycle!MissesCall(before, mid)
<1> DEFINE ms == Swept(lag)
           cd == CooldownAfter(lag)
<1>1. /\ PlacesOK(machines, next_ticket_id) /\ PlacesOK(ms, next_ticket_id)
      /\ CooldownsOK(cooldown_until, machines) /\ CooldownsOK(cd, ms)
  BY SweptPlacesOK DEF PlacesInv
<1>2. CASE p \in NoShows(lag)
  <2>1. PICK m \in Machine : NoShow(machines[m], lag) /\ machines[m].called.player = p
    BY <1>2 DEF NoShows
  <2> DEFINE c == machines[m].called
  <2>2. c # NoCall /\ c.side \in Side /\ cd[p] > 0 /\ MachineOK(machines[m])
    BY <2>1, NoShowFacts DEF PlacesInv, DeskOK
  <2>3. StandsAt(machines, p, m, c.side)
    BY <2>1, <2>2, CalledHead DEF StandsAt
  <2>4. PlaceIn(machines, cooldown_until, p) = Lifecycle!Waiting(m, c.side)
    BY <1>1, <2>2, <2>3, PlaceFacts
  <2>5. Out(ms, p)
    BY <1>1, <2>2 DEF CooldownsOK
  <2>6. PlaceIn(ms, cd, p) = Lifecycle!Cooling
    BY <1>1, <2>2, <2>5, PlaceFacts
  <2> QED
    BY <2>4, <2>6, PlacesDiffer DEF Lifecycle!MissesCall
<1>3. CASE p \notin NoShows(lag)
  <2>1. \A n \in Machine, r \in Side : SitsAt(ms, p, n, r) <=> SitsAt(machines, p, n, r)
    BY SweptFacts DEF SitsAt
  <2>2. ASSUME NEW n \in Machine, NEW r \in Side
        PROVE  StandsAt(ms, p, n, r) <=> StandsAt(machines, p, n, r)
    <3>1. SubLine(ms[n].queue[r], machines[n].queue[r])
      BY SweptFacts, SweptOK
    <3>2. StandsAt(ms, p, n, r) => StandsAt(machines, p, n, r)
      BY <3>1 DEF StandsAt, SubLine
    <3>3. ASSUME StandsAt(machines, p, n, r) PROVE StandsAt(ms, p, n, r)
      <4>1. PICK j \in DOMAIN machines[n].queue[r] : machines[n].queue[r][j].player = p
        BY <3>3 DEF StandsAt
      <4>2. HasTicket(ms[n].queue[r], machines[n].queue[r][j].ticket)
        <5> SUFFICES ASSUME ~HasTicket(ms[n].queue[r], machines[n].queue[r][j].ticket)
                     PROVE  FALSE
          OBVIOUS
        <5>1. NoShow(machines[n], lag) /\ machines[n].called.player = p
          BY <4>1, SweptAwayIsNoShow
        <5> QED
          BY <1>3, <5>1, NoShowFacts
      <4>3. PICK i \in DOMAIN ms[n].queue[r] :
              ms[n].queue[r][i].ticket = machines[n].queue[r][j].ticket
        BY <4>2 DEF HasTicket
      <4>4. PICK k \in DOMAIN machines[n].queue[r] : ms[n].queue[r][i] = machines[n].queue[r][k]
        BY <3>1 DEF SubLine
      <4>5. k = j
        BY <1>1, <4>3, <4>4 DEF PlacesOK, UniqueTickets
      <4> QED
        BY <4>1, <4>4, <4>5 DEF StandsAt
    <3> QED
      BY <3>2, <3>3
  <2>3. cooldown_until[p] > 0 <=> cd[p] > 0
    <3>1. cd[p] = IF Passed(cooldown_until[p], lag) THEN -MaxLag ELSE cooldown_until[p]
      BY <1>3 DEF CooldownAfter
    <3>2. cooldown_until[p] \in Int /\ lag \in Nat /\ MaxLag \in Nat
      BY ArcadeAssumption DEF PlacesInv, DeskOK, TypeOK, Lag
    <3> HIDE DEF cd
    <3> QED
      BY <3>1, <3>2 DEF Passed
  <2> HIDE DEF ms, cd
  <2>4. PlaceIn(ms, cd, p) = PlaceIn(machines, cooldown_until, p)
    BY <1>1, <2>1, <2>2, <2>3, SamePlace
  <2> QED
    BY <2>4 DEF ms, cd
<1> QED
  BY <1>2, <1>3

\* Where a player is before a step, after its housekeeping, and after it.
Before(p) == PlaceIn(machines, cooldown_until, p)

Mid(lag, p) == PlaceIn(Swept(lag), CooldownAfter(lag), p)

After(p) == PlaceIn(machines', cooldown_until', p)

\* A move a player makes, or loses, by a request.
OwnMove(a, b) ==
  \/ Lifecycle!Joins(a, b)
  \/ Lifecycle!GivesUp(a, b)
  \/ Lifecycle!SitsDown(a, b)
  \/ Lifecycle!LosesRound(a, b)

\* Of all players only p moves.
OnlyMoves(lag, p) ==
  /\ OwnMove(Mid(lag, p), After(p))
  /\ \A q \in Player : q # p => After(q) = Mid(lag, q)

\* What the handler lemmas below start from.
LEMMA HandlerFacts ==
  ASSUME PlacesInv, PlacesInv', NEW lag \in Lag, cooldown_until' = CooldownAfter(lag)
  PROVE  /\ PlacesOK(Swept(lag), next_ticket_id) /\ PlacesOK(machines', next_ticket_id')
         /\ machines' \in Tables /\ Swept(lag) \in Tables
         /\ \A p \in Player : ~Out(Swept(lag), p) => ~(cooldown_until'[p] > 0)
         /\ \A p \in Player :
              /\ \A n \in Machine, r \in Side :
                   SitsAt(machines', p, n, r) <=> SitsAt(Swept(lag), p, n, r)
              /\ \A n \in Machine, r \in Side :
                   StandsAt(machines', p, n, r) <=> StandsAt(Swept(lag), p, n, r)
              => After(p) = Mid(lag, p)
<1>1. /\ PlacesOK(Swept(lag), next_ticket_id) /\ PlacesOK(machines', next_ticket_id')
      /\ CooldownsOK(cooldown_until', Swept(lag))
  BY SweptPlacesOK DEF PlacesInv
<1> QED
  BY <1>1, SamePlace DEF PlacesOK, CooldownsOK, After, Mid

LEMMA JoiningMoves ==
  ASSUME PlacesInv, PlacesInv', NEW lag \in Lag, cooldown_until' = CooldownAfter(lag),
         NEW m \in Machine, NEW p \in Player, NEW s \in Side, Joining(lag, m, p, s)
  PROVE  OnlyMoves(lag, p)
<1> DEFINE ms == Swept(lag)
           e == [ticket |-> next_ticket_id, player |-> p]
<1>1. \A n \in Machine : machines'[n].seat = ms[n].seat
  BY JoiningFacts
<1>2. \A n \in Machine : \A r \in Side :
        machines'[n].queue[r] = IF n = m /\ r = s THEN Append(ms[n].queue[r], e)
                                ELSE ms[n].queue[r]
  BY JoiningFacts
<1>3. /\ ms[m].queue[s] \in Seq(Entry) /\ e \in Entry /\ e.player = p
  <2>1. e \in Entry
    BY DEF PlacesInv, DeskOK, TypeOK, Entry
  <2> QED
    BY <2>1, HandlerFacts, TableFacts
<1> HIDE DEF ms, e
<1>4. /\ DOMAIN ms[m].queue[s] = 1 .. Len(ms[m].queue[s])
      /\ DOMAIN Append(ms[m].queue[s], e) = 1 .. Len(ms[m].queue[s]) + 1
      /\ Len(ms[m].queue[s]) \in Nat
      /\ Append(ms[m].queue[s], e)[Len(ms[m].queue[s]) + 1] = e
      /\ \A i \in 1 .. Len(ms[m].queue[s]) : Append(ms[m].queue[s], e)[i] = ms[m].queue[s][i]
  BY SMTT(30), <1>3, AppendProperties, LenProperties
<1>5. ASSUME NEW q \in Player, q # p
      PROVE  After(q) = Mid(lag, q)
  <2>1. \A n \in Machine, r \in Side : SitsAt(machines', q, n, r) <=> SitsAt(ms, q, n, r)
    BY <1>1 DEF SitsAt
  <2>2. ASSUME NEW n \in Machine, NEW r \in Side
        PROVE  StandsAt(machines', q, n, r) <=> StandsAt(ms, q, n, r)
    <3>1. CASE n = m /\ r = s
      <4>1. machines'[n].queue[r] = Append(ms[m].queue[s], e)
        BY <1>2, <3>1
      <4>2. \A i \in DOMAIN Append(ms[m].queue[s], e) :
              Append(ms[m].queue[s], e)[i].player = q => i \in 1 .. Len(ms[m].queue[s])
        BY <1>3, <1>4, <1>5
      <4>3. StandsAt(ms, q, n, r) => StandsAt(machines', q, n, r)
        <5>1. \A i \in 1 .. Len(ms[m].queue[s]) : i \in 1 .. Len(ms[m].queue[s]) + 1
          BY <1>4
        <5> QED
          BY <1>4, <3>1, <4>1, <5>1 DEF StandsAt
      <4>4. StandsAt(machines', q, n, r) => StandsAt(ms, q, n, r)
        BY <1>4, <3>1, <4>1, <4>2 DEF StandsAt
      <4> QED
        BY <4>3, <4>4
    <3>2. CASE ~(n = m /\ r = s)
      BY <1>2, <3>2 DEF StandsAt
    <3> QED
      BY <3>1, <3>2
  <2> QED
    BY <2>1, <2>2, HandlerFacts DEF ms
<1>6. Mid(lag, p) = Lifecycle!Away
  <2>1. MayJoin(ms, CooldownAfter(lag), p, lag)
    BY DEF Joining, ms
  <2>2. Out(ms, p)
    BY <2>1 DEF MayJoin, Out
  <2>3. ~(CooldownAfter(lag)[p] > 0)
    <3>1. CooldownAfter(lag)[p] \in Int /\ lag \in Nat
      BY SweptOK, ArcadeAssumption DEF PlacesInv, Lag
    <3> QED
      BY <2>1, <3>1 DEF MayJoin, Passed
  <2> QED
    BY <2>2, <2>3, HandlerFacts, PlaceFacts DEF Mid, ms
<1>7. After(p) = Lifecycle!Waiting(m, s)
  <2>1. machines'[m].queue[s] = Append(ms[m].queue[s], e)
    BY <1>2
  <2>2. Len(ms[m].queue[s]) + 1 \in 1 .. Len(ms[m].queue[s]) + 1
    BY <1>4
  <2>3. StandsAt(machines', p, m, s)
    BY <1>3, <1>4, <2>1, <2>2 DEF StandsAt
  <2> QED
    BY <2>3, HandlerFacts, PlaceFacts DEF After
<1>8. Lifecycle!Joins(Mid(lag, p), After(p))
  BY <1>6, <1>7, PlacesDiffer DEF Lifecycle!Joins
<1> QED
  BY <1>5, <1>8 DEF OnlyMoves, OwnMove

LEMMA LeavingMoves ==
  ASSUME PlacesInv, PlacesInv', NEW lag \in Lag, cooldown_until' = CooldownAfter(lag),
         NEW m \in Machine, NEW t \in Ticket, Leaving(lag, m, t)
  PROVE  \E p \in Player : OnlyMoves(lag, p)
<1> DEFINE ms == Swept(lag)
           s == SideOf(ms[m], t)
<1>1. s \in Side /\ HasTicket(ms[m].queue[s], t)
  BY DEF Leaving, TicketOn, SideOf, Side
<1>2. PICK i \in DOMAIN ms[m].queue[s] : ms[m].queue[s][i].ticket = t
  BY <1>1 DEF HasTicket
<1> DEFINE p == ms[m].queue[s][i].player
<1>3. \A n \in Machine : machines'[n].seat = ms[n].seat
  BY LeavingFacts
<1>4. \A n \in Machine : \A r \in Side :
        machines'[n].queue[r] = IF n = m /\ r = s THEN Without(ms[n].queue[r], t)
                                ELSE ms[n].queue[r]
  BY LeavingFacts
<1> HIDE DEF s
<1>5. p \in Player
  BY <1>1, HandlerFacts, TableFacts
<1>6. /\ \A n \in Machine, r \in Side : ~StandsAt(machines', p, n, r)
      /\ \A q \in Player, n \in Machine, r \in Side :
           q # p => (StandsAt(machines', q, n, r) <=> StandsAt(ms, q, n, r))
  <2>1. PlacesOK(ms, next_ticket_id)
    BY HandlerFacts
  <2>2. TakesTicket(machines', ms, m, s, t)
    BY <1>4 DEF TakesTicket
  <2>3. HoldsTicket(ms[m].queue[s], t, p)
    BY <1>2 DEF HoldsTicket
  <2> HIDE DEF ms, p
  <2> QED
    BY <1>1, <2>1, <2>2, <2>3, TicketTaken
<1>7. StandsAt(ms, p, m, s)
  BY DEF StandsAt
<1> HIDE DEF p
<1>8. ASSUME NEW q \in Player, q # p
      PROVE  After(q) = Mid(lag, q)
  <2>1. \A n \in Machine, r \in Side : SitsAt(machines', q, n, r) <=> SitsAt(ms, q, n, r)
    BY <1>3 DEF SitsAt
  <2> QED
    BY <1>6, <1>8, <2>1, HandlerFacts
<1>9. Mid(lag, p) = Lifecycle!Waiting(m, s)
  BY <1>1, <1>5, <1>7, HandlerFacts, PlaceFacts DEF Mid
<1>10. ~Out(ms, p) /\ \A n \in Machine, r \in Side : ~SitsAt(ms, p, n, r)
  BY <1>1, <1>5, <1>7, HandlerFacts, OutFacts
  DEF StandsAt, SitsAt, PlacesOK, SeatedDoNotQueue
<1>11. After(p) = Lifecycle!Away
  <2>1. Out(machines', p)
    BY <1>3, <1>5, <1>6, <1>10, HandlerFacts, OutFacts DEF StandsAt, SitsAt
  <2>2. ~(cooldown_until'[p] > 0)
    BY <1>5, <1>10, HandlerFacts
  <2> QED
    BY <1>5, <2>1, <2>2, HandlerFacts, PlaceFacts DEF After
<1>12. Lifecycle!GivesUp(Mid(lag, p), After(p))
  BY <1>9, <1>11, PlacesDiffer DEF Lifecycle!GivesUp
<1> QED
  BY <1>5, <1>8, <1>12 DEF OnlyMoves, OwnMove

LEMMA ClaimingMoves ==
  ASSUME PlacesInv, PlacesInv', NEW lag \in Lag, cooldown_until' = CooldownAfter(lag),
         NEW m \in Machine, NEW t \in Ticket, Claiming(lag, m, t)
  PROVE  \E p \in Player : OnlyMoves(lag, p)
<1> DEFINE ms == Swept(lag)
           c == ms[m].called
           s == c.side
           p == c.player
<1>1. c \in Call /\ c # NoCall /\ c.ticket = t /\ ms[m].seat[s] = NoPlayer
  BY ClaimingFacts
<1>2. \A n \in Machine : \A r \in Side :
        /\ machines'[n].seat[r] = IF n = m /\ r = s THEN p ELSE ms[n].seat[r]
        /\ machines'[n].queue[r] = IF n = m /\ r = s THEN Without(ms[n].queue[r], t)
                                   ELSE ms[n].queue[r]
  BY ClaimingFacts
<1>3. /\ s \in Side /\ p \in Player
      /\ 1 \in DOMAIN ms[m].queue[s]
      /\ ms[m].queue[s][1].ticket = t /\ ms[m].queue[s][1].player = p
  <2>1. MachineOK(ms[m])
    BY SweptFacts
  <2> QED
    BY <1>1, <2>1, CalledHead
<1>4. /\ \A n \in Machine, r \in Side : ~StandsAt(machines', p, n, r)
      /\ \A q \in Player, n \in Machine, r \in Side :
           q # p => (StandsAt(machines', q, n, r) <=> StandsAt(ms, q, n, r))
  <2>1. PlacesOK(ms, next_ticket_id)
    BY HandlerFacts
  <2>2. TakesTicket(machines', ms, m, s, t)
    BY <1>2 DEF TakesTicket
  <2>3. HoldsTicket(ms[m].queue[s], t, p)
    BY <1>3 DEF HoldsTicket
  <2>4. s \in Side
    BY <1>3
  <2> HIDE DEF ms, c, s, p
  <2> QED
    BY <2>1, <2>2, <2>3, <2>4, TicketTaken
<1>5. StandsAt(ms, p, m, s)
  BY <1>3 DEF StandsAt
<1> HIDE DEF c, s, p
<1>6. ASSUME NEW q \in Player, q # p
      PROVE  After(q) = Mid(lag, q)
  <2>1. \A n \in Machine, r \in Side : SitsAt(machines', q, n, r) <=> SitsAt(ms, q, n, r)
    BY <1>1, <1>2, <1>6, ArcadeAssumption DEF SitsAt
  <2> QED
    BY <1>4, <1>6, <2>1, HandlerFacts
<1>7. Mid(lag, p) = Lifecycle!Waiting(m, s)
  BY <1>3, <1>5, HandlerFacts, PlaceFacts DEF Mid
<1>8. After(p) = Lifecycle!Seated(m, s)
  <2>1. SitsAt(machines', p, m, s)
    BY <1>2, <1>3 DEF SitsAt
  <2> QED
    BY <1>3, <2>1, HandlerFacts, PlaceFacts DEF After
<1>9. Lifecycle!SitsDown(Mid(lag, p), After(p))
  BY <1>7, <1>8, PlacesDiffer DEF Lifecycle!SitsDown
<1> QED
  BY <1>3, <1>6, <1>9 DEF OnlyMoves, OwnMove

LEMMA EndingMoves ==
  ASSUME PlacesInv, PlacesInv', NEW lag \in Lag, cooldown_until' = CooldownAfter(lag),
         NEW m \in Machine, NEW w \in Side, Ending(lag, m, w)
  PROVE  \E p \in Player : OnlyMoves(lag, p)
<1> DEFINE ms == Swept(lag)
           s == opposite(w)
           p == ms[m].seat[s]
<1>1. \A n \in Machine : \A r \in Side :
        /\ machines'[n].seat[r] = IF n = m /\ r = s THEN NoPlayer ELSE ms[n].seat[r]
        /\ machines'[n].queue[r] = ms[n].queue[r]
  BY EndingFacts
<1>2. s \in Side /\ p \in Player
  BY EndingFacts, SideFacts, HandlerFacts, TableFacts
<1>3. SitsAt(ms, p, m, s) /\ OneSeat(ms)
  BY HandlerFacts DEF SitsAt, PlacesOK
<1> HIDE DEF p, s
<1>4. ASSUME NEW q \in Player, NEW n \in Machine, NEW r \in Side
      PROVE  StandsAt(machines', q, n, r) <=> StandsAt(ms, q, n, r)
  BY <1>1 DEF StandsAt
<1>5. ASSUME NEW q \in Player, q # p
      PROVE  After(q) = Mid(lag, q)
  <2>1. \A n \in Machine, r \in Side : SitsAt(machines', q, n, r) <=> SitsAt(ms, q, n, r)
    BY <1>1, <1>3, <1>5, ArcadeAssumption DEF SitsAt
  <2> QED
    BY <1>4, <2>1, HandlerFacts
<1>6. Mid(lag, p) = Lifecycle!Seated(m, s)
  BY <1>2, <1>3, HandlerFacts, PlaceFacts DEF Mid
<1>7. \A n \in Machine, r \in Side : ~StandsAt(ms, p, n, r)
  BY <1>2, <1>3, HandlerFacts DEF PlacesOK, SeatedDoNotQueue, StandsAt, SitsAt
<1>8. \A n \in Machine, r \in Side : ~SitsAt(machines', p, n, r)
  BY <1>1, <1>2, <1>3, ArcadeAssumption DEF SitsAt, OneSeat
<1>9. After(p) = Lifecycle!Away
  <2>1. Out(machines', p)
    BY <1>2, <1>4, <1>7, <1>8, HandlerFacts, OutFacts DEF StandsAt, SitsAt
  <2>2. ~Out(ms, p)
    BY <1>2, <1>3, HandlerFacts, OutFacts DEF SitsAt
  <2> QED
    BY <1>2, <2>1, <2>2, HandlerFacts, PlaceFacts DEF After
<1>10. Lifecycle!LosesRound(Mid(lag, p), After(p))
  BY <1>6, <1>9, PlacesDiffer DEF Lifecycle!LosesRound
<1> QED
  BY <1>2, <1>5, <1>10 DEF OnlyMoves, OwnMove

\* After the housekeeping at most one player moves.
LEMMA HandlerMoves ==
  ASSUME PlacesInv, PlacesInv', NEW lag \in Lag, Handles(lag)
  PROVE  \/ \A p \in Player : After(p) = Mid(lag, p)
         \/ \E p \in Player : OnlyMoves(lag, p)
<1>1. cooldown_until' = CooldownAfter(lag)
  BY DEF Handles
<1>2. CASE machines' = Swept(lag)
  BY <1>1, <1>2 DEF After, Mid
<1> QED
  BY <1>1, <1>2, JoiningMoves, LeavingMoves, ClaimingMoves, EndingMoves DEF Handles

\* A player nothing happens to, but time, stays or cools down.
LEMMA QuietMoves ==
  ASSUME PlacesInv, PlacesInv', Quiet, NEW p \in Player
  PROVE  After(p) = Before(p) \/ Lifecycle!CoolsDown(Before(p), After(p))
<1>1. /\ PlacesOK(machines, next_ticket_id) /\ PlacesOK(machines', next_ticket_id')
      /\ CooldownsOK(cooldown_until, machines)
      /\ cooldown_until[p] \in Int /\ MaxLag \in Nat
  BY ArcadeAssumption DEF PlacesInv, DeskOK, TypeOK
<1>2. /\ \A n \in Machine, r \in Side : SitsAt(machines', p, n, r) <=> SitsAt(machines, p, n, r)
      /\ \A n \in Machine, r \in Side : StandsAt(machines', p, n, r) <=> StandsAt(machines, p, n, r)
  BY DEF Quiet, SitsAt, StandsAt
<1>3. cooldown_until'[p] > 0 => cooldown_until[p] > 0
  BY <1>1 DEF Quiet, Earlier
<1>4. CASE cooldown_until[p] > 0 <=> cooldown_until'[p] > 0
  <2>1. PlaceIn(machines', cooldown_until', p) = PlaceIn(machines, cooldown_until, p)
    BY <1>1, <1>2, <1>4, SamePlace
  <2> QED
    BY <2>1 DEF After, Before
<1>5. CASE cooldown_until[p] > 0 /\ ~(cooldown_until'[p] > 0)
  <2>1. Out(machines, p)
    BY <1>1, <1>5 DEF CooldownsOK
  <2>2. Out(machines', p)
    BY <1>1, <1>2, <2>1, OutFacts DEF PlacesOK, SitsAt, StandsAt
  <2>3. Before(p) = Lifecycle!Cooling /\ After(p) = Lifecycle!Away
    BY <1>1, <1>5, <2>1, <2>2, PlaceFacts DEF Before, After
  <2> QED
    BY <2>3 DEF Lifecycle!CoolsDown
<1> QED
  BY <1>3, <1>4, <1>5

\* Who has just missed a call, or is cooling down, makes no move of a request.
LEMMA CoolingDoNotMove ==
  ASSUME NEW a, NEW b, NEW c, Lifecycle!MissesCall(a, b)
  PROVE  ~OwnMove(b, c) /\ ~OwnMove(a, b)
BY PlacesDiffer DEF OwnMove, Lifecycle!MissesCall, Lifecycle!Joins, Lifecycle!GivesUp,
   Lifecycle!SitsDown, Lifecycle!LosesRound, Lifecycle!Seated, Lifecycle!Away, Lifecycle!Cooling

\* One step, player by player.
LEMMA StepMoves ==
  ASSUME PlacesInv, PlacesInv', [Next]_vars
  PROVE  /\ \A p \in Player : \/ After(p) = Before(p)
                              \/ Lifecycle!Edge(Before(p), After(p))
         /\ \A p, q \in Player :
              OwnMove(Before(p), After(p)) /\ OwnMove(Before(q), After(q)) => p = q
<1>1. \A a : ~OwnMove(a, a)
  BY PlacesDiffer DEF OwnMove, Lifecycle!Joins, Lifecycle!GivesUp,
     Lifecycle!SitsDown, Lifecycle!LosesRound, Lifecycle!Seated, Lifecycle!Away
<1>2. CASE Quiet
  <2>1. \A p \in Player : After(p) = Before(p) \/ Lifecycle!CoolsDown(Before(p), After(p))
    BY <1>2, QuietMoves
  <2>2. \A a, b : Lifecycle!CoolsDown(a, b) => Lifecycle!Edge(a, b) /\ ~OwnMove(a, b)
    BY PlacesDiffer
    DEF OwnMove, Lifecycle!Edge, Lifecycle!CoolsDown, Lifecycle!Joins, Lifecycle!GivesUp,
        Lifecycle!SitsDown, Lifecycle!LosesRound, Lifecycle!Seated, Lifecycle!Away, Lifecycle!Cooling
  <2> QED
    BY <1>1, <2>1, <2>2
<1>3. ASSUME NEW lag \in Lag, Handles(lag)
      PROVE  /\ \A p \in Player : \/ After(p) = Before(p)
                                  \/ Lifecycle!Edge(Before(p), After(p))
             /\ \A p, q \in Player :
                  OwnMove(Before(p), After(p)) /\ OwnMove(Before(q), After(q)) => p = q
  <2>1. \A p \in Player : \/ Mid(lag, p) = Before(p)
                          \/ Lifecycle!MissesCall(Before(p), Mid(lag, p))
    BY SweepMoves DEF Mid, Before
  <2>2. \A a, b : Lifecycle!MissesCall(a, b) \/ OwnMove(a, b) => Lifecycle!Edge(a, b)
    BY DEF Lifecycle!Edge, OwnMove
  <2>3. CASE \A p \in Player : After(p) = Mid(lag, p)
    BY <1>1, <2>1, <2>2, <2>3, CoolingDoNotMove
  <2>4. CASE \E p \in Player : OnlyMoves(lag, p)
    <3>1. PICK p \in Player : OnlyMoves(lag, p)
      BY <2>4
    <3>2. OwnMove(Mid(lag, p), After(p)) /\ \A q \in Player : q # p => After(q) = Mid(lag, q)
      BY <3>1 DEF OnlyMoves
    <3>3. Mid(lag, p) = Before(p)
      BY <2>1, <3>2, CoolingDoNotMove
    <3>4. \A q \in Player : q # p => ~OwnMove(Before(q), After(q))
      BY <1>1, <2>1, <3>2, CoolingDoNotMove
    <3> QED
      BY <2>1, <2>2, <3>2, <3>3, <3>4
  <2> QED
    BY <1>3, <2>3, <2>4, HandlerMoves
<1> QED
  BY <1>2, <1>3, StepShape

\* Every step of the front desk is a step of the life cycle or leaves all
\* players where they are.
LEMMA StepImplementsLifecycle ==
  ASSUME PlacesInv, PlacesInv', [Next]_vars
  PROVE  Lifecycle!Moves([p \in Player |-> PlaceOf(p)], [p \in Player |-> PlaceOf(p)]')
<1> DEFINE before == [p \in Player |-> PlaceOf(p)]
           after == [p \in Player |-> After(p)]
<1>1. [p \in Player |-> PlaceOf(p)]' = after /\ \A p \in Player : before[p] = Before(p)
  BY PlaceOfIsPlaceIn DEF Before, After
<1> HIDE DEF before
<1>2. after \in [Player -> Lifecycle!Place] /\ Lifecycle!SeatsAreExclusive(after)
  <2>1. PlacesOK(machines', next_ticket_id')
    BY DEF PlacesInv
  <2> QED
    BY <2>1, ArrangementOK DEF After
<1>3. \A p \in Player : after[p] = After(p)
  OBVIOUS
<1> HIDE DEF after
<1>4. \A p \in Player : after[p] = before[p] \/ Lifecycle!Edge(before[p], after[p])
  BY <1>1, <1>3, StepMoves
<1>5. \A p, q \in Player :
        \/ p = q
        \/ ~OwnMove(before[p], after[p])
        \/ ~OwnMove(before[q], after[q])
  BY <1>1, <1>3, StepMoves
<1>6. Lifecycle!Moves(before, after)
  BY <1>2, <1>4, <1>5 DEF Lifecycle!Moves, OwnMove
<1> QED
  BY <1>1, <1>6 DEF before

LEMMA InitImplementsLifecycle == Init => Lifecycle!Init
<1> SUFFICES ASSUME Init, NEW p \in Player PROVE PlaceOf(p) = Lifecycle!Away
  BY DEF Lifecycle!Init
<1>1. PlacesOK(machines, next_ticket_id) /\ machines \in Tables
  BY InitPlacesInv DEF PlacesInv, PlacesOK
<1>2. \A m \in Machine, s \in Side : ~SitsAt(machines, p, m, s) /\ ~StandsAt(machines, p, m, s)
  <2> TAKE m \in Machine, s \in Side
  <2>1. machines[m].queue[s] = <<>> /\ machines[m].seat[s] = NoPlayer
    BY DEF Init, EmptyMachines
  <2> QED
    BY <2>1, ArcadeAssumption DEF SitsAt, StandsAt
<1>3. Out(machines, p) /\ ~(cooldown_until[p] > 0)
  BY <1>1, <1>2, PlaceFacts, ArcadeAssumption DEF Init
<1> QED
  BY <1>1, <1>3, PlaceFacts, PlaceOfIsPlaceIn

\* The desk's four tables together implement the life cycle: every step moves
\* each player along one edge or not at all, at most one player joins, gives
\* up, sits down or loses in a step, and a seat has one player, for any number
\* of machines and players.
THEOREM DeskImplementsLifecycle == Spec => ImplementsLifecycle
<1>1. Init => Lifecycle!Init
  BY InitImplementsLifecycle
<1>2. PlacesInv /\ [Next]_vars => [Lifecycle!Next]_([p \in Player |-> PlaceOf(p)])
  BY StepPlacesInv, StepImplementsLifecycle DEF Lifecycle!Next
<1> QED
  BY <1>1, <1>2, PlacesInvariant, PTL DEF Spec, ImplementsLifecycle, Lifecycle!Spec
=============================================================================
