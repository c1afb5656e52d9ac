------------------------- MODULE ArcadeServerProofs -------------------------
(***************************************************************************)
(* Theorems about ArcadeServer, for any machines, viewers and connections. *)
(* The desk and the runtimes share no state, so each has an inductive      *)
(* invariant of its own: the desk's adds to SeatsAreCalled that tickets    *)
(* are unique in their line; that of the runtimes adds what a record says  *)
(* of a child process that has not been started, is being started, or has  *)
(* ended.                                                                  *)
(***************************************************************************)
EXTENDS ArcadeServer, SequenceTheorems, TLAPS

\* Removing one position of a sequence closes the gap and keeps the rest.
LEMMA RemoveAtProperties ==
  ASSUME NEW S, NEW q \in Seq(S), NEW k \in 1 .. Len(q)
  PROVE  /\ RemoveAt(q, k) \in Seq(S)
         /\ Len(RemoveAt(q, k)) = Len(q) - 1
         /\ \A i \in 1 .. Len(q) - 1 :
              RemoveAt(q, k)[i] = IF i < k THEN q[i] ELSE q[i + 1]
<1> DEFINE front == SubSeq(q, 1, k - 1)
           back == SubSeq(q, k + 1, Len(q))
<1>1. /\ front \in Seq(S) /\ Len(front) = k - 1
      /\ \A i \in 1 .. k - 1 : front[i] = q[i]
  BY SubSeqProperties
<1>2. /\ back \in Seq(S) /\ Len(back) = Len(q) - k
      /\ \A i \in 1 .. Len(q) - k : back[i] = q[k + i]
  BY SubSeqProperties
<1>3. RemoveAt(q, k) = front \o back
  BY DEF RemoveAt
<1> HIDE DEF front, back
<1>4. /\ Len(q) \in Nat /\ k \in Nat
      /\ Len(front) + Len(back) = Len(q) - 1
  BY <1>1, <1>2, LenProperties
<1>5. /\ front \o back \in Seq(S)
      /\ Len(front \o back) = Len(front) + Len(back)
      /\ \A i \in 1 .. Len(front) + Len(back) :
           (front \o back)[i] = IF i <= Len(front) THEN front[i] ELSE back[i - Len(front)]
  BY <1>1, <1>2, ConcatProperties
<1>6. \A i \in 1 .. Len(q) - 1 : (front \o back)[i] = IF i < k THEN q[i] ELSE q[i + 1]
  <2> TAKE i \in 1 .. Len(q) - 1
  <2>1. CASE i < k
    BY <2>1, <1>1, <1>4, <1>5
  <2>2. CASE ~(i < k)
    <3>1. /\ i - (k - 1) \in 1 .. Len(q) - k
          /\ k + (i - (k - 1)) = i + 1
      BY <2>2, <1>4
    <3>2. (front \o back)[i] = back[i - (k - 1)]
      BY <2>2, <1>1, <1>4, <1>5
    <3>3. back[i - (k - 1)] = q[k + (i - (k - 1))]
      BY <3>1, <1>2
    <3> QED
      BY <2>2, <3>1, <3>2, <3>3
  <2> QED
    BY <2>1, <2>2
<1> QED
  BY <1>3, <1>4, <1>5, <1>6

\* A line with somebody in it has a head, whoever joins at its end.
LEMMA HeadStays ==
  ASSUME NEW S, NEW q \in Seq(S), NEW e \in S
  PROVE  /\ Append(q, e) \in Seq(S) /\ Append(q, e) # <<>>
         /\ Len(Append(q, e)) = Len(q) + 1
         /\ \A i \in 1 .. Len(q) : Append(q, e)[i] = q[i]
         /\ Append(q, e)[Len(q) + 1] = e
         /\ q # <<>> => Head(Append(q, e)) = Head(q) /\ Head(q) = q[1] /\ 1 \in DOMAIN q
<1>1. /\ Append(q, e) \in Seq(S) /\ Append(q, e) # <<>> /\ Len(Append(q, e)) = Len(q) + 1
      /\ \A i \in 1 .. Len(q) : Append(q, e)[i] = q[i]
      /\ Append(q, e)[Len(q) + 1] = e
  BY AppendProperties
<1>2. q # <<>> => Len(q) \in Nat \ {0} /\ DOMAIN q = 1 .. Len(q)
  BY EmptySeq, LenProperties
<1>3. q # <<>> => Head(q) = q[1] /\ Head(Append(q, e)) = Append(q, e)[1]
  BY <1>1
<1> QED
  BY <1>1, <1>2, <1>3

\* The tickets of a line are unique and have been handed out.
TicketsOK(q, next) ==
  \A i, j \in DOMAIN q : q[i].ticketId < next /\ (q[i].ticketId = q[j].ticketId => i = j)

\* One machine of the desk, when the next ticket is next.
DeskOK(d, next) ==
  /\ d \in Desks /\ OnePlace(d)
  /\ \A s \in Side : SeatIsCalled(d, s)
  /\ \A s \in Side : TicketsOK(d.queue[s], next)

DeskInv ==
  /\ nextTicketId \in Nat \ {0} /\ desks \in [Machine -> Desks]
  /\ \A m \in Machine : DeskOK(desks[m], nextTicketId)

-----------------------------------------------------------------------------
(* Lines.                                                                  *)

LEMMA LineFacts ==
  ASSUME NEW q \in Seq(Entry)
  PROVE  /\ DOMAIN q = 1 .. Len(q) /\ Len(q) \in Nat
         /\ \A i \in DOMAIN q : q[i] \in Entry /\ q[i].ticketId \in Nat \ {0} /\ q[i].viewerId \in Viewer
         /\ q # <<>> => 1 \in DOMAIN q /\ Head(q) = q[1]
<1>1. DOMAIN q = 1 .. Len(q) /\ Len(q) \in Nat
  BY LenProperties
<1>2. ASSUME NEW i \in DOMAIN q PROVE q[i] \in Entry
  BY <1>1, ElementOfSeq
<1>3. q # <<>> => Len(q) # 0
  BY EmptySeq
<1> QED
  BY <1>1, <1>2, <1>3 DEF Entry

\* Every entry of new is one of old, and different ones are different ones.
Rest(new, old) ==
  \A i, j \in DOMAIN new : \E a, b \in DOMAIN old :
    new[i] = old[a] /\ new[j] = old[b] /\ (i = j <=> a = b)

\* What is left when a ticket goes: other entries, each in one place as before.
LEMMA RemoveTicket ==
  ASSUME NEW q \in Seq(Entry), NEW v, NEW ticket, Found(q, v, ticket) # {},
         NEW next, TicketsOK(q, next)
  PROVE  /\ removeTicket(q, v, ticket) \in Seq(Entry)
         /\ Rest(removeTicket(q, v, ticket), q)
         /\ \A i \in DOMAIN removeTicket(q, v, ticket) : removeTicket(q, v, ticket)[i].ticketId # ticket
         /\ q[1].ticketId # ticket =>
              removeTicket(q, v, ticket) # <<>> /\ Head(removeTicket(q, v, ticket)) = Head(q)
<1> DEFINE k == CHOOSE i \in Found(q, v, ticket) : TRUE
           r == removeTicket(q, v, ticket)
<1>1. k \in DOMAIN q /\ q[k].ticketId = ticket
  <2>1. k \in Found(q, v, ticket)
    OBVIOUS
  <2>2. k \in DOMAIN q /\ q[k] = [ticketId |-> ticket, viewerId |-> v]
    BY <2>1 DEF Found
  <2> QED
    BY <2>2
<1>2. r = RemoveAt(q, k)
  BY DEF removeTicket
<1>3. DOMAIN q = 1 .. Len(q) /\ Len(q) \in Nat /\ (q # <<>> => Head(q) = q[1])
  BY LineFacts
<1> HIDE DEF k, r
<1>4. /\ r \in Seq(Entry) /\ Len(r) = Len(q) - 1
      /\ \A i \in 1 .. Len(q) - 1 : r[i] = IF i < k THEN q[i] ELSE q[i + 1]
  <2>1. k \in 1 .. Len(q)
    BY <1>1, <1>3
  <2>2. /\ RemoveAt(q, k) \in Seq(Entry) /\ Len(RemoveAt(q, k)) = Len(q) - 1
        /\ \A i \in 1 .. Len(q) - 1 : RemoveAt(q, k)[i] = IF i < k THEN q[i] ELSE q[i + 1]
    BY <2>1, RemoveAtProperties
  <2> QED
    BY <1>2, <2>2
<1>5. DOMAIN r = 1 .. Len(q) - 1
  BY <1>4, LenProperties
<1>6. ASSUME NEW i \in DOMAIN r, NEW j \in DOMAIN r
      PROVE  \E a, b \in DOMAIN q : r[i] = q[a] /\ r[j] = q[b] /\ q[a].ticketId # ticket /\ (i = j <=> a = b)
  <2> DEFINE a == IF i < k THEN i ELSE i + 1
             b == IF j < k THEN j ELSE j + 1
  <2>1. a \in DOMAIN q /\ b \in DOMAIN q /\ a # k /\ (i = j <=> a = b)
    BY <1>1, <1>3, <1>5
  <2>2. r[i] = q[a] /\ r[j] = q[b]
    BY <1>4, <1>5
  <2>3. q[a].ticketId # ticket
    BY <1>1, <2>1 DEF TicketsOK
  <2> QED
    BY <2>1, <2>2, <2>3
<1>7. ASSUME q[1].ticketId # ticket
      PROVE  r # <<>> /\ Head(r) = Head(q)
  <2>1. k # 1
    BY <1>1, <1>7
  <2>2. 1 \in 1 .. Len(q) - 1 /\ r[1] = q[1]
    BY <1>1, <1>3, <1>4, <2>1
  <2>3. r # <<>> /\ q # <<>>
    BY <1>3, <1>4, <2>2, EmptySeq
  <2>4. Head(r) = r[1]
    BY <1>4, <2>3, LineFacts
  <2> QED
    BY <1>3, <2>2, <2>3, <2>4
<1>8. Rest(r, q) /\ \A i \in DOMAIN r : r[i].ticketId # ticket
  BY <1>6 DEF Rest
<1> QED
  BY <1>4, <1>7, <1>8 DEF r

-----------------------------------------------------------------------------
(* Calls.                                                                  *)

\* ensureSeatCall repairs the one seat it is given, if it is not called.
LEMMA EnsureSeatCall ==
  ASSUME NEW d \in Desks, NEW s \in Side,
         \A r \in Side : SeatIsCalled(d, r) \/ (r = s /\ d.called[s] = NoCall)
  PROVE  /\ ensureSeatCall(d, s) \in Desks
         /\ ensureSeatCall(d, s).queue = d.queue /\ ensureSeatCall(d, s).player = d.player
         /\ \A r \in Side : SeatIsCalled(ensureSeatCall(d, s), r)
<1>1. /\ d.queue \in [Side -> Seq(Entry)] /\ d.called \in [Side -> Entry \cup {NoCall}]
      /\ d.player \in [Side -> Viewer \cup {NoViewer}]
  BY DEF Desks
<1>2. CASE d.called[s] # NoCall \/ d.player[s] # NoViewer \/ d.queue[s] = <<>>
  <2>1. ensureSeatCall(d, s) = d
    BY <1>2 DEF ensureSeatCall
  <2>2. SeatIsCalled(d, s)
    BY <1>2 DEF SeatIsCalled
  <2> QED
    BY <2>1, <2>2
<1>3. CASE ~(d.called[s] # NoCall \/ d.player[s] # NoViewer \/ d.queue[s] = <<>>)
  <2>1. ensureSeatCall(d, s) = [d EXCEPT !.called = [d.called EXCEPT ![s] = Head(d.queue[s])]]
    BY <1>3 DEF ensureSeatCall, Desks
  <2>2. Head(d.queue[s]) \in Entry
    BY <1>1, <1>3, LineFacts
  <2>3. [d.called EXCEPT ![s] = Head(d.queue[s])] \in [Side -> Entry \cup {NoCall}]
    BY <1>1, <2>2
  <2> DEFINE calls == [d.called EXCEPT ![s] = Head(d.queue[s])]
             e == [d EXCEPT !.called = calls]
  <2>4. e.queue = d.queue /\ e.player = d.player /\ e.called = calls /\ e \in Desks
    BY <1>1, <2>3 DEF Desks
  <2>5. calls[s] = Head(d.queue[s]) /\ \A r \in Side \ {s} : calls[r] = d.called[r]
    BY <1>1
  <2> HIDE DEF calls, e
  <2>6. ASSUME NEW r \in Side PROVE SeatIsCalled(e, r)
    <3>1. CASE r = s
      BY <1>3, <2>4, <2>5, <3>1 DEF SeatIsCalled
    <3>2. CASE r # s
      BY <2>4, <2>5, <3>2 DEF SeatIsCalled
    <3> QED
      BY <3>1, <3>2
  <2>7. ensureSeatCall(d, s) = e
    BY <2>1 DEF calls, e
  <2> QED
    BY <2>4, <2>6, <2>7
<1> QED
  BY <1>2, <1>3

\* A machine that keeps its invariant keeps it when other machines hand out tickets.
LEMMA LaterTickets ==
  ASSUME NEW d, NEW next \in Nat, DeskOK(d, next)
  PROVE  DeskOK(d, next + 1)
<1>1. ASSUME NEW s \in Side, NEW i \in DOMAIN d.queue[s] PROVE d.queue[s][i].ticketId < next + 1
  <2>1. d.queue[s] \in Seq(Entry)
    BY DEF DeskOK, Desks
  <2>2. d.queue[s][i].ticketId \in Nat /\ d.queue[s][i].ticketId < next
    BY <2>1, LineFacts DEF DeskOK, TicketsOK
  <2> QED
    BY <2>2
<1> QED
  BY <1>1 DEF DeskOK, TicketsOK

\* What a handler leaves to ensureSeatCall is enough for the invariant.
LEMMA Repaired ==
  ASSUME NEW d \in Desks, NEW s \in Side, NEW next, OnePlace(d),
         \A r \in Side : SeatIsCalled(d, r) \/ (r = s /\ d.called[s] = NoCall),
         \A r \in Side : TicketsOK(d.queue[r], next)
  PROVE  DeskOK(ensureSeatCall(d, s), next)
<1> DEFINE e == ensureSeatCall(d, s)
<1>1. e \in Desks /\ e.queue = d.queue /\ e.player = d.player /\ \A r \in Side : SeatIsCalled(e, r)
  BY EnsureSeatCall
<1> HIDE DEF e
<1>2. OnePlace(e)
  BY <1>1 DEF OnePlace
<1>3. DeskOK(e, next)
  BY <1>1, <1>2 DEF DeskOK
<1> QED
  BY <1>3 DEF e

-----------------------------------------------------------------------------
(* The handlers of the desk.                                               *)

\* What a handler may do with one machine keeps the invariant of all.
LEMMA AtKeepsDesk ==
  ASSUME DeskInv, NEW m \in Machine, NEW d, At(m, d), DeskOK(d, nextTicketId'),
         nextTicketId' \in {nextTicketId, nextTicketId + 1}
  PROVE  DeskInv'
<1>1. desks' = [desks EXCEPT ![m] = d] /\ d \in Desks
  BY DEF At, DeskOK
<1>2. nextTicketId' \in Nat \ {0}
  BY DEF DeskInv
<1>3. ASSUME NEW n \in Machine PROVE DeskOK(desks'[n], nextTicketId')
  <2>1. CASE n = m
    BY <1>1, <2>1 DEF DeskInv
  <2>2. CASE n # m
    <3>1. desks'[n] = desks[n] /\ DeskOK(desks[n], nextTicketId)
      BY <1>1, <2>2 DEF DeskInv
    <3> QED
      BY <3>1, LaterTickets DEF DeskInv
  <2> QED
    BY <2>1, <2>2
<1> QED
  BY <1>1, <1>2, <1>3 DEF DeskInv

\* The fields of a machine have their types.
LEMMA DeskFacts ==
  ASSUME NEW d, NEW next, DeskOK(d, next), NEW s \in Side
  PROVE  /\ d \in Desks /\ d.queue \in [Side -> Seq(Entry)] /\ d.queue[s] \in Seq(Entry)
         /\ d.player \in [Side -> Viewer \cup {NoViewer}] /\ d.called \in [Side -> Entry \cup {NoCall}]
         /\ OnePlace(d) /\ \A r \in Side : SeatIsCalled(d, r)
         /\ \A r \in Side : TicketsOK(d.queue[r], next)
  BY DEF DeskOK, Desks

LEMMA JoinDesk ==
  ASSUME DeskInv, NEW m \in Machine, NEW v \in Viewer, NEW s \in Side, joinQueue(m, v, s)
  PROVE  DeskInv'
<1> DEFINE old == desks[m]
           e == [ticketId |-> nextTicketId, viewerId |-> v]
           line == Append(old.queue[s], e)
           d == [old EXCEPT !.queue = [old.queue EXCEPT ![s] = line]]
<1>1. DeskOK(old, nextTicketId) /\ nextTicketId \in Nat \ {0}
  BY DEF DeskInv
<1>2. ~viewerIsPresent(old, v) /\ nextTicketId' = nextTicketId + 1
  BY DEF joinQueue
<1>3. At(m, ensureSeatCall([old EXCEPT !.queue[s] = Append(@, e)], s))
  BY DEF joinQueue
<1>4. [old EXCEPT !.queue[s] = Append(@, e)] = d
  OBVIOUS
<1>5. e \in Entry /\ e.ticketId = nextTicketId /\ e.viewerId = v
  BY <1>1 DEF Entry
<1> HIDE DEF e, old
<1>6. /\ old \in Desks /\ old.queue \in [Side -> Seq(Entry)] /\ old.queue[s] \in Seq(Entry)
      /\ old.player \in [Side -> Viewer \cup {NoViewer}] /\ old.called \in [Side -> Entry \cup {NoCall}]
      /\ OnePlace(old) /\ (\A r \in Side : SeatIsCalled(old, r))
  BY <1>1, DeskFacts
<1>7. /\ line \in Seq(Entry) /\ line # <<>> /\ Len(line) = Len(old.queue[s]) + 1
      /\ \A i \in 1 .. Len(old.queue[s]) : line[i] = old.queue[s][i]
      /\ line[Len(old.queue[s]) + 1] = e
      /\ old.queue[s] # <<>> => Head(line) = Head(old.queue[s])
  BY <1>5, <1>6, HeadStays
<1> HIDE DEF line
<1>8. DOMAIN line = 1 .. Len(old.queue[s]) + 1 /\ DOMAIN old.queue[s] = 1 .. Len(old.queue[s])
      /\ Len(old.queue[s]) \in Nat
  BY <1>6, <1>7, LineFacts
<1>9. /\ d \in Desks /\ d.player = old.player /\ d.called = old.called /\ d.queue[s] = line
      /\ \A r \in Side \ {s} : d.queue[r] = old.queue[r]
  BY <1>6, <1>7 DEF Desks
<1> HIDE DEF d
\* Every entry is the new one or an old one in its old place.
<1>10. ASSUME NEW r \in Side, NEW i \in DOMAIN d.queue[r]
       PROVE  \/ r = s /\ i = Len(old.queue[s]) + 1 /\ d.queue[r][i] = e
              \/ i \in DOMAIN old.queue[r] /\ d.queue[r][i] = old.queue[r][i]
  <2>1. CASE r = s
    <3>1. d.queue[r] = line /\ i \in 1 .. Len(old.queue[s]) + 1
      BY <1>8, <1>9, <2>1
    <3>2. CASE i = Len(old.queue[s]) + 1
      BY <1>7, <2>1, <3>1, <3>2
    <3>3. CASE i # Len(old.queue[s]) + 1
      <4>1. i \in 1 .. Len(old.queue[s])
        BY <1>8, <3>1, <3>3
      <4> QED
        BY <1>7, <1>8, <2>1, <3>1, <4>1
    <3> QED
      BY <3>2, <3>3
  <2>2. CASE r # s
    BY <1>9, <2>2
  <2> QED
    BY <2>1, <2>2
<1>11. \A r \in Side : old.player[r] # v /\ \A i \in DOMAIN old.queue[r] : old.queue[r][i].viewerId # v
  BY <1>2 DEF viewerIsPresent
<1>12. OnePlace(d)
  <2> SUFFICES ASSUME NEW r \in Side, NEW u \in Side
               PROVE  /\ d.player[r] = d.player[u] /\ d.player[r] # NoViewer => r = u
                      /\ \A i \in DOMAIN d.queue[r] :
                           /\ d.queue[r][i].viewerId # d.player[u]
                           /\ \A j \in DOMAIN d.queue[u] :
                                d.queue[r][i].viewerId = d.queue[u][j].viewerId => r = u /\ i = j
    BY DEF OnePlace
  <2>1. d.player[r] = d.player[u] /\ d.player[r] # NoViewer => r = u
    BY <1>6, <1>9 DEF OnePlace
  <2>2. ASSUME NEW i \in DOMAIN d.queue[r] PROVE d.queue[r][i].viewerId # d.player[u]
    <3>1. CASE d.queue[r][i] = e
      BY <1>5, <1>9, <1>11, <3>1
    <3>2. CASE i \in DOMAIN old.queue[r] /\ d.queue[r][i] = old.queue[r][i]
      BY <1>6, <1>9, <3>2 DEF OnePlace
    <3> QED
      BY <1>10, <3>1, <3>2
  <2>3. ASSUME NEW i \in DOMAIN d.queue[r], NEW j \in DOMAIN d.queue[u],
               d.queue[r][i].viewerId = d.queue[u][j].viewerId
        PROVE  r = u /\ i = j
    BY <1>5, <1>6, <1>10, <1>11, <2>3 DEF OnePlace
  <2> QED
    BY <2>1, <2>2, <2>3
<1>13. \A r \in Side : SeatIsCalled(d, r) \/ (r = s /\ d.called[s] = NoCall)
  <2> TAKE r \in Side
  <2>1. CASE r # s
    BY <1>6, <1>9, <2>1 DEF SeatIsCalled
  <2>2. CASE r = s /\ old.queue[s] = <<>>
    BY <1>6, <1>9, <2>2 DEF SeatIsCalled
  <2>3. CASE r = s /\ old.queue[s] # <<>>
    BY <1>6, <1>7, <1>9, <2>3 DEF SeatIsCalled
  <2> QED
    BY <2>1, <2>2, <2>3
<1>14. \A r \in Side : TicketsOK(d.queue[r], nextTicketId + 1)
  <2> SUFFICES ASSUME NEW r \in Side, NEW i \in DOMAIN d.queue[r], NEW j \in DOMAIN d.queue[r]
               PROVE  /\ d.queue[r][i].ticketId < nextTicketId + 1
                      /\ d.queue[r][i].ticketId = d.queue[r][j].ticketId => i = j
    BY DEF TicketsOK
  <2>1. \A k \in DOMAIN old.queue[r] : old.queue[r][k].ticketId \in Nat /\ old.queue[r][k].ticketId < nextTicketId
    <3>1. old.queue[r] \in Seq(Entry)
      BY <1>6
    <3> QED
      BY <1>1, <3>1, LineFacts DEF DeskOK, TicketsOK
  <2>2. \A k, l \in DOMAIN old.queue[r] : old.queue[r][k].ticketId = old.queue[r][l].ticketId => k = l
    BY <1>1 DEF DeskOK, TicketsOK
  <2> QED
    BY <1>1, <1>5, <1>10, <2>1, <2>2
<1>15. DeskOK(ensureSeatCall(d, s), nextTicketId')
  BY <1>2, <1>9, <1>12, <1>13, <1>14, Repaired
<1> QED
  BY <1>2, <1>3, <1>4, <1>15, AtKeepsDesk

\* A desk that only loses entries and players keeps everybody in one place.
LEMMA FewerPlaces ==
  ASSUME NEW old \in Desks, NEW d \in Desks, OnePlace(old),
         \A r \in Side : d.player[r] \in {old.player[r], NoViewer},
         \A r \in Side : Rest(d.queue[r], old.queue[r])
  PROVE  OnePlace(d)
<1> SUFFICES ASSUME NEW r \in Side, NEW u \in Side
             PROVE  /\ d.player[r] = d.player[u] /\ d.player[r] # NoViewer => r = u
                    /\ \A i \in DOMAIN d.queue[r] :
                         /\ d.queue[r][i].viewerId # d.player[u]
                         /\ \A j \in DOMAIN d.queue[u] :
                              d.queue[r][i].viewerId = d.queue[u][j].viewerId => r = u /\ i = j
  BY DEF OnePlace
<1>1. d.player[r] = d.player[u] /\ d.player[r] # NoViewer => r = u
  BY DEF OnePlace
<1>2. ASSUME NEW i \in DOMAIN d.queue[r] PROVE d.queue[r][i].viewerId # d.player[u]
  <2>1. PICK a \in DOMAIN old.queue[r] : d.queue[r][i] = old.queue[r][a]
    BY DEF Rest
  <2>2. old.queue[r][a].viewerId \in Viewer
    <3>1. old.queue[r] \in Seq(Entry)
      BY DEF Desks
    <3> QED
      BY <3>1, LineFacts
  <2>3. old.queue[r][a].viewerId # old.player[u]
    BY DEF OnePlace
  <2> QED
    BY <2>1, <2>2, <2>3, ServerAssumption
<1>3. ASSUME NEW i \in DOMAIN d.queue[r], NEW j \in DOMAIN d.queue[u],
             d.queue[r][i].viewerId = d.queue[u][j].viewerId
      PROVE  r = u /\ i = j
  <2>1. \E a \in DOMAIN old.queue[r], b \in DOMAIN old.queue[u] :
          d.queue[r][i] = old.queue[r][a] /\ d.queue[u][j] = old.queue[u][b] /\ (r = u => (i = j <=> a = b))
    <3>1. CASE r = u
      BY <3>1 DEF Rest
    <3>2. CASE r # u
      BY <3>2 DEF Rest
    <3> QED
      BY <3>1, <3>2
  <2> QED
    BY <1>3, <2>1 DEF OnePlace
<1> QED
  BY <1>1, <1>2, <1>3

\* And its tickets are as they were.
LEMMA FewerTickets ==
  ASSUME NEW new, NEW old, NEW next, Rest(new, old), TicketsOK(old, next)
  PROVE  TicketsOK(new, next)
  BY DEF Rest, TicketsOK

LEMMA SameRest == ASSUME NEW q PROVE Rest(q, q)
  BY DEF Rest

LEMMA LeaveDesk ==
  ASSUME DeskInv, NEW m \in Machine, NEW v \in Viewer, NEW ticket \in Nat \ {0}, leaveQueue(m, v, ticket)
  PROVE  DeskInv'
<1> DEFINE old == desks[m]
<1>1. DeskOK(old, nextTicketId) /\ nextTicketId' = nextTicketId
  BY DEF DeskInv, leaveQueue
<1>2. PICK s \in Side :
        /\ Found(old.queue[s], v, ticket) # {}
        /\ At(m, ensureSeatCall([old EXCEPT !.queue[s] = removeTicket(@, v, ticket),
                                            !.called[s] = IF @.ticketId = ticket THEN NoCall ELSE @], s))
  BY DEF leaveQueue
<1> DEFINE line == removeTicket(old.queue[s], v, ticket)
           call == IF old.called[s].ticketId = ticket THEN NoCall ELSE old.called[s]
           d == [old EXCEPT !.queue = [old.queue EXCEPT ![s] = line], !.called = [old.called EXCEPT ![s] = call]]
<1>3. /\ old \in Desks /\ old.queue \in [Side -> Seq(Entry)] /\ old.queue[s] \in Seq(Entry)
      /\ old.player \in [Side -> Viewer \cup {NoViewer}] /\ old.called \in [Side -> Entry \cup {NoCall}]
      /\ OnePlace(old) /\ (\A r \in Side : SeatIsCalled(old, r))
      /\ \A r \in Side : TicketsOK(old.queue[r], nextTicketId)
  BY <1>1, DeskFacts
<1>4. At(m, ensureSeatCall(d, s))
  <2>1. [old EXCEPT !.queue[s] = removeTicket(@, v, ticket),
                    !.called[s] = IF @.ticketId = ticket THEN NoCall ELSE @] = d
    BY <1>3 DEF Desks
  <2> QED
    BY <1>2, <2>1
<1> HIDE DEF old
<1>5. /\ line \in Seq(Entry) /\ Rest(line, old.queue[s])
      /\ old.queue[s][1].ticketId # ticket => line # <<>> /\ Head(line) = Head(old.queue[s])
  BY <1>2, <1>3, RemoveTicket
<1>6. call \in Entry \cup {NoCall}
  BY <1>3
<1> HIDE DEF line
<1>7. /\ d \in Desks /\ d.player = old.player /\ d.queue[s] = line /\ d.called[s] = call
      /\ \A r \in Side \ {s} : d.queue[r] = old.queue[r] /\ d.called[r] = old.called[r]
  BY <1>3, <1>5, <1>6 DEF Desks
<1> HIDE DEF d
<1>8. \A r \in Side : Rest(d.queue[r], old.queue[r])
  BY <1>5, <1>7, SameRest
<1>9. OnePlace(d)
  BY <1>3, <1>7, <1>8, FewerPlaces
<1>10. \A r \in Side : SeatIsCalled(d, r) \/ (r = s /\ d.called[s] = NoCall)
  <2> TAKE r \in Side
  <2>1. CASE r # s
    BY <1>3, <1>7, <2>1 DEF SeatIsCalled
  <2>2. CASE r = s /\ call # NoCall
    <3>1. call = old.called[s] /\ old.called[s].ticketId # ticket
      BY <2>2
    <3>2. old.called[s] = Head(old.queue[s]) /\ old.queue[s] # <<>> /\ old.player[s] = NoViewer
      BY <1>3, <2>2, <3>1 DEF SeatIsCalled
    <3>3. Head(old.queue[s]) = old.queue[s][1]
      BY <1>3, <3>2, LineFacts
    <3> QED
      BY <1>5, <1>7, <2>2, <3>1, <3>2, <3>3 DEF SeatIsCalled
  <2>3. CASE r = s /\ call = NoCall
    BY <1>7, <2>3
  <2> QED
    BY <2>1, <2>2, <2>3
<1>11. \A r \in Side : TicketsOK(d.queue[r], nextTicketId)
  BY <1>3, <1>8, FewerTickets
<1>12. DeskOK(ensureSeatCall(d, s), nextTicketId')
  BY <1>1, <1>7, <1>9, <1>10, <1>11, Repaired
<1> QED
  BY <1>1, <1>4, <1>12, AtKeepsDesk

\* Standing up: the seat is empty, its line waits, and nobody was called.
LEMMA StandUp ==
  ASSUME NEW old, NEW next, DeskOK(old, next), NEW s \in Side, old.player[s] # NoViewer
  PROVE  DeskOK(ensureSeatCall([old EXCEPT !.player[s] = NoViewer], s), next)
<1> DEFINE d == [old EXCEPT !.player = [old.player EXCEPT ![s] = NoViewer]]
<1>1. /\ old \in Desks /\ old.queue \in [Side -> Seq(Entry)]
      /\ old.player \in [Side -> Viewer \cup {NoViewer}] /\ old.called \in [Side -> Entry \cup {NoCall}]
      /\ OnePlace(old) /\ (\A r \in Side : SeatIsCalled(old, r))
      /\ \A r \in Side : TicketsOK(old.queue[r], next)
  BY DeskFacts
<1>2. [old EXCEPT !.player[s] = NoViewer] = d
  OBVIOUS
<1>3. /\ d \in Desks /\ d.queue = old.queue /\ d.called = old.called /\ d.player[s] = NoViewer
      /\ \A r \in Side \ {s} : d.player[r] = old.player[r]
  BY <1>1 DEF Desks
<1> HIDE DEF d
<1>4. OnePlace(d)
  BY <1>1, <1>3, FewerPlaces, SameRest
<1>5. d.called[s] = NoCall
  BY <1>1, <1>3 DEF SeatIsCalled
<1>6. \A r \in Side : SeatIsCalled(d, r) \/ (r = s /\ d.called[s] = NoCall)
  BY <1>1, <1>3, <1>5 DEF SeatIsCalled
<1> QED
  BY <1>1, <1>2, <1>3, <1>4, <1>6, Repaired

LEMMA LeaveSeatDesk ==
  ASSUME DeskInv, NEW m \in Machine, NEW v \in Viewer, leaveSeat(m, v)
  PROVE  DeskInv'
<1>1. PICK s \in Side :
        desks[m].player[s] = v /\ At(m, ensureSeatCall([desks[m] EXCEPT !.player[s] = NoViewer], s))
  BY DEF leaveSeat
<1>2. DeskOK(desks[m], nextTicketId) /\ nextTicketId' = nextTicketId
  BY DEF leaveSeat, DeskInv
<1>3. desks[m].player[s] # NoViewer
  BY <1>1, ServerAssumption
<1> QED
  BY <1>1, <1>2, <1>3, StandUp, AtKeepsDesk

LEMMA EndRoundDesk ==
  ASSUME DeskInv, NEW m \in Machine, NEW winner \in Side, endRound(m, winner)
  PROVE  DeskInv'
<1>1. opposite(winner) \in Side /\ nextTicketId' = nextTicketId
  BY DEF opposite, Side, endRound
<1>2. /\ desks[m].player[opposite(winner)] # NoViewer
      /\ At(m, ensureSeatCall([desks[m] EXCEPT !.player[opposite(winner)] = NoViewer], opposite(winner)))
  BY <1>1 DEF endRound
<1>3. DeskOK(desks[m], nextTicketId)
  BY DEF DeskInv
<1> QED
  BY <1>1, <1>2, <1>3, StandUp, AtKeepsDesk

\* Who has no place may sit down.
LEMMA SitDown ==
  ASSUME NEW old \in Desks, NEW d \in Desks, NEW s \in Side, NEW v \in Viewer, OnePlace(old),
         d.queue = old.queue, d.player = [old.player EXCEPT ![s] = v],
         \A r \in Side : old.player[r] # v /\ \A i \in DOMAIN old.queue[r] : old.queue[r][i].viewerId # v
  PROVE  OnePlace(d)
<1>1. d.player[s] = v /\ \A r \in Side \ {s} : d.player[r] = old.player[r]
  BY DEF Desks
<1> SUFFICES ASSUME NEW r \in Side, NEW u \in Side
             PROVE  /\ d.player[r] = d.player[u] /\ d.player[r] # NoViewer => r = u
                    /\ \A i \in DOMAIN d.queue[r] :
                         /\ d.queue[r][i].viewerId # d.player[u]
                         /\ \A j \in DOMAIN d.queue[u] :
                              d.queue[r][i].viewerId = d.queue[u][j].viewerId => r = u /\ i = j
  BY DEF OnePlace
<1>2. d.player[r] = d.player[u] /\ d.player[r] # NoViewer => r = u
  BY <1>1 DEF OnePlace
<1>3. ASSUME NEW i \in DOMAIN d.queue[r] PROVE d.queue[r][i].viewerId # d.player[u]
  BY <1>1 DEF OnePlace
<1>4. \A i \in DOMAIN d.queue[r] : \A j \in DOMAIN d.queue[u] :
        d.queue[r][i].viewerId = d.queue[u][j].viewerId => r = u /\ i = j
  BY DEF OnePlace
<1> QED
  BY <1>2, <1>3, <1>4

LEMMA ClaimDesk ==
  ASSUME DeskInv, NEW m \in Machine, NEW v \in Viewer, NEW ticket \in Nat \ {0}, claimSeat(m, v, ticket)
  PROVE  DeskInv'
<1> DEFINE old == desks[m]
<1>1. DeskOK(old, nextTicketId) /\ nextTicketId' = nextTicketId
  BY DEF DeskInv, claimSeat
<1>2. PICK s \in Side :
        /\ old.called[s] = [ticketId |-> ticket, viewerId |-> v] /\ old.player[s] = NoViewer
        /\ At(m, ensureSeatCall([old EXCEPT !.queue[s] = removeTicket(@, v, ticket),
                                            !.player[s] = v, !.called[s] = NoCall], opposite(s)))
  BY DEF claimSeat
<1> DEFINE line == removeTicket(old.queue[s], v, ticket)
           left == [old EXCEPT !.queue = [old.queue EXCEPT ![s] = line]]
           d == [old EXCEPT !.queue = [old.queue EXCEPT ![s] = line], !.player = [old.player EXCEPT ![s] = v],
                            !.called = [old.called EXCEPT ![s] = NoCall]]
<1>3. /\ old \in Desks /\ old.queue \in [Side -> Seq(Entry)] /\ old.queue[s] \in Seq(Entry)
      /\ old.player \in [Side -> Viewer \cup {NoViewer}] /\ old.called \in [Side -> Entry \cup {NoCall}]
      /\ OnePlace(old) /\ (\A r \in Side : SeatIsCalled(old, r))
      /\ \A r \in Side : TicketsOK(old.queue[r], nextTicketId)
  BY <1>1, DeskFacts
<1>4. At(m, ensureSeatCall(d, opposite(s)))
  <2>1. [old EXCEPT !.queue[s] = removeTicket(@, v, ticket), !.player[s] = v, !.called[s] = NoCall] = d
    BY <1>3 DEF Desks
  <2> QED
    BY <1>2, <2>1
<1> HIDE DEF old
\* The call is the head of the line.
<1>5. old.queue[s] # <<>> /\ 1 \in DOMAIN old.queue[s] /\ old.queue[s][1] = [ticketId |-> ticket, viewerId |-> v]
  <2>1. old.called[s] # NoCall
    BY <1>2 DEF NoCall
  <2>2. old.queue[s] # <<>> /\ Head(old.queue[s]) = [ticketId |-> ticket, viewerId |-> v]
    BY <1>2, <1>3, <2>1 DEF SeatIsCalled
  <2> QED
    BY <1>3, <2>2, LineFacts
<1>6. Found(old.queue[s], v, ticket) # {}
  BY <1>5 DEF Found
<1>7. /\ line \in Seq(Entry) /\ Rest(line, old.queue[s])
      /\ \A i \in DOMAIN line : line[i].ticketId # ticket
  BY <1>3, <1>6, RemoveTicket
<1> HIDE DEF line
<1>8. /\ left \in Desks /\ left.player = old.player /\ left.queue[s] = line
      /\ \A r \in Side \ {s} : left.queue[r] = old.queue[r]
  BY <1>3, <1>7 DEF Desks
<1>9. /\ d \in Desks /\ d.queue = left.queue /\ d.player = [left.player EXCEPT ![s] = v]
      /\ d.called[s] = NoCall /\ d.player[s] = v
      /\ \A r \in Side \ {s} : d.called[r] = old.called[r] /\ d.player[r] = old.player[r]
  BY <1>3, <1>7 DEF Desks
<1> HIDE DEF left, d
<1>10. \A r \in Side : Rest(left.queue[r], old.queue[r])
  BY <1>7, <1>8, SameRest
<1>11. OnePlace(left)
  BY <1>3, <1>8, <1>10, FewerPlaces
<1>12. \A r \in Side : left.player[r] # v /\ \A i \in DOMAIN left.queue[r] : left.queue[r][i].viewerId # v
  <2> TAKE r \in Side
  <2>1. left.player[r] # v
    BY <1>3, <1>5, <1>8 DEF OnePlace
  <2>2. ASSUME NEW i \in DOMAIN left.queue[r], left.queue[r][i].viewerId = v PROVE FALSE
    <3>1. PICK a \in DOMAIN old.queue[r] : left.queue[r][i] = old.queue[r][a]
      BY <1>10 DEF Rest
    <3>2. r = s /\ a = 1
      BY <1>3, <1>5, <2>2, <3>1 DEF OnePlace
    <3>3. left.queue[r][i].ticketId = ticket
      BY <1>5, <3>1, <3>2
    <3> QED
      BY <1>7, <1>8, <3>2, <3>3
  <2> QED
    BY <2>1, <2>2
<1>13. OnePlace(d)
  BY <1>8, <1>9, <1>11, <1>12, SitDown
<1>14. \A r \in Side : SeatIsCalled(d, r)
  <2> TAKE r \in Side
  <2>1. CASE r = s
    BY <1>9, <2>1, ServerAssumption DEF SeatIsCalled
  <2>2. CASE r # s
    BY <1>3, <1>8, <1>9, <2>2 DEF SeatIsCalled
  <2> QED
    BY <2>1, <2>2
<1>15. \A r \in Side : TicketsOK(d.queue[r], nextTicketId)
  BY <1>3, <1>9, <1>10, FewerTickets
<1>16. opposite(s) \in Side
  BY DEF opposite, Side
<1>17. DeskOK(ensureSeatCall(d, opposite(s)), nextTicketId')
  BY <1>1, <1>9, <1>13, <1>14, <1>15, <1>16, Repaired
<1> QED
  BY <1>1, <1>4, <1>17, AtKeepsDesk

LEMMA InitDesk == Init => DeskInv
<1> SUFFICES ASSUME Init PROVE DeskInv
  OBVIOUS
<1> DEFINE d == [queue |-> [s \in Side |-> <<>>], player |-> [s \in Side |-> NoViewer], called |-> [s \in Side |-> NoCall]]
<1>1. d \in Desks
  BY EmptySeq DEF Desks
<1>2. DeskOK(d, 1)
  BY <1>1 DEF DeskOK, OnePlace, SeatIsCalled, TicketsOK
<1> QED
  BY <1>1, <1>2 DEF Init, DeskInv

LEMMA StepDesk == DeskInv /\ [Next]_vars => DeskInv'
<1> SUFFICES ASSUME DeskInv, [Next]_vars PROVE DeskInv'
  OBVIOUS
<1>1. CASE UNCHANGED desk
  BY <1>1 DEF desk, DeskInv
<1>2. CASE Desk
  <2>1. Queued \subseteq Machine /\ 1..MaxTicket \subseteq Nat \ {0}
    BY ServerAssumption DEF Machine
  <2>2. ASSUME NEW m \in Queued, NEW v \in Viewer, NEW s \in Side, joinQueue(m, v, s) PROVE DeskInv'
    BY <2>1, <2>2, JoinDesk
  <2>3. ASSUME NEW m \in Queued, NEW v \in Viewer, NEW ticket \in 1..MaxTicket, leaveQueue(m, v, ticket)
        PROVE  DeskInv'
    BY <2>1, <2>3, LeaveDesk
  <2>4. ASSUME NEW m \in Queued, NEW v \in Viewer, NEW ticket \in 1..MaxTicket, claimSeat(m, v, ticket)
        PROVE  DeskInv'
    BY <2>1, <2>4, ClaimDesk
  <2>5. ASSUME NEW m \in Queued, NEW v \in Viewer, leaveSeat(m, v) PROVE DeskInv'
    BY <2>1, <2>5, LeaveSeatDesk
  <2>6. ASSUME NEW m \in Queued, NEW s \in Side, endRound(m, s) PROVE DeskInv'
    BY <2>1, <2>6, EndRoundDesk
  <2> QED
    BY <1>2, <2>2, <2>3, <2>4, <2>5, <2>6 DEF Desk
<1>3. StartAll \/ Children \/ Gateways \/ upgrade_throws \/ shutdown \/ stopAll \/ exit => UNCHANGED desk
  BY DEF StartAll, startRecord, probeHealthz, start, listen_fails, Children, answer_healthz, child_boots, child_dies,
     exit_event, Gateways, routeGatewayConnection, upgrade_throws, refuse_connection, upstream_opens, refuse_input,
     input_throws, upstream_closes, client_closes, Gateway, shutdown, stopAll, exit, Ends
<1> QED
  BY <1>1, <1>2, <1>3 DEF Next, vars, desk

\* The desk's invariant, whatever the rest of the server does.
THEOREM DeskInvariant == Spec => []DeskInv
<1> QED
  BY InitDesk, StepDesk, PTL DEF Spec

\* However viewers join, leave, claim, stand up and end rounds, every empty seat
\* with a line is called for its head, and nobody is in two places.
THEOREM EverySeatIsCalled == Spec => []SeatsAreCalled
<1>1. DeskInv => SeatsAreCalled
  BY DEF DeskInv, DeskOK, SeatsAreCalled
<1> QED
  BY <1>1, DeskInvariant, PTL

-----------------------------------------------------------------------------
(* The runtimes.                                                           *)

Serving == stage \in {"up", "closing"}

NotStarted(m) == starting < m \/ (starting = m /\ ~waiting)

Running == {"booting", "healthy"}

Unused(r) == r.child = "none" /\ ~r.process /\ ~r.answered

\* Until stopAll, a record has a process as long as its exit has not been
\* reported, and says "stopped" only before the first start.
Honest(r) ==
  /\ r.process <=> r.child \in Running \cup {"dead"}
  /\ r.status = "stopped" => r.child = "none"

\* What a record says of its child process.
RecordOK(m) ==
  /\ NotStarted(m) => Unused(runtimes[m])
  /\ Serving => Honest(runtimes[m])
  /\ Serving /\ starting > m /\ ~runtimes[m].process =>
       runtimes[m].status = IF runtimes[m].overtaken /\ runtimes[m].answered THEN "online" ELSE "error"
  /\ Serving /\ waiting /\ starting = m /\ ~runtimes[m].process /\ runtimes[m].answered => runtimes[m].overtaken
  /\ stage = "stopping" /\ runtimes[m].child \in Running /\ m < unspawned => m \in stopping
  /\ stage = "exited" /\ runtimes[m].child \in Running => m >= unspawned

\* What stopAll did not see is what startAll reaches after it.
UnspawnedOK ==
  stage = "stopping" => unspawned <= starting + 1 /\ (~waiting => unspawned <= starting)

RunTypes ==
  /\ runtimes \in [Machine -> Record]
  /\ starting \in 1..(Machines + 2) /\ waiting \in BOOLEAN /\ (waiting => starting \in Machine)
  /\ stage \in {"up", "closing", "stopping", "exited", "crashed"} /\ stopping \subseteq Machine
  /\ unspawned \in 0..(Machines + 2)

RunInv == RunTypes /\ UnspawnedOK /\ \A m \in Machine : RecordOK(m)

\* Only the record of m changes, and with it at most the set awaited by stopAll.
LEMMA OneRecord ==
  ASSUME RunInv, NEW m \in Machine, NEW r \in Record, runtimes' = [runtimes EXCEPT ![m] = r],
         UNCHANGED <<starting, waiting, stage, unspawned>>, stopping' \in {stopping, stopping \ {m}}, RecordOK(m)'
  PROVE  RunInv'
<1>1. runtimes' \in [Machine -> Record] /\ RunTypes' /\ UnspawnedOK'
  BY DEF RunInv, RunTypes, UnspawnedOK
<1>2. ASSUME NEW n \in Machine, n # m PROVE RecordOK(n)'
  <2>1. runtimes'[n] = runtimes[n] /\ (n \in stopping' <=> n \in stopping)
    BY <1>2 DEF RunInv, RunTypes
  <2> QED
    BY <2>1 DEF RunInv, RecordOK, NotStarted, Serving
<1> QED
  BY <1>1, <1>2 DEF RunInv

LEMMA InitRun == Init => RunInv
<1> SUFFICES ASSUME Init PROVE RunInv
  OBVIOUS
<1> DEFINE r0 == [status |-> "stopped", process |-> FALSE, child |-> "none", answered |-> FALSE, overtaken |-> FALSE]
<1>1. starting = 1 /\ waiting = FALSE /\ stage = "up" /\ stopping = {} /\ unspawned = 0
      /\ runtimes = [m \in Machine |-> r0]
  BY DEF Init
<1>2. r0 \in Record /\ Unused(r0) /\ Honest(r0)
  BY DEF Record, Unused, Honest, Running
<1> HIDE DEF r0
<1>3. RunTypes /\ UnspawnedOK
  <2>1. 1 \in 1..(Machines + 2) /\ 0 \in 0..(Machines + 2)
    BY ServerAssumption
  <2>2. runtimes \in [Machine -> Record]
    BY <1>1, <1>2
  <2> QED
    BY <1>1, <2>1, <2>2 DEF RunTypes, UnspawnedOK
<1>4. ASSUME NEW m \in Machine PROVE RecordOK(m)
  <2>1. m \in Nat \ {0} /\ ~(starting > m)
    BY <1>1, ServerAssumption DEF Machine
  <2>2. runtimes[m] = r0
    BY <1>1
  <2> QED
    BY <1>1, <1>2, <2>1, <2>2 DEF RecordOK, Serving
<1> QED
  BY <1>3, <1>4 DEF RunInv

LEMMA SpawnRun == ASSUME RunInv, NEW spawned \in BOOLEAN, startRecord(spawned) PROVE RunInv'
<1>1. PICK m \in Machine : m = starting
  BY DEF startRecord
<1> DEFINE r == [runtimes[m] EXCEPT !.status = IF spawned THEN "starting" ELSE "error", !.process = spawned,
                                    !.child = IF spawned THEN "booting" ELSE "none"]
<1>2. /\ stage # "exited" /\ ~waiting /\ waiting' = TRUE
      /\ runtimes' = [runtimes EXCEPT ![m] = r] /\ UNCHANGED <<starting, stage, stopping, unspawned>>
  BY <1>1 DEF startRecord, Ended
<1>3. runtimes \in [Machine -> Record] /\ runtimes[m] \in Record /\ ~runtimes[m].answered
  BY <1>1, <1>2 DEF RunInv, RunTypes, RecordOK, NotStarted, Unused
<1>4. /\ r \in Record /\ ~r.answered /\ r.status # "stopped" /\ Honest(r)
  BY <1>3 DEF Record, Honest, Running
<1> HIDE DEF r
<1>5. runtimes' \in [Machine -> Record] /\ runtimes'[m] = r /\ RunTypes'
  BY <1>1, <1>2, <1>3, <1>4 DEF RunInv, RunTypes
<1>6. RecordOK(m)'
  <2>1. ~(starting < m) /\ ~(starting > m)
    BY <1>1, ServerAssumption DEF Machine
  <2>2. stage = "stopping" => unspawned <= m
    BY <1>1, <1>2 DEF RunInv, UnspawnedOK
  <2>3. m \in Nat /\ unspawned \in Nat /\ (stage = "stopping" => ~(m < unspawned))
    BY <1>1, <2>2, ServerAssumption DEF RunInv, RunTypes, Machine
  <2> QED
    BY <1>1, <1>2, <1>4, <1>5, <2>1, <2>3 DEF RecordOK, NotStarted, Serving
<1>7. ASSUME NEW n \in Machine, n # m PROVE RecordOK(n)'
  <2>1. runtimes'[n] = runtimes[n] /\ (NotStarted(n)' => NotStarted(n))
    BY <1>2, <1>3, <1>7 DEF NotStarted
  <2> QED
    BY <1>1, <1>2, <1>7, <2>1 DEF RunInv, RecordOK, Serving
<1>8. UnspawnedOK'
  BY <1>2 DEF RunInv, RunTypes, UnspawnedOK
<1> QED
  BY <1>5, <1>6, <1>7, <1>8 DEF RunInv

LEMMA BootRun == ASSUME RunInv, NEW m \in Machine, child_boots(m) \/ child_dies(m) PROVE RunInv'
<1>1. PICK c \in {"healthy", "dead"} :
        /\ runtimes[m].child \in Running /\ runtimes' = [runtimes EXCEPT ![m] = [runtimes[m] EXCEPT !.child = c]]
        /\ UNCHANGED main
  BY DEF child_boots, child_dies, Alive, Running
<1> DEFINE r == [runtimes[m] EXCEPT !.child = c]
<1>2. /\ r \in Record /\ r.child = c /\ r.status = runtimes[m].status /\ r.process = runtimes[m].process
      /\ r.answered = runtimes[m].answered /\ r.overtaken = runtimes[m].overtaken
  BY DEF RunInv, RunTypes, Record
<1>3. ~Unused(runtimes[m]) /\ (Honest(runtimes[m]) => Honest(r))
  BY <1>1, <1>2 DEF Unused, Honest, Running
<1>4. runtimes' = [runtimes EXCEPT ![m] = r]
  BY <1>1
<1> HIDE DEF r
<1>5. runtimes'[m] = r
  BY <1>4 DEF RunInv, RunTypes
<1>6. RecordOK(m)'
  BY <1>1, <1>2, <1>3, <1>5 DEF RunInv, RecordOK, NotStarted, Serving, main
<1> QED
  BY <1>1, <1>2, <1>4, <1>6, OneRecord DEF main

LEMMA ExitRun == ASSUME RunInv, NEW m \in Machine, exit_event(m) PROVE RunInv'
<1> DEFINE r == [runtimes[m] EXCEPT !.child = "gone", !.process = FALSE, !.overtaken = waiting /\ starting = m,
                                    !.status = IF runtimes[m].status # "stopped" THEN "error" ELSE runtimes[m].status]
<1>1. /\ stage # "exited" /\ runtimes[m].child = "dead" /\ runtimes' = [runtimes EXCEPT ![m] = r]
      /\ stopping' = stopping \ {m} /\ UNCHANGED <<starting, waiting, stage, unspawned>>
  BY DEF exit_event, Ended
<1>2. (waiting /\ starting = m) \in BOOLEAN
  OBVIOUS
<1>3. /\ r \in Record /\ r.child = "gone" /\ (r.overtaken <=> waiting /\ starting = m)
      /\ (runtimes[m].status # "stopped" => r.status = "error")
  BY <1>2 DEF RunInv, RunTypes, Record
<1>4. ~Unused(runtimes[m]) /\ (Honest(runtimes[m]) => Honest(r) /\ r.status = "error")
  BY <1>1, <1>3 DEF RunInv, RunTypes, Record, Unused, Honest, Running
<1> HIDE DEF r
<1>5. runtimes'[m] = r
  BY <1>1 DEF RunInv, RunTypes
<1>6. RecordOK(m)'
  <2>1. r.child \notin Running
    BY <1>3 DEF Running
  <2> QED
    BY <1>1, <1>3, <1>4, <1>5, <2>1 DEF RunInv, RecordOK, NotStarted, Serving
<1> QED
  BY <1>1, <1>3, <1>6, OneRecord

LEMMA AnswerRun == ASSUME RunInv, answer_healthz PROVE RunInv'
<1>1. PICK m \in Machine : m = starting
  BY DEF answer_healthz, RunInv, RunTypes
<1> DEFINE r == [runtimes[m] EXCEPT !.answered = TRUE]
<1>2. /\ waiting /\ runtimes[m].child = "healthy" /\ runtimes' = [runtimes EXCEPT ![m] = r]
      /\ UNCHANGED <<starting, waiting, stage, stopping, unspawned>>
  BY <1>1 DEF answer_healthz, main
<1>3. /\ r \in Record /\ r.child = "healthy" /\ r.status = runtimes[m].status
      /\ r.process = runtimes[m].process /\ r.overtaken = runtimes[m].overtaken
  BY <1>2 DEF RunInv, RunTypes, Record
<1>4. ~Unused(runtimes[m]) /\ (Honest(runtimes[m]) => Honest(r) /\ r.process)
  BY <1>2, <1>3 DEF Unused, Honest, Running
<1> HIDE DEF r
<1>5. runtimes'[m] = r
  BY <1>2 DEF RunInv, RunTypes
<1>6. RecordOK(m)'
  BY <1>2, <1>3, <1>4, <1>5 DEF RunInv, RecordOK, NotStarted, Serving
<1> QED
  BY <1>2, <1>3, <1>6, OneRecord

LEMMA ProbeRun == ASSUME RunInv, probeHealthz PROVE RunInv'
<1>1. PICK m \in Machine : m = starting
  BY DEF probeHealthz, RunInv, RunTypes
<1> DEFINE r == [runtimes[m] EXCEPT !.status = IF runtimes[m].answered THEN "online" ELSE "error"]
<1>2. /\ stage # "exited" /\ waiting /\ runtimes' = [runtimes EXCEPT ![m] = r]
      /\ starting' = m + 1 /\ ~waiting' /\ waiting' \in BOOLEAN /\ UNCHANGED <<stage, stopping, unspawned>>
  BY <1>1 DEF probeHealthz, Ended
<1>3. m \in Nat /\ m + 1 \in 1..(Machines + 2) /\ ~(starting < m) /\ m < m + 1 /\ ~(m + 1 < m) /\ m + 1 # m
  BY <1>1, ServerAssumption DEF Machine
<1>4. /\ r \in Record /\ r.child = runtimes[m].child /\ r.process = runtimes[m].process
      /\ r.overtaken = runtimes[m].overtaken /\ r.status # "stopped"
      /\ r.answered = runtimes[m].answered
      /\ r.status = IF runtimes[m].answered THEN "online" ELSE "error"
  BY DEF RunInv, RunTypes, Record
<1>5. Honest(runtimes[m]) => Honest(r)
  BY <1>4 DEF Honest
<1> HIDE DEF r
<1>6. runtimes' \in [Machine -> Record] /\ runtimes'[m] = r /\ RunTypes'
  BY <1>2, <1>3, <1>4 DEF RunInv, RunTypes
<1>7. RecordOK(m)'
  <2>1. ~NotStarted(m)'
    BY <1>2, <1>3 DEF NotStarted
  <2> QED
    BY <1>1, <1>2, <1>4, <1>5, <1>6, <2>1 DEF RunInv, RecordOK, Serving
<1>8. ASSUME NEW n \in Machine, n # m PROVE RecordOK(n)'
  <2>1. runtimes'[n] = runtimes[n] /\ n \in Nat
    BY <1>2, <1>8, ServerAssumption DEF RunInv, RunTypes, Machine
  <2>2. (NotStarted(n)' => NotStarted(n)) /\ (starting' > n => starting > n)
    BY <1>1, <1>2, <1>3, <1>8, <2>1 DEF NotStarted
  <2> QED
    BY <1>1, <1>2, <1>8, <2>1, <2>2 DEF RunInv, RecordOK, Serving
<1>9. UnspawnedOK'
  <2>1. stage = "stopping" => unspawned <= m + 1
    BY <1>1 DEF RunInv, UnspawnedOK
  <2>2. unspawned \in Nat /\ m + 1 <= starting' + 1 /\ (unspawned <= m + 1 => unspawned <= starting' + 1)
    BY <1>2, <1>3, ServerAssumption DEF RunInv, RunTypes
  <2> QED
    BY <1>2, <2>1, <2>2 DEF UnspawnedOK
<1> QED
  BY <1>6, <1>7, <1>8, <1>9 DEF RunInv

LEMMA StopRun == ASSUME RunInv, stopAll PROVE RunInv'
<1>1. /\ stage = "closing" /\ stage' = "stopping" /\ UNCHANGED <<starting, waiting>>
      /\ unspawned' = IF waiting THEN starting + 1 ELSE starting
      /\ stopping' = {m \in Machine : runtimes[m].process}
      /\ runtimes' = [m \in Machine |-> [runtimes[m] EXCEPT !.status = "stopped", !.process = FALSE]]
  BY DEF stopAll
<1>2. ASSUME NEW m \in Machine
      PROVE  /\ runtimes'[m] \in Record /\ runtimes'[m].child = runtimes[m].child
             /\ ~runtimes'[m].process /\ runtimes'[m].answered = runtimes[m].answered
  <2> DEFINE r == [runtimes[m] EXCEPT !.status = "stopped", !.process = FALSE]
  <2>1. r \in Record /\ r.child = runtimes[m].child /\ ~r.process /\ r.answered = runtimes[m].answered
    BY DEF RunInv, RunTypes, Record
  <2> QED
    BY <1>1, <2>1
<1>3. RunTypes' /\ UnspawnedOK'
  <2>1. runtimes' \in [Machine -> Record]
    BY <1>1, <1>2
  <2>2. starting \in 1..(Machines + 2) /\ (waiting => starting \in 1..Machines) /\ Machines \in Nat
    BY ServerAssumption DEF RunInv, RunTypes, Machine
  <2>3. /\ unspawned' \in 0..(Machines + 2) /\ unspawned' <= starting + 1
        /\ ~waiting => unspawned' <= starting
    <3>1. CASE waiting
      <4>1. unspawned' = starting + 1
        BY <1>1, <3>1
      <4> QED
        BY <2>2, <3>1, <4>1
    <3>2. CASE ~waiting
      <4>1. unspawned' = starting
        BY <1>1, <3>2
      <4> QED
        BY <2>2, <3>2, <4>1
    <3> QED
      BY <3>1, <3>2
  <2>4. UnspawnedOK'
    BY <1>1, <2>3 DEF UnspawnedOK
  <2> QED
    BY <1>1, <2>1, <2>3, <2>4 DEF RunInv, RunTypes
<1>4. ASSUME NEW m \in Machine PROVE RecordOK(m)'
  <2>1. runtimes'[m].child \in Running => m \in stopping'
    BY <1>1, <1>2 DEF RunInv, RecordOK, Serving, Honest
  <2>2. NotStarted(m)' => Unused(runtimes[m])
    BY <1>1 DEF RunInv, RecordOK, NotStarted
  <2> QED
    BY <1>1, <1>2, <2>1, <2>2 DEF RecordOK, Serving, Unused
<1> QED
  BY <1>3, <1>4 DEF RunInv

Others == <<runtimes, main, sockets>>

\* The desk's handlers touch nothing else.
LEMMA DeskAlone == ASSUME Desk PROVE UNCHANGED Others
<1>1. ASSUME NEW m, NEW d, At(m, d) PROVE UNCHANGED Others
  BY <1>1 DEF At, Others
<1>2. ASSUME NEW m, NEW v, NEW s, joinQueue(m, v, s) PROVE UNCHANGED Others
  BY <1>1, <1>2, Zenon DEF joinQueue
<1>3. ASSUME NEW m, NEW v, NEW ticket, leaveQueue(m, v, ticket) PROVE UNCHANGED Others
  BY <1>1, <1>3, Zenon DEF leaveQueue
<1>4. ASSUME NEW m, NEW v, NEW ticket, claimSeat(m, v, ticket) PROVE UNCHANGED Others
  BY <1>1, <1>4, Zenon DEF claimSeat
<1>5. ASSUME NEW m, NEW v, leaveSeat(m, v) PROVE UNCHANGED Others
  BY <1>1, <1>5, Zenon DEF leaveSeat
<1>6. ASSUME NEW m, NEW s, endRound(m, s) PROVE UNCHANGED Others
  BY <1>1, <1>6, Zenon DEF endRound
<1> QED
  BY <1>2, <1>3, <1>4, <1>5, <1>6, Zenon DEF Desk

LEMMA StepRun == RunInv /\ [Next]_vars => RunInv'
<1> SUFFICES ASSUME RunInv, [Next]_vars PROVE RunInv'
  OBVIOUS
<1>1. ASSUME UNCHANGED <<runtimes, starting, waiting, stage, stopping, unspawned>> PROVE RunInv'
  BY <1>1 DEF RunInv, RunTypes, UnspawnedOK, RecordOK, NotStarted, Serving
\* The end of the server: where exit comes, stopAll awaits nobody any more.
<1>ends. ASSUME NEW how \in {"exited", "crashed"}, Ends(how), how = "exited" => stage = "stopping" /\ stopping = {}
      PROVE  RunInv'
  <2>1. stage' = how /\ UNCHANGED <<runtimes, starting, waiting, stopping, unspawned>>
    BY <1>ends DEF Ends
  <2>2. ASSUME NEW m \in Machine PROVE RecordOK(m)'
    <3>1. RecordOK(m) /\ m \in Nat /\ unspawned \in Nat
      BY ServerAssumption DEF RunInv, RunTypes, Machine
    <3>2. how = "exited" /\ runtimes[m].child \in Running => m >= unspawned
      BY <1>ends, <3>1 DEF RecordOK
    <3> QED
      BY <2>1, <3>1, <3>2 DEF RecordOK, NotStarted, Serving
  <2> QED
    BY <2>1, <2>2 DEF RunInv, RunTypes, UnspawnedOK
<1>2. CASE UNCHANGED vars
  BY <1>1, <1>2 DEF vars
<1>3. CASE Desk
  BY <1>1, <1>3, DeskAlone DEF Others, main
<1>4. CASE StartAll
  <2>1. CASE start
    <3>1. /\ starting = Machines + 1 /\ starting' = Machines + 2
          /\ UNCHANGED <<runtimes, waiting, stage, stopping, unspawned>>
      BY <2>1 DEF start
    <3>2. RunTypes' /\ ~waiting /\ UnspawnedOK'
      BY <3>1, ServerAssumption DEF RunInv, RunTypes, UnspawnedOK, Machine
    <3>3. ASSUME NEW m \in Machine PROVE RecordOK(m)'
      <4>1. starting > m /\ ~NotStarted(m)'
        BY <3>1, ServerAssumption DEF NotStarted, Machine
      <4> QED
        BY <3>1, <3>2, <4>1 DEF RunInv, RecordOK, Serving
    <3> QED
      BY <3>2, <3>3 DEF RunInv
  <2>2. CASE listen_fails
    BY <1>ends, <2>2 DEF listen_fails
  <2> QED
    BY <1>4, <2>1, <2>2, SpawnRun, ProbeRun DEF StartAll
<1>5. CASE Children
  BY <1>5, AnswerRun, BootRun, ExitRun DEF Children
<1>6. CASE Gateways \/ upgrade_throws
  <2>1. ASSUME NEW k, input_throws(k) PROVE RunInv'
    BY <1>ends, <2>1 DEF input_throws
  <2>2. CASE upgrade_throws
    BY <1>ends, <2>2 DEF upgrade_throws
  <2>3. ASSUME NEW k, \/ \E m \in Machine, kind \in {"stream", "input"} : routeGatewayConnection(k, m, kind)
                      \/ refuse_connection(k) \/ upstream_opens(k) \/ refuse_input(k)
                      \/ upstream_closes(k) \/ client_closes(k)
        PROVE  RunInv'
    BY <1>1, <2>3 DEF routeGatewayConnection, refuse_connection, upstream_opens, refuse_input, upstream_closes,
                      client_closes, Gateway, main
  <2> QED
    BY <1>6, <2>1, <2>2, <2>3 DEF Gateways
<1>7. CASE shutdown
  <2>1. stage = "up" /\ stage' = "closing" /\ UNCHANGED <<runtimes, starting, waiting, stopping, unspawned>>
    BY <1>7 DEF shutdown
  <2> QED
    BY <2>1 DEF RunInv, RunTypes, UnspawnedOK, RecordOK, NotStarted, Serving
<1>8. CASE exit
  BY <1>8, <1>ends DEF exit
<1> QED
  BY <1>2, <1>3, <1>4, <1>5, <1>6, <1>7, <1>8, StopRun DEF Next

\* The records of the runtime processes agree with the processes themselves, and
\* stopAll awaits every process that a record has lost sight of.
THEOREM RunInvariant == Spec => []RunInv
<1> QED
  BY InitRun, StepRun, PTL DEF Spec

\* A machine whose process has ended is shown as failed, unless it had answered
\* the first probe and its end was handled before the answer (it is then shown
\* as online); and an orderly exit leaves no process of a machine that startAll
\* had reached before stopAll.
THEOREM NoProcessIsLost == Spec => []ProcessesAreAccountedFor
<1>1. RunInv => ProcessesAreAccountedFor
  BY DEF RunInv, RecordOK, Serving, Running, Alive, ProcessesAreAccountedFor
<1> QED
  BY <1>1, RunInvariant, PTL

-----------------------------------------------------------------------------
(* Types.                                                                  *)

Half == [client : SocketState, upstream : SocketState, machine : Machine, kind : {"stream", "input"}]

SocketTypes == listening \in BOOLEAN /\ sockets \in [Socket -> Half]

LEMMA HalfStates ==
  ASSUME NEW h \in Half, NEW c \in SocketState, NEW u \in SocketState
  PROVE  [h EXCEPT !.client = c, !.upstream = u] \in Half
  BY DEF Half

LEMMA StepSockets == SocketTypes /\ [Next]_vars => SocketTypes'
<1> SUFFICES ASSUME SocketTypes, [Next]_vars PROVE SocketTypes'
  OBVIOUS
<1>1. ASSUME listening' \in BOOLEAN, UNCHANGED sockets PROVE SocketTypes'
  BY <1>1 DEF SocketTypes
<1>ends. ASSUME NEW how, Ends(how) PROVE SocketTypes'
  BY <1>ends DEF Ends, SocketTypes, Half, SocketState
<1>2. CASE UNCHANGED vars
  BY <1>1, <1>2 DEF vars, SocketTypes
<1>3. CASE Desk
  BY <1>1, <1>3, DeskAlone DEF Others, main, SocketTypes
<1>4. CASE StartAll
  BY <1>1, <1>4, <1>ends DEF StartAll, startRecord, probeHealthz, start, listen_fails, SocketTypes
<1>5. CASE Children
  BY <1>1, <1>5 DEF Children, answer_healthz, child_boots, child_dies, exit_event, main, SocketTypes
<1>6. CASE Gateways
  <2>1. PICK k \in Socket :
          \/ \E m \in Machine, kind \in {"stream", "input"} : routeGatewayConnection(k, m, kind)
          \/ refuse_connection(k) \/ upstream_opens(k) \/ refuse_input(k) \/ input_throws(k)
          \/ upstream_closes(k) \/ client_closes(k)
    BY <1>6 DEF Gateways
  <2>3. CASE input_throws(k)
    BY <1>ends, <2>3 DEF input_throws
  <2>4. sockets[k] \in Half
    BY DEF SocketTypes
  <2>5. ASSUME ~input_throws(k)
        PROVE  \E h \in Half : sockets' = [sockets EXCEPT ![k] = h] /\ UNCHANGED listening
    <3>1. CASE \E m \in Machine, kind \in {"stream", "input"} : routeGatewayConnection(k, m, kind)
      BY <3>1 DEF routeGatewayConnection, main, Half, SocketState, InUse
    <3>2. CASE refuse_connection(k)
      BY <3>2 DEF refuse_connection, main, SocketTypes, Half, SocketState, InUse
    <3>3. CASE upstream_opens(k)
      BY <3>3 DEF upstream_opens, Gateway, main, SocketTypes, Half, SocketState, InUse
    <3>4. CASE refuse_input(k)
      <4>1. /\ sockets' = [sockets EXCEPT ![k] = [sockets[k] EXCEPT !.client = "closing", !.upstream = "closing"]]
            /\ UNCHANGED listening
        BY <3>4 DEF refuse_input, Gateway, main
      <4> QED
        BY <2>4, <4>1, HalfStates DEF SocketState, InUse
    <3>5. CASE upstream_closes(k)
      <4> DEFINE c == IF sockets[k].client = "open" THEN "closing" ELSE sockets[k].client
      <4>1. /\ sockets' = [sockets EXCEPT ![k] = [sockets[k] EXCEPT !.client = c, !.upstream = "closed"]]
            /\ UNCHANGED listening
        BY <2>4, <3>5 DEF upstream_closes, Gateway, main, Half
      <4>2. c \in SocketState /\ "closed" \in SocketState
        BY <2>4 DEF Half, SocketState, InUse
      <4> HIDE DEF c
      <4> QED
        BY <2>4, <4>1, <4>2, HalfStates
    <3>6. CASE client_closes(k)
      <4> DEFINE u == IF sockets[k].upstream \in {"open", "connecting"} THEN "closing" ELSE sockets[k].upstream
      <4>1. /\ sockets' = [sockets EXCEPT ![k] = [sockets[k] EXCEPT !.client = "closed", !.upstream = u]]
            /\ UNCHANGED listening
        BY <2>4, <3>6 DEF client_closes, Gateway, main, Half
      <4>2. u \in SocketState /\ "closed" \in SocketState
        BY <2>4 DEF Half, SocketState, InUse
      <4> HIDE DEF u
      <4> QED
        BY <2>4, <4>1, <4>2, HalfStates
    <3> QED
      BY <2>1, <2>5, <3>1, <3>2, <3>3, <3>4, <3>5, <3>6
  <2> QED
    BY <2>3, <2>5 DEF SocketTypes
<1>7. CASE shutdown \/ stopAll
  BY <1>1, <1>7 DEF shutdown, stopAll, SocketTypes
<1>8. CASE exit \/ upgrade_throws
  BY <1>8, <1>ends DEF exit, upgrade_throws
<1> QED
  BY <1>2, <1>3, <1>4, <1>5, <1>6, <1>7, <1>8 DEF Next

\* Desk, records, shutdown and connections keep their types.
THEOREM ServerTypes == Spec => []TypeOK
<1>1. Init => SocketTypes
  <2> DEFINE h == [client |-> "unborn", upstream |-> "unborn", machine |-> 1, kind |-> "stream"]
  <2>1. Init => listening = FALSE /\ sockets = [k \in Socket |-> h]
    BY DEF Init
  <2>2. h \in Half
    BY ServerAssumption DEF Half, SocketState, Machine
  <2> QED
    BY <2>1, <2>2 DEF SocketTypes
<1>2. DeskInv /\ RunInv /\ SocketTypes => TypeOK
  BY DEF DeskInv, RunInv, RunTypes, SocketTypes, Half, TypeOK
<1>3. Spec => []SocketTypes
  BY <1>1, StepSockets, PTL DEF Spec
<1> QED
  BY <1>2, <1>3, DeskInvariant, RunInvariant, PTL
=============================================================================
