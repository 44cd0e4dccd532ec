------------------------ MODULE NodeLifecycleProofs ------------------------
(* Proofs about NodeLifecycle and EventStreams, for any nodes, tags, requests,
   subscribers and sizes of queue and history. *)
EXTENDS NodeLifecycle, TLAPS

----------------------------------------------------------------------------
(* The streams                                                             *)

\* Each event is the one after the event before it.
Chain(s) == \A i \in 1 .. Len(s) - 1 : s[i + 1] = s[i] + 1

EndsAt(s, e) == s # <<>> /\ s[Len(s)] = e

\* The history is a chain that ends with the last event; so is what a subscriber
\* has got followed by what it has queued, while the broadcaster knows it.
Chained ==
    /\ Chain(past) /\ (events > 0 => EndsAt(past, events))
    /\ \A s \in open :
          /\ Chain(got[s]) /\ Chain(queue[s])
          /\ got[s] # <<>> /\ queue[s] # <<>> => queue[s][1] = got[s][Len(got[s])] + 1
          /\ s \in known /\ events > 0 =>
                IF queue[s] # <<>> THEN EndsAt(queue[s], events) ELSE EndsAt(got[s], events)

StreamsInv == StreamsTypeOK /\ Chained

LEMMA StreamsInitially == StreamsInit => StreamsInv
BY StreamsAssumption DEF StreamsInit, StreamsInv, StreamsTypeOK, Chained, Chain

\* What the last n elements of a sequence are.
LEMMA LastElements ==
    ASSUME NEW S, NEW s \in Seq(S), NEW n \in Nat \ {0}
    PROVE  /\ Last(s, n) \in Seq(S) /\ Len(Last(s, n)) <= n /\ Len(Last(s, n)) <= Len(s)
           /\ \A i \in 1 .. Len(Last(s, n)) : Last(s, n)[i] = s[i + (Len(s) - Len(Last(s, n)))]
           /\ s # <<>> => Last(s, n) # <<>>
<1>1. CASE Len(s) <= n
  BY <1>1 DEF Last
<1>2. CASE ~(Len(s) <= n)
  <2>1. Last(s, n) = SubSeq(s, Len(s) - n + 1, Len(s)) /\ Len(s) \in Nat /\ Len(s) > n
    BY <1>2 DEF Last
  <2>2. Len(Last(s, n)) = n /\ Last(s, n) \in Seq(S)
    BY <2>1
  <2>3. \A i \in 1 .. n : Last(s, n)[i] = s[i + (Len(s) - n)]
    BY <2>1
  <2>4. Last(s, n) # <<>>
    <3>1. Len(<<>>) = 0 /\ n # 0
      OBVIOUS
    <3>2. QED
      BY ONLY <2>2, <3>1, Zenon
  <2>5. QED
    BY <2>1, <2>2, <2>3, <2>4
<1>3. QED
  BY <1>1, <1>2

LEMMA LastChain ==
    ASSUME NEW S, S \subseteq Nat, NEW s \in Seq(S), NEW n \in Nat \ {0}, NEW e, Chain(s)
    PROVE  Chain(Last(s, n)) /\ (EndsAt(s, e) => EndsAt(Last(s, n), e))
<1>1. Chain(Last(s, n))
  <2> DEFINE L == Last(s, n)
             d == Len(s) - Len(L)
  <2>1. /\ Len(L) \in Nat /\ Len(s) \in Nat /\ Len(L) <= Len(s)
        /\ \A i \in 1 .. Len(L) : L[i] = s[i + d]
    BY LastElements
  <2>2. ASSUME NEW i \in 1 .. Len(L) - 1 PROVE L[i + 1] = L[i] + 1
    <3>0. i \in 1 .. Len(L) /\ i + 1 \in 1 .. Len(L)
      BY ONLY <2>1, i \in 1 .. Len(L) - 1
    <3>1. L[i] = s[i + d] /\ L[i + 1] = s[(i + 1) + d]
      BY ONLY <2>1, <3>0, Zenon
    <3>2. i + d \in 1 .. Len(s) - 1 /\ (i + 1) + d = (i + d) + 1
      BY <2>1
    <3>3. s[(i + d) + 1] = s[i + d] + 1
      BY <3>2 DEF Chain
    <3>4. QED
      BY <3>1, <3>2, <3>3
  <2>3. QED
    BY <2>2 DEF Chain
<1>2. ASSUME EndsAt(s, e) PROVE EndsAt(Last(s, n), e)
  BY <1>2, LastElements DEF EndsAt
<1>3. QED
  BY <1>1, <1>2

LEMMA SeqWidens ==
    ASSUME NEW a \in Nat, NEW s \in Seq(1 .. a) PROVE s \in Seq(1 .. a + 1)
OBVIOUS

\* A chain is continued by the next event.
LEMMA ChainGrows ==
    ASSUME NEW a \in Nat, NEW s \in Seq(1 .. a), Chain(s), s = <<>> \/ EndsAt(s, a)
    PROVE  /\ Append(s, a + 1) \in Seq(1 .. a + 1) /\ Chain(Append(s, a + 1))
           /\ EndsAt(Append(s, a + 1), a + 1)
           /\ s # <<>> => Append(s, a + 1)[1] = s[1]
           /\ s = <<>> => Append(s, a + 1)[1] = a + 1
<1> DEFINE t == Append(s, a + 1)
<1>1. /\ t \in Seq(1 .. a + 1) /\ Len(t) = Len(s) + 1 /\ Len(s) \in Nat /\ t[Len(s) + 1] = a + 1
      /\ \A i \in 1 .. Len(s) : t[i] = s[i]
  BY SeqWidens
<1>2. s = <<>> <=> Len(s) = 0
  OBVIOUS
<1>3. t # <<>>
  <2>1. Len(<<>>) = 0 /\ Len(s) + 1 # 0
    BY <1>1
  <2>2. QED
    BY ONLY <1>1, <2>1, Zenon
<1>4. Chain(t)
  <2> SUFFICES ASSUME NEW i \in 1 .. Len(t) - 1 PROVE t[i + 1] = t[i] + 1
    BY DEF Chain
  <2>1. CASE i = Len(s)
    BY <1>1, <1>2, <2>1 DEF EndsAt
  <2>2. CASE i # Len(s)
    BY <1>1, <2>2 DEF Chain
  <2>3. QED
    BY <2>1, <2>2
<1>5. QED
  BY <1>1, <1>2, <1>3, <1>4 DEF EndsAt

LEMMA PublishStreams == ASSUME StreamsInv, Publish PROVE StreamsInv'
<1> USE StreamsAssumption DEF StreamsInv
<1>1. /\ events \in Nat /\ events' = events + 1 /\ past \in Seq(1 .. events)
      /\ past' = Last(Append(past, events + 1), MaxHistory)
      /\ known' = {s \in known : Len(queue[s]) < MaxQueue}
      /\ queue' = [s \in Subscribers |->
                      IF s \in known' THEN Append(queue[s], events + 1) ELSE queue[s]]
      /\ open' = open /\ got' = got
  BY DEF Publish, StreamsTypeOK
<1>2. Chain(past) /\ (past = <<>> \/ EndsAt(past, events))
  BY <1>1 DEF Chained, EndsAt
<1>3. LET t == Append(past, events + 1)
      IN  t \in Seq(1 .. events + 1) /\ Chain(t) /\ EndsAt(t, events + 1)
  BY <1>1, <1>2, ChainGrows
<1>4. /\ past' \in Seq(1 .. events') /\ Len(past') <= MaxHistory
      /\ Chain(past') /\ EndsAt(past', events')
  <2> DEFINE t == Append(past, events + 1)
  <2>1. t \in Seq(1 .. events + 1) /\ (1 .. events + 1) \subseteq Nat /\ MaxHistory \in Nat \ {0}
    BY <1>1, <1>3
  <2> HIDE DEF t
  <2>2. Last(t, MaxHistory) \in Seq(1 .. events + 1) /\ Len(Last(t, MaxHistory)) <= MaxHistory
    BY ONLY <2>1, LastElements
  <2>3. Chain(t) /\ EndsAt(t, events + 1)
    BY <1>3 DEF t
  <2>4. Chain(Last(t, MaxHistory)) /\ EndsAt(Last(t, MaxHistory), events + 1)
    BY ONLY <2>1, <2>3, LastChain
  <2>5. past' = Last(t, MaxHistory) /\ events' = events + 1
    BY <1>1 DEF t
  <2>6. QED
    BY ONLY <2>2, <2>4, <2>5, Zenon
<1>5. ASSUME NEW s \in Subscribers
      PROVE  /\ queue'[s] \in Seq(1 .. events') /\ Len(queue'[s]) <= MaxQueue
             /\ got'[s] \in Seq(1 .. events')
  <2>1. /\ queue[s] \in Seq(1 .. events) /\ got[s] \in Seq(1 .. events)
        /\ Len(queue[s]) <= MaxQueue /\ known \subseteq open
    BY DEF StreamsTypeOK
  <2>2. queue'[s] = IF s \in known' THEN Append(queue[s], events + 1) ELSE queue[s]
    BY <1>1
  <2>3. queue[s] \in Seq(1 .. events + 1) /\ got[s] \in Seq(1 .. events + 1)
    BY <1>1, <2>1, SeqWidens
  <2>4. s \in known' => Len(queue[s]) < MaxQueue
    BY <1>1
  <2>5. CASE s \in known'
    <3>1. queue'[s] = Append(queue[s], events + 1) /\ Len(queue[s]) < MaxQueue
      BY <2>2, <2>4, <2>5
    <3>2. events + 1 \in 1 .. events + 1
      BY ONLY <1>1
    <3>3. /\ Append(queue[s], events + 1) \in Seq(1 .. events + 1)
          /\ Len(Append(queue[s], events + 1)) = Len(queue[s]) + 1 /\ Len(queue[s]) \in Nat
      BY ONLY <2>3, <3>2
    <3>4. Len(queue[s]) + 1 <= MaxQueue
      BY ONLY <3>1, <3>3, StreamsAssumption
    <3>5. events' = events + 1 /\ got' = got
      BY <1>1
    <3>6. QED
      BY ONLY <2>3, <3>1, <3>3, <3>4, <3>5, Zenon
  <2>6. CASE s \notin known'
    BY <1>1, <2>1, <2>2, <2>3, <2>6
  <2>7. QED
    BY <2>5, <2>6
<1>6. StreamsTypeOK'
  <2>1. queue' \in [Subscribers -> Seq(1 .. events')] /\ got' \in [Subscribers -> Seq(1 .. events')]
    BY <1>1, <1>5 DEF StreamsTypeOK
  <2>2. QED
    BY <1>1, <1>4, <1>5, <2>1 DEF StreamsTypeOK
<1>7. ASSUME NEW s \in open
      PROVE  /\ Chain(got[s]) /\ Chain(queue'[s])
             /\ got[s] # <<>> /\ queue'[s] # <<>> => queue'[s][1] = got[s][Len(got[s])] + 1
             /\ s \in known' => EndsAt(queue'[s], events')
  <2>1. /\ s \in Subscribers /\ queue[s] \in Seq(1 .. events) /\ got[s] \in Seq(1 .. events)
        /\ Chain(got[s]) /\ Chain(queue[s])
        /\ got[s] # <<>> /\ queue[s] # <<>> => queue[s][1] = got[s][Len(got[s])] + 1
    BY DEF StreamsTypeOK, Chained
  <2>2. CASE s \notin known'
    BY <1>1, <2>1, <2>2
  <2>3. CASE s \in known'
    <3>1. s \in known /\ queue'[s] = Append(queue[s], events + 1)
      BY <1>1, <2>1, <2>3
    <3>2. queue[s] = <<>> \/ EndsAt(queue[s], events)
      BY <1>1, <2>1, <3>1 DEF Chained, EndsAt
    <3>3. /\ Chain(queue'[s]) /\ EndsAt(queue'[s], events')
          /\ queue[s] # <<>> => queue'[s][1] = queue[s][1]
          /\ queue[s] = <<>> => queue'[s][1] = events + 1
      BY <1>1, <2>1, <3>1, <3>2, ChainGrows
    <3>4. queue[s] = <<>> /\ got[s] # <<>> => got[s][Len(got[s])] = events
      <4>1. got[s] # <<>> => events > 0
        BY <1>1, <2>1
      <4>2. QED
        BY <3>1, <4>1 DEF Chained, EndsAt
    <3>5. QED
      BY <2>1, <3>3, <3>4
  <2>4. QED
    BY <2>2, <2>3
<1>8. Chained'
  BY <1>1, <1>4, <1>7 DEF Chained, EndsAt
<1>9. QED
  BY <1>6, <1>8

LEMMA SubscriberStreams ==
    ASSUME StreamsInv, NEW c \in Subscribers, Subscribe(c) \/ Deliver(c) \/ Unsubscribe(c)
    PROVE  StreamsInv'
<1> USE StreamsAssumption DEF StreamsInv
<1>1. CASE Subscribe(c)
  <2> DEFINE q == Last(past, MaxReplay)
  <2>1. /\ open' = open \cup {c} /\ known' = known \cup {c}
        /\ queue' = [queue EXCEPT ![c] = q] /\ got' = [got EXCEPT ![c] = <<>>]
        /\ events' = events /\ past' = past
    BY <1>1 DEF Subscribe
  <2>2. past \in Seq(1 .. events) /\ (1 .. events) \subseteq Nat /\ events \in Nat /\ Chain(past)
    BY DEF StreamsTypeOK, Chained
  <2>3. q \in Seq(1 .. events) /\ Len(q) <= MaxReplay /\ Len(q) \in Nat
    BY ONLY <2>2, LastElements, StreamsAssumption
  <2>4. Chain(q) /\ (EndsAt(past, events) => EndsAt(q, events))
    BY ONLY <2>2, LastChain, StreamsAssumption
  <2> HIDE DEF q
  <2>5. StreamsTypeOK'
    BY <2>1, <2>3 DEF StreamsTypeOK
  <2>6. queue'[c] = q /\ got'[c] = <<>> /\ \A s \in Subscribers \ {c} : queue'[s] = queue[s] /\ got'[s] = got[s]
    BY <2>1 DEF StreamsTypeOK
  <2>7. Chain(<<>>)
    BY DEF Chain
  <2>8. events > 0 => EndsAt(q, events)
    BY <2>4 DEF Chained
  <2>9. Chained'
    BY <2>1, <2>4, <2>6, <2>7, <2>8 DEF Chained, EndsAt, StreamsTypeOK
  <2>10. QED
    BY <2>5, <2>9
<1>2. CASE Deliver(c)
  <2> DEFINE q == queue[c]
             g == got[c]
  <2>1. /\ got' = [got EXCEPT ![c] = Append(g, Head(q))]
        /\ queue' = [queue EXCEPT ![c] = Tail(q)] /\ q # <<>> /\ c \in open
        /\ events' = events /\ past' = past /\ known' = known /\ open' = open
    BY <1>2 DEF Deliver
  <2>2. q \in Seq(1 .. events) /\ g \in Seq(1 .. events) /\ Len(q) <= MaxQueue /\ events \in Nat
    BY DEF StreamsTypeOK
  <2>3. /\ Chain(g) /\ Chain(q)
        /\ g # <<>> => q[1] = g[Len(g)] + 1
        /\ c \in known /\ events > 0 => EndsAt(q, events)
    BY <2>1 DEF Chained
  <2> HIDE DEF q, g
  <2>4. /\ Len(q) > 0 /\ Len(q) \in Nat /\ Tail(q) \in Seq(1 .. events) /\ Len(Tail(q)) = Len(q) - 1
        /\ \A i \in 1 .. Len(q) - 1 : Tail(q)[i] = q[i + 1]
    BY <2>1, <2>2
  <2>5. /\ Head(q) = q[1] /\ q[1] \in 1 .. events
        /\ Append(g, Head(q)) \in Seq(1 .. events) /\ Len(Append(g, Head(q))) = Len(g) + 1
        /\ Len(g) \in Nat /\ Append(g, Head(q))[Len(g) + 1] = q[1]
        /\ \A i \in 1 .. Len(g) : Append(g, Head(q))[i] = g[i]
    BY <2>2, <2>4
  <2>6. Append(g, Head(q)) # <<>>
    <3>1. Len(<<>>) = 0 /\ Len(g) + 1 # 0
      BY <2>5
    <3>2. QED
      BY ONLY <2>5, <3>1, Zenon
  <2>7. Chain(Append(g, Head(q)))
    <3> SUFFICES ASSUME NEW i \in 1 .. Len(g)
                 PROVE  Append(g, Head(q))[i + 1] = Append(g, Head(q))[i] + 1
      BY <2>5 DEF Chain
    <3>1. CASE i = Len(g)
      BY <2>3, <2>5, <3>1
    <3>2. CASE i # Len(g)
      BY <2>3, <2>5, <3>2 DEF Chain
    <3>3. QED
      BY <3>1, <3>2
  <2>8. Chain(Tail(q))
    BY <2>3, <2>4 DEF Chain
  <2>9. Tail(q) # <<>> => Tail(q)[1] = q[1] + 1
    BY <2>2, <2>3, <2>4 DEF Chain
  <2>10. c \in known /\ events > 0 =>
            IF Tail(q) # <<>> THEN EndsAt(Tail(q), events) ELSE EndsAt(Append(g, Head(q)), events)
    <3> SUFFICES ASSUME c \in known, events > 0
                 PROVE  IF Tail(q) # <<>> THEN EndsAt(Tail(q), events)
                                          ELSE EndsAt(Append(g, Head(q)), events)
      OBVIOUS
    <3>1. q[Len(q)] = events
      BY <2>3 DEF EndsAt
    <3>2. CASE Tail(q) # <<>>
      BY <2>2, <2>4, <3>1, <3>2 DEF EndsAt
    <3>3. CASE Tail(q) = <<>>
      <4>1. Len(q) = 1
        <5>1. Len(<<>>) = 0
          OBVIOUS
        <5>2. Len(q) - 1 = 0 /\ Len(q) \in Nat
          BY ONLY <2>4, <3>3, <5>1, Zenon
        <5>3. QED
          BY ONLY <5>2
      <4>2. QED
        BY <2>5, <2>6, <3>1, <3>3, <4>1 DEF EndsAt
    <3>4. QED
      BY <3>2, <3>3
  <2>11. StreamsTypeOK'
    BY <2>1, <2>2, <2>4, <2>5 DEF StreamsTypeOK
  <2>12. /\ queue'[c] = Tail(q) /\ got'[c] = Append(g, Head(q))
         /\ \A s \in Subscribers \ {c} : queue'[s] = queue[s] /\ got'[s] = got[s]
    BY <2>1 DEF StreamsTypeOK
  <2>13. ASSUME NEW s \in open
         PROVE  /\ Chain(got'[s]) /\ Chain(queue'[s])
                /\ got'[s] # <<>> /\ queue'[s] # <<>> => queue'[s][1] = got'[s][Len(got'[s])] + 1
                /\ s \in known /\ events > 0 =>
                      IF queue'[s] # <<>> THEN EndsAt(queue'[s], events)
                                          ELSE EndsAt(got'[s], events)
    <3>1. CASE s = c
      BY <2>5, <2>7, <2>8, <2>9, <2>10, <2>12, <3>1
    <3>2. CASE s # c
      BY <2>12, <3>2 DEF Chained, StreamsTypeOK
    <3>3. QED
      BY <3>1, <3>2
  <2>14. Chained'
    BY <2>1, <2>13 DEF Chained
  <2>15. QED
    BY <2>11, <2>14
<1>3. CASE Unsubscribe(c)
  <2>1. /\ open' = open \ {c} /\ known' = known \ {c} /\ queue' = [queue EXCEPT ![c] = <<>>]
        /\ events' = events /\ past' = past /\ got' = got
    BY <1>3 DEF Unsubscribe
  <2>2. StreamsTypeOK'
    BY <2>1 DEF StreamsTypeOK
  <2>3. Chained'
    BY <2>1 DEF Chained, StreamsTypeOK
  <2>4. QED
    BY <2>2, <2>3
<1>4. QED
  BY <1>1, <1>2, <1>3

\* The invariant of the streams leaves no gap.
LEMMA NoGapFollows == StreamsInv => NoGap
<1> SUFFICES ASSUME StreamsInv, NEW s \in open
             PROVE  LET all == got[s] \o queue[s]
                    IN  /\ \A i \in 1 .. Len(all) - 1 : all[i + 1] = all[i] + 1
                        /\ s \in known /\ events > 0 /\ past # <<>> =>
                              all # <<>> /\ all[Len(all)] = events
  BY DEF NoGap
<1> DEFINE g == got[s]
           q == queue[s]
           all == g \o q
<1>1. /\ g \in Seq(1 .. events) /\ q \in Seq(1 .. events) /\ events \in Nat
      /\ Chain(g) /\ Chain(q) /\ (g # <<>> /\ q # <<>> => q[1] = g[Len(g)] + 1)
      /\ s \in known /\ events > 0 =>
            IF q # <<>> THEN EndsAt(q, events) ELSE EndsAt(g, events)
  BY DEF StreamsInv, StreamsTypeOK, Chained
<1> HIDE DEF g, q
<1>2. /\ Len(all) = Len(g) + Len(q) /\ Len(g) \in Nat /\ Len(q) \in Nat
      /\ \A i \in 1 .. Len(g) : all[i] = g[i]
      /\ \A i \in 1 .. Len(q) : all[Len(g) + i] = q[i]
      /\ all \in Seq(1 .. events)
  BY <1>1
<1>3. (g = <<>> <=> Len(g) = 0) /\ (q = <<>> <=> Len(q) = 0) /\ (all = <<>> <=> Len(all) = 0)
  BY <1>1, <1>2
<1> HIDE DEF all
<1>4. ASSUME NEW i \in 1 .. Len(all) - 1 PROVE all[i + 1] = all[i] + 1
  <2>1. CASE i < Len(g)
    <3>1. i \in 1 .. Len(g) - 1 /\ i \in 1 .. Len(g) /\ i + 1 \in 1 .. Len(g)
      BY <1>2, <2>1
    <3>2. all[i] = g[i] /\ all[i + 1] = g[i + 1]
      BY ONLY <1>2, <3>1, Zenon
    <3>3. g[i + 1] = g[i] + 1
      BY <1>1, <3>1 DEF Chain
    <3>4. QED
      BY <3>2, <3>3
  <2>2. CASE i = Len(g)
    <3>1. Len(q) > 0 /\ Len(g) > 0 /\ all[i] = g[Len(g)] /\ all[Len(g) + 1] = q[1]
      BY <1>2, <2>2
    <3>2. QED
      BY <1>1, <1>3, <2>2, <3>1
  <2>3. CASE i > Len(g)
    <3> DEFINE j == i - Len(g)
    <3>1. j \in 1 .. Len(q) - 1 /\ i = Len(g) + j /\ i + 1 = Len(g) + (j + 1)
      BY <1>2, <2>3
    <3>0. j \in 1 .. Len(q) /\ j + 1 \in 1 .. Len(q)
      BY <1>2, <3>1
    <3> HIDE DEF j
    <3>2. all[Len(g) + j] = q[j] /\ all[Len(g) + (j + 1)] = q[j + 1]
      BY ONLY <1>2, <3>0, Zenon
    <3>3. q[j + 1] = q[j] + 1
      BY <1>1, <3>1 DEF Chain
    <3>4. QED
      BY <3>1, <3>2, <3>3
  <2>4. QED
    BY <1>2, <2>1, <2>2, <2>3
<1>5. ASSUME s \in known, events > 0 PROVE all # <<>> /\ all[Len(all)] = events
  <2>1. CASE q # <<>>
    <3>1. q[Len(q)] = events /\ Len(q) > 0
      BY <1>1, <1>2, <1>3, <1>5, <2>1 DEF EndsAt
    <3>2. all[Len(g) + Len(q)] = q[Len(q)]
      BY <1>2, <3>1
    <3>3. QED
      BY <1>2, <1>3, <3>1, <3>2
  <2>2. CASE q = <<>>
    BY <1>1, <1>2, <1>3, <1>5, <2>2 DEF EndsAt
  <2>3. QED
    BY <2>1, <2>2
<1>6. QED
  BY <1>4, <1>5 DEF all, g, q

LEMMA StreamsFrame == ASSUME StreamsInv, UNCHANGED streams PROVE StreamsInv'
BY DEF StreamsInv, Chained, StreamsTypeOK, streams, Chain, EndsAt

----------------------------------------------------------------------------
(* Requests, reports, events, status history and tags                      *)

NodeTypes ==
    /\ node \in [Nodes -> {"absent", "present", "deleted"}]
    /\ status \in [Nodes -> Statuses]
    /\ tags \in [Nodes -> SUBSET Tags]
    /\ history \in [Nodes -> Seq((Statuses \cup {None}) \X Statuses)]
    /\ meant \in [Nodes -> SUBSET Tags]
    /\ requests \in Nat

RequestTypes ==
    /\ phase \in [Workers -> {"idle", "probe", "read", "intent", "save", "history",
                              "publish", "tagIntent", "tagWrite", "bulkWrite", "answer"}]
    /\ kind \in [Workers -> {"check", "edit", "add", "remove", "set"}]
    /\ on \in [Workers -> Nodes \cup {None}]
    /\ old \in [Workers -> Statuses \cup {None}]
    /\ want \in [Workers -> Statuses \cup {None}]
    /\ list \in [Workers -> SUBSET Tags]
    /\ given \in [Workers -> SUBSET Tags]
    /\ report \in [Workers -> Statuses \cup {"failed", None}]
    /\ held \in [Workers -> SUBSET Statuses]

\* What the position of a request says about its data.
Positions ==
    \A w \in Workers :
        /\ phase[w] \notin {"idle", "answer"} => on[w] \in Nodes
        /\ phase[w] \in {"read", "intent", "save", "history", "publish"} => want[w] \in Statuses
        /\ phase[w] \in {"tagIntent", "tagWrite", "bulkWrite"} => kind[w] \in {"add", "remove", "set"}
        /\ phase[w] # "answer" => report[w] = None

\* A status that was saved is one that the node has had since.
Saved ==
    /\ ReportsHonest
    /\ \A w \in Workers : phase[w] \in {"history", "publish"} => want[w] \in held[w]

\* What is about to be published has its row.
Recorded ==
    /\ EventsRecorded
    /\ published \in Seq(Nodes \X (Statuses \cup {None}) \X Statuses)
    /\ \A w \in Workers : phase[w] = "publish" => <<on[w], old[w], want[w]>> \in rows

\* One request at a time changes the status of a node that is not raced; the old
\* status it read is still there until it saves, and the row it adds afterwards is
\* about the status it saved.
StatusOf(n) ==
    /\ \A w, v \in Workers : ChangingStatus(w, n) /\ ChangingStatus(v, n) => w = v
    /\ \A w \in Workers : on[w] = n =>
          /\ phase[w] = "history" => status[n] = want[w]
          /\ phase[w] \in {"intent", "save"} => old[w] \in {None, status[n]}
    /\ node[n] # "deleted" /\ (\A w \in Workers : ~(on[w] = n /\ phase[w] = "history"))
          => Explained(n)

StatusHistory == \A n \in Nodes : n \notin raced /\ n \notin missed => StatusOf(n)

\* The row of a bulk operation is its own until it has written: the list it read is
\* still the node's.
Locks ==
    \A w \in Workers : phase[w] = "bulkWrite" =>
        /\ list[w] = tags[on[w]]
        /\ \A v \in Workers : phase[v] = "bulkWrite" /\ on[v] = on[w] => v = w

TagLists == Locks /\ \A n \in Nodes : n \notin lapped => tags[n] = meant[n]

IInv ==
    /\ StreamsInv /\ NodeTypes /\ RequestTypes /\ Positions
    /\ Saved /\ Recorded /\ StatusHistory /\ TagLists

LEMMA TypeFollows == IInv => TypeOK
BY DEF IInv, StreamsInv, NodeTypes, RequestTypes, TypeOK

LEMMA InitHolds == Init => IInv
<1> SUFFICES ASSUME Init PROVE IInv
  OBVIOUS
<1>1. StreamsInv
  BY StreamsInitially DEF Init
<1>2. NodeTypes /\ RequestTypes /\ Positions /\ Saved /\ TagLists
  BY DEF Init, NodeTypes, RequestTypes, Positions, Saved, ReportsHonest, TagLists, Locks,
       Statuses, None
<1>3. Recorded
  BY DEF Init, StreamsInit, Recorded, EventsRecorded
<1>4. StatusHistory
  BY DEF Init, StatusHistory, StatusOf, ChangingStatus, Explained, Statuses, None
<1>5. QED
  BY <1>1, <1>2, <1>3, <1>4 DEF IInv

\* A step of a request or of the administration.
NodeStep ==
    \/ \E n \in Nodes : CreateNode(n) \/ DeleteNode(n)
    \/ \E w \in Workers : Work(w)

\* Rows of nodes keep their types.
LEMMA NodeTypesStep == ASSUME IInv, NodeStep PROVE NodeTypes'
<1> USE DEF IInv, NodeTypes, RequestTypes, Positions, Present, data, ghosts, request
<1>1. ASSUME NEW n \in Nodes, CreateNode(n) PROVE NodeTypes'
  BY <1>1 DEF CreateNode
<1>2. ASSUME NEW n \in Nodes, DeleteNode(n) PROVE NodeTypes'
  BY <1>2 DEF DeleteNode
<1>3. ASSUME NEW w \in Workers, NEW n \in Nodes, BeginCheck(w, n) PROVE NodeTypes'
  BY <1>3 DEF BeginCheck, Begin, Count
<1>4. ASSUME NEW w \in Workers, Probe(w) PROVE NodeTypes'
  BY <1>4 DEF Probe, Goto, End
<1>5. ASSUME NEW w \in Workers, ReadOld(w) PROVE NodeTypes'
  BY <1>5 DEF ReadOld, Goto
<1>6. ASSUME NEW w \in Workers, NEW n \in Nodes, NEW s \in Statuses, BeginEdit(w, n, s) PROVE NodeTypes'
  BY <1>6 DEF BeginEdit, Begin, Count
<1>7. ASSUME NEW w \in Workers, LogIntent(w) PROVE NodeTypes'
  BY <1>7 DEF LogIntent, Goto, End
<1>8. ASSUME NEW w \in Workers, SaveStatus(w) PROVE NodeTypes'
  BY <1>8 DEF SaveStatus, SaveFails, Changed, Goto, End
<1>9. ASSUME NEW w \in Workers, WriteHistory(w) PROVE NodeTypes'
  <2>1. on[w] \in Nodes /\ <<old[w], want[w]>> \in (Statuses \cup {None}) \X Statuses
    BY <1>9 DEF WriteHistory
  <2>2. Append(history[on[w]], <<old[w], want[w]>>) \in Seq((Statuses \cup {None}) \X Statuses)
    BY <2>1
  <2>3. history' \in [Nodes -> Seq((Statuses \cup {None}) \X Statuses)]
    BY <1>9, <2>1, <2>2 DEF WriteHistory, HistoryFails
  <2>4. QED
    BY <1>9, <2>3 DEF WriteHistory
<1>10. ASSUME NEW w \in Workers, PublishChange(w) PROVE NodeTypes'
  BY <1>10 DEF PublishChange, End
<1>11. ASSUME NEW w \in Workers, NEW k \in {"add", "remove"}, NEW n \in Nodes, NEW t \in Tags, BeginTag(w, k, n, t) PROVE NodeTypes'
  BY <1>11 DEF BeginTag, Begin, Count
<1>12. ASSUME NEW w \in Workers, LogTagIntent(w) PROVE NodeTypes'
  BY <1>12 DEF LogTagIntent, Goto, End
<1>13. ASSUME NEW w \in Workers, WriteTags(w) PROVE NodeTypes'
  <2>1. on[w] \in Nodes /\ kind[w] \in {"add", "remove", "set"}
    BY <1>13 DEF WriteTags
  <2>2. With(kind[w], list[w], given[w]) \in SUBSET Tags /\ With(kind[w], meant[on[w]], given[w]) \in SUBSET Tags
    BY <2>1 DEF With
  <2>3. tags' \in [Nodes -> SUBSET Tags] /\ meant' \in [Nodes -> SUBSET Tags]
    <3>1. CASE UNCHANGED <<tags, meant>>
      BY <3>1
    <3>2. CASE /\ tags' = [tags EXCEPT ![on[w]] = With(kind[w], list[w], given[w])]
               /\ meant' = [meant EXCEPT ![on[w]] = With(kind[w], meant[on[w]], given[w])]
      BY <2>1, <2>2, <3>2
    <3>3. QED
      BY <1>13, <3>1, <3>2 DEF WriteTags
  <2>4. QED
    BY <1>13, <2>3 DEF WriteTags
<1>14. ASSUME NEW w \in Workers, NEW k \in {"add", "remove"}, NEW n \in Nodes, NEW some \in SUBSET Tags, BeginBulk(w, k, n, some) PROVE NodeTypes'
  BY <1>14 DEF BeginBulk, Begin, Count
<1>15. ASSUME NEW w \in Workers, Answer(w) PROVE NodeTypes'
  BY <1>15 DEF Answer
<1>16. ASSUME NEW w \in Workers, NEW n \in Nodes, NEW some \in SUBSET Tags, BeginSet(w, n, some) PROVE NodeTypes'
  BY <1>16 DEF BeginSet, Begin, Count
<1>17. ASSUME NEW w \in Workers, BulkWrite(w) PROVE NodeTypes'
  <2>1. on[w] \in Nodes /\ kind[w] \in {"add", "remove", "set"}
    BY <1>17 DEF BulkWrite
  <2>2. With(kind[w], list[w], given[w]) \in SUBSET Tags /\ With(kind[w], meant[on[w]], given[w]) \in SUBSET Tags
    BY <2>1 DEF With
  <2>3. tags' \in [Nodes -> SUBSET Tags] /\ meant' \in [Nodes -> SUBSET Tags]
    <3>1. CASE UNCHANGED <<tags, meant>>
      BY <3>1
    <3>2. CASE /\ tags' = [tags EXCEPT ![on[w]] = With(kind[w], list[w], given[w])]
               /\ meant' = [meant EXCEPT ![on[w]] = With(kind[w], meant[on[w]], given[w])]
      BY <2>1, <2>2, <3>2
    <3>3. QED
      BY <1>17, <3>1, <3>2 DEF BulkWrite
  <2>4. QED
    BY <1>17, <2>3 DEF BulkWrite
<1>18. QED
  BY <1>1, <1>2, <1>3, <1>4, <1>5, <1>6, <1>7, <1>8, <1>9, <1>10,
     <1>11, <1>12, <1>13, <1>14, <1>15, <1>16, <1>17
  DEF NodeStep, Work, CheckConnectivity

\* Requests keep their types and positions.
LEMMA RequestTypesStep == ASSUME IInv, NodeStep PROVE RequestTypes' /\ Positions'
<1> USE DEF IInv, NodeTypes, RequestTypes, Positions, data, ghosts, request, None, Statuses
<1>1. ASSUME NEW n \in Nodes, CreateNode(n) PROVE RequestTypes' /\ Positions'
  BY <1>1 DEF CreateNode
<1>2. ASSUME NEW n \in Nodes, DeleteNode(n) PROVE RequestTypes' /\ Positions'
  BY <1>2 DEF DeleteNode
<1>3. ASSUME NEW w \in Workers, NEW n \in Nodes, BeginCheck(w, n) PROVE RequestTypes' /\ Positions'
  BY <1>3 DEF BeginCheck, Begin, Count
<1>4. ASSUME NEW w \in Workers, Probe(w) PROVE RequestTypes' /\ Positions'
  <2>1. CASE End(w, "failed") /\ UNCHANGED want
    BY <1>4, <2>1 DEF Probe, End
  <2>2. ASSUME NEW s \in {"active", "unreachable"}, want' = [want EXCEPT ![w] = s],
               Goto(w, "read"), UNCHANGED report
        PROVE  RequestTypes' /\ Positions'
    BY <1>4, <2>2 DEF Probe, Goto
  <2>3. QED
    BY <1>4, <2>1, <2>2 DEF Probe
<1>5. ASSUME NEW w \in Workers, ReadOld(w) PROVE RequestTypes' /\ Positions'
  <2>1. on[w] \in Nodes /\ status[on[w]] \in Statuses
    BY <1>5 DEF ReadOld
  <2>2. PICK s \in Statuses \cup {None} : old' = [old EXCEPT ![w] = s]
    BY <1>5, <2>1 DEF ReadOld
  <2>3. QED
    BY <1>5, <2>2 DEF ReadOld, Goto
<1>6. ASSUME NEW w \in Workers, NEW n \in Nodes, NEW s \in Statuses, BeginEdit(w, n, s) PROVE RequestTypes' /\ Positions'
  BY <1>6 DEF BeginEdit, Begin, Count
<1>7. ASSUME NEW w \in Workers, LogIntent(w) PROVE RequestTypes' /\ Positions'
  <2>1. CASE Goto(w, "save") /\ UNCHANGED report
    <3>1. RequestTypes'
      BY <1>7, <2>1 DEF LogIntent, Goto
    <3>2. Positions'
      BY <1>7, <2>1 DEF LogIntent, Goto
    <3>3. QED
      BY <3>1, <3>2
  <2>2. CASE End(w, "failed")
    BY <1>7, <2>2 DEF LogIntent, End
  <2>3. QED
    BY <1>7, <2>1, <2>2 DEF LogIntent
<1>8. ASSUME NEW w \in Workers, SaveStatus(w) PROVE RequestTypes' /\ Positions'
  <2>0. want[w] \in Statuses
    BY <1>8 DEF SaveStatus
  <2>1. held' \in [Workers -> SUBSET Statuses]
    <3>1. \A v \in Workers : held[v] \in SUBSET Statuses /\ held[v] \cup {want[w]} \in SUBSET Statuses
      BY <2>0
    <3>2. CASE held' = [v \in Workers |-> IF on[v] = on[w] THEN held[v] \cup {want[w]} ELSE held[v]]
      BY ONLY <3>1, <3>2
    <3>3. QED
      BY <1>8, <3>2 DEF SaveStatus
  <2>2. CASE Goto(w, "history") /\ UNCHANGED report
    BY <1>8, <2>1, <2>2 DEF SaveStatus, Goto
  <2>3. ASSUME NEW r \in Statuses \cup {"failed"}, End(w, r) PROVE RequestTypes' /\ Positions'
    BY <1>8, <2>1, <2>3 DEF SaveStatus, End
  <2>4. QED
    BY <1>8, <2>0, <2>2, <2>3 DEF SaveStatus, SaveFails
<1>9. ASSUME NEW w \in Workers, WriteHistory(w) PROVE RequestTypes' /\ Positions'
  <2>1. CASE Goto(w, "publish") /\ UNCHANGED report
    BY <1>9, <2>1 DEF WriteHistory, Goto
  <2>2. CASE End(w, want[w])
    BY <1>9, <2>2 DEF WriteHistory, End
  <2>3. QED
    BY <1>9, <2>1, <2>2 DEF WriteHistory, HistoryFails
<1>10. ASSUME NEW w \in Workers, PublishChange(w) PROVE RequestTypes' /\ Positions'
  BY <1>10 DEF PublishChange, End
<1>11. ASSUME NEW w \in Workers, NEW k \in {"add", "remove"}, NEW n \in Nodes, NEW t \in Tags, BeginTag(w, k, n, t) PROVE RequestTypes' /\ Positions'
  BY <1>11 DEF BeginTag, Begin, Count
<1>12. ASSUME NEW w \in Workers, LogTagIntent(w) PROVE RequestTypes' /\ Positions'
  <2>1. CASE Goto(w, "tagWrite") /\ UNCHANGED report
    BY <1>12, <2>1 DEF LogTagIntent, Goto
  <2>2. CASE End(w, "failed")
    BY <1>12, <2>2 DEF LogTagIntent, End
  <2>3. QED
    BY <1>12, <2>1, <2>2 DEF LogTagIntent
<1>13. ASSUME NEW w \in Workers, WriteTags(w) PROVE RequestTypes' /\ Positions'
  <2>1. PICK r \in {None, "failed"} : End(w, r)
    BY <1>13 DEF WriteTags
  <2>2. QED
    BY <1>13, <2>1 DEF WriteTags, End
<1>14. ASSUME NEW w \in Workers, NEW k \in {"add", "remove"}, NEW n \in Nodes, NEW some \in SUBSET Tags, BeginBulk(w, k, n, some) PROVE RequestTypes' /\ Positions'
  BY <1>14 DEF BeginBulk, Begin, Count
<1>15. ASSUME NEW w \in Workers, Answer(w) PROVE RequestTypes' /\ Positions'
  BY <1>15 DEF Answer
<1>16. ASSUME NEW w \in Workers, NEW n \in Nodes, NEW some \in SUBSET Tags, BeginSet(w, n, some) PROVE RequestTypes' /\ Positions'
  BY <1>16 DEF BeginSet, Begin, Count
<1>17. ASSUME NEW w \in Workers, BulkWrite(w) PROVE RequestTypes' /\ Positions'
  <2>1. PICK r \in {None, "failed"} : End(w, r)
    BY <1>17 DEF BulkWrite
  <2>2. QED
    BY <1>17, <2>1 DEF BulkWrite, End
<1>18. QED
  BY <1>1, <1>2, <1>3, <1>4, <1>5, <1>6, <1>7, <1>8, <1>9, <1>10,
     <1>11, <1>12, <1>13, <1>14, <1>15, <1>16, <1>17
  DEF NodeStep, Work, CheckConnectivity

\* A request reports what it saved.
LEMMA SavedStep == ASSUME IInv, NodeStep PROVE Saved'
<1> USE DEF IInv, RequestTypes, Positions, Saved, ReportsHonest, data, ghosts, request, None, Statuses
<1>1. ASSUME NEW n \in Nodes, CreateNode(n) PROVE Saved'
  BY <1>1 DEF CreateNode
<1>2. ASSUME NEW n \in Nodes, DeleteNode(n) PROVE Saved'
  BY <1>2 DEF DeleteNode
<1>3. ASSUME NEW w \in Workers, NEW n \in Nodes, BeginCheck(w, n) PROVE Saved'
  BY <1>3 DEF BeginCheck, Begin, Count
<1>4. ASSUME NEW w \in Workers, Probe(w) PROVE Saved'
  BY <1>4 DEF Probe, Goto, End
<1>5. ASSUME NEW w \in Workers, ReadOld(w) PROVE Saved'
  BY <1>5 DEF ReadOld, Goto
<1>6. ASSUME NEW w \in Workers, NEW n \in Nodes, NEW s \in Statuses, BeginEdit(w, n, s) PROVE Saved'
  BY <1>6 DEF BeginEdit, Begin, Count
<1>7. ASSUME NEW w \in Workers, LogIntent(w) PROVE Saved'
  BY <1>7 DEF LogIntent, Goto, End
<1>8. ASSUME NEW w \in Workers, SaveStatus(w) PROVE Saved'
  BY <1>8 DEF SaveStatus, SaveFails, Changed, Goto, End
<1>9. ASSUME NEW w \in Workers, WriteHistory(w) PROVE Saved'
  BY <1>9 DEF WriteHistory, HistoryFails, Goto, End
<1>10. ASSUME NEW w \in Workers, PublishChange(w) PROVE Saved'
  BY <1>10 DEF PublishChange, End
<1>11. ASSUME NEW w \in Workers, NEW k \in {"add", "remove"}, NEW n \in Nodes, NEW t \in Tags, BeginTag(w, k, n, t) PROVE Saved'
  BY <1>11 DEF BeginTag, Begin, Count
<1>12. ASSUME NEW w \in Workers, LogTagIntent(w) PROVE Saved'
  BY <1>12 DEF LogTagIntent, Goto, End
<1>13. ASSUME NEW w \in Workers, WriteTags(w) PROVE Saved'
  BY <1>13 DEF WriteTags, With, End
<1>14. ASSUME NEW w \in Workers, NEW k \in {"add", "remove"}, NEW n \in Nodes, NEW some \in SUBSET Tags, BeginBulk(w, k, n, some) PROVE Saved'
  BY <1>14 DEF BeginBulk, Begin, Count
<1>15. ASSUME NEW w \in Workers, Answer(w) PROVE Saved'
  BY <1>15 DEF Answer
<1>16. ASSUME NEW w \in Workers, NEW n \in Nodes, NEW some \in SUBSET Tags, BeginSet(w, n, some) PROVE Saved'
  BY <1>16 DEF BeginSet, Begin, Count
<1>17. ASSUME NEW w \in Workers, BulkWrite(w) PROVE Saved'
  BY <1>17 DEF BulkWrite, With, End
<1>18. QED
  BY <1>1, <1>2, <1>3, <1>4, <1>5, <1>6, <1>7, <1>8, <1>9, <1>10,
     <1>11, <1>12, <1>13, <1>14, <1>15, <1>16, <1>17
  DEF NodeStep, Work, CheckConnectivity

\* An event follows its row.
LEMMA RecordedStep == ASSUME IInv, NodeStep PROVE Recorded'
<1> USE DEF IInv, RequestTypes, Positions, Recorded, EventsRecorded, streams, data, ghosts, request
<1>1. ASSUME NEW n \in Nodes, CreateNode(n) PROVE Recorded'
  BY <1>1 DEF CreateNode
<1>2. ASSUME NEW n \in Nodes, DeleteNode(n) PROVE Recorded'
  BY <1>2 DEF DeleteNode
<1>3. ASSUME NEW w \in Workers, NEW n \in Nodes, BeginCheck(w, n) PROVE Recorded'
  BY <1>3 DEF BeginCheck, Begin, Count
<1>4. ASSUME NEW w \in Workers, Probe(w) PROVE Recorded'
  BY <1>4 DEF Probe, Goto, End
<1>5. ASSUME NEW w \in Workers, ReadOld(w) PROVE Recorded'
  BY <1>5 DEF ReadOld, Goto
<1>6. ASSUME NEW w \in Workers, NEW n \in Nodes, NEW s \in Statuses, BeginEdit(w, n, s) PROVE Recorded'
  BY <1>6 DEF BeginEdit, Begin, Count
<1>7. ASSUME NEW w \in Workers, LogIntent(w) PROVE Recorded'
  BY <1>7 DEF LogIntent, Goto, End
<1>8. ASSUME NEW w \in Workers, SaveStatus(w) PROVE Recorded'
  BY <1>8 DEF SaveStatus, SaveFails, Changed, Goto, End
<1>9. ASSUME NEW w \in Workers, WriteHistory(w) PROVE Recorded'
  BY <1>9 DEF WriteHistory, HistoryFails, Goto, End
<1>10. ASSUME NEW w \in Workers, PublishChange(w) PROVE Recorded'
  <2> DEFINE e == <<on[w], old[w], want[w]>>
             S == Nodes \X (Statuses \cup {None}) \X Statuses
  <2>1. e \in S /\ e \in rows
    BY <1>10 DEF PublishChange
  <2>2. events' = events + 1 /\ published' = Append(published, e) /\ UNCHANGED <<rows, on, old, want>>
    BY <1>10 DEF PublishChange, Publish
  <2>3. \A v \in Workers : phase'[v] = "publish" => phase[v] = "publish"
    BY <1>10 DEF PublishChange, End
  <2> HIDE DEF e
  <2>4. published' \in Seq(S) /\ Len(published') = Len(published) + 1
    BY <2>1, <2>2
  <2>5. \A i \in 1 .. Len(published') : published'[i] = IF i <= Len(published) THEN published[i] ELSE e
    BY <2>1, <2>2
  <2>6. \A i \in 1 .. Len(published') : published'[i] \in rows
    BY <2>1, <2>4, <2>5
  <2>7. QED
    BY <2>2, <2>3, <2>4, <2>6
<1>11. ASSUME NEW w \in Workers, NEW k \in {"add", "remove"}, NEW n \in Nodes, NEW t \in Tags, BeginTag(w, k, n, t) PROVE Recorded'
  BY <1>11 DEF BeginTag, Begin, Count
<1>12. ASSUME NEW w \in Workers, LogTagIntent(w) PROVE Recorded'
  BY <1>12 DEF LogTagIntent, Goto, End
<1>13. ASSUME NEW w \in Workers, WriteTags(w) PROVE Recorded'
  BY <1>13 DEF WriteTags, With, End
<1>14. ASSUME NEW w \in Workers, NEW k \in {"add", "remove"}, NEW n \in Nodes, NEW some \in SUBSET Tags, BeginBulk(w, k, n, some) PROVE Recorded'
  BY <1>14 DEF BeginBulk, Begin, Count
<1>15. ASSUME NEW w \in Workers, Answer(w) PROVE Recorded'
  BY <1>15 DEF Answer
<1>16. ASSUME NEW w \in Workers, NEW n \in Nodes, NEW some \in SUBSET Tags, BeginSet(w, n, some) PROVE Recorded'
  BY <1>16 DEF BeginSet, Begin, Count
<1>17. ASSUME NEW w \in Workers, BulkWrite(w) PROVE Recorded'
  BY <1>17 DEF BulkWrite, With, End
<1>18. QED
  BY <1>1, <1>2, <1>3, <1>4, <1>5, <1>6, <1>7, <1>8, <1>9, <1>10,
     <1>11, <1>12, <1>13, <1>14, <1>15, <1>16, <1>17
  DEF NodeStep, Work, CheckConnectivity

\* A step that leaves alone what StatusOf(m) is about.
StatusFrame(m) ==
    /\ status'[m] = status[m] /\ history'[m] = history[m]
    /\ node'[m] # "deleted" => node[m] # "deleted"
    /\ \A v \in Workers :
          /\ on'[v] = m /\ phase'[v] \in {"intent", "save", "history"} =>
                /\ on[v] = m /\ phase[v] \in {"intent", "save", "history"}
                /\ old'[v] = old[v] /\ want'[v] = want[v]
                /\ phase'[v] = "history" <=> phase[v] = "history"
          /\ on[v] = m /\ phase[v] = "history" => on'[v] = m /\ phase'[v] = "history"

LEMMA StatusKept ==
    ASSUME NEW m \in Nodes, StatusOf(m), StatusFrame(m) PROVE StatusOf(m)'
BY DEF StatusOf, StatusFrame, ChangingStatus, Explained

\* A node that was marked stays marked.
LEMMA MarksStay == ASSUME NodeStep PROVE raced \subseteq raced' /\ missed \subseteq missed'
<1> USE DEF ghosts
<1>1. ASSUME NEW n \in Nodes, CreateNode(n) \/ DeleteNode(n)
      PROVE  raced \subseteq raced' /\ missed \subseteq missed'
  BY <1>1 DEF CreateNode, DeleteNode
<1>2. ASSUME NEW w \in Workers, CheckConnectivity(w)
      PROVE  raced \subseteq raced' /\ missed \subseteq missed'
  BY <1>2 DEF CheckConnectivity, BeginCheck, Probe, ReadOld, SaveStatus, WriteHistory,
     HistoryFails, PublishChange
<1>3. ASSUME NEW w \in Workers, Work(w), ~CheckConnectivity(w)
      PROVE  raced \subseteq raced' /\ missed \subseteq missed'
  BY <1>3 DEF Work, BeginEdit, LogIntent, BeginTag, LogTagIntent, WriteTags, BeginSet, BeginBulk,
     BulkWrite, Answer
<1>4. QED
  BY <1>1, <1>2, <1>3 DEF NodeStep

\* The history follows the status.
LEMMA StatusStep == ASSUME IInv, NodeStep PROVE StatusHistory'
<1> SUFFICES ASSUME NEW m \in Nodes, m \notin raced', m \notin missed' PROVE StatusOf(m)'
  BY DEF StatusHistory
<1> USE DEF IInv, NodeTypes, RequestTypes, Positions, data, ghosts, request
<1>0. StatusOf(m)
  BY MarksStay DEF StatusHistory
<1>1. ASSUME NEW n \in Nodes, CreateNode(n) PROVE StatusOf(m)'
  <2>1. StatusFrame(m)
    BY <1>1 DEF CreateNode, StatusFrame
  <2>2. QED
    BY <1>0, <2>1, StatusKept
<1>2. ASSUME NEW n \in Nodes, DeleteNode(n) PROVE StatusOf(m)'
  <2>1. CASE m # n
    <3>1. StatusFrame(m)
      BY <1>2, <2>1 DEF DeleteNode, StatusFrame
    <3>2. QED
      BY <1>0, <3>1, StatusKept
  <2>2. CASE m = n
    BY <1>0, <1>2, <2>2 DEF DeleteNode, StatusOf, ChangingStatus
  <2>3. QED
    BY <2>1, <2>2
<1>3. ASSUME NEW w \in Workers, NEW n \in Nodes, BeginCheck(w, n) PROVE StatusOf(m)'
  <2>1. StatusFrame(m)
    BY <1>3 DEF BeginCheck, Begin, Count, StatusFrame
  <2>2. QED
    BY <1>0, <2>1, StatusKept
<1>4. ASSUME NEW w \in Workers, Probe(w) PROVE StatusOf(m)'
  <2>1. StatusFrame(m)
    BY <1>4 DEF Probe, Goto, End, StatusFrame
  <2>2. QED
    BY <1>0, <2>1, StatusKept
<1>5. ASSUME NEW w \in Workers, ReadOld(w) PROVE StatusOf(m)'
  <2>1. CASE m # on[w]
    <3>1. StatusFrame(m)
      BY <1>5, <2>1 DEF ReadOld, Goto, StatusFrame
    <3>2. QED
      BY <1>0, <3>1, StatusKept
  <2>2. CASE m = on[w]
    <3>1. \A v \in Workers : v # w => ~ChangingStatus(v, m)
      BY <1>5, <2>2 DEF ReadOld, Goto
    <3>2. /\ UNCHANGED <<status, history, node>>
          /\ phase'[w] = "save" /\ old'[w] \in {None, status[m]}
          /\ phase[w] # "history"
          /\ \A v \in Workers : v # w => phase'[v] = phase[v] /\ on'[v] = on[v]
      BY <1>5, <2>2 DEF ReadOld, Goto
    <3>3. \A v \in Workers : v # w => ~ChangingStatus(v, m)'
      BY <3>1, <3>2 DEF ChangingStatus
    <3>4. QED
      BY <1>0, <3>1, <3>2, <3>3 DEF StatusOf, ChangingStatus, Explained
  <2>3. QED
    BY <2>1, <2>2
<1>6. ASSUME NEW w \in Workers, NEW n \in Nodes, NEW s \in Statuses, BeginEdit(w, n, s) PROVE StatusOf(m)'
  <2>1. CASE m # n
    <3>1. StatusFrame(m)
      BY <1>6, <2>1 DEF BeginEdit, Begin, Count, StatusFrame
    <3>2. QED
      BY <1>0, <3>1, StatusKept
  <2>2. CASE m = n
    <3>1. \A v \in Workers : v # w => ~ChangingStatus(v, m)
      BY <1>6, <2>2 DEF BeginEdit, Begin, Count
    <3>2. /\ UNCHANGED <<status, history, node>>
          /\ phase'[w] = "intent" /\ old'[w] \in {None, status[m]}
          /\ phase[w] # "history"
          /\ \A v \in Workers : v # w => phase'[v] = phase[v] /\ on'[v] = on[v]
      BY <1>6, <2>2 DEF BeginEdit, Begin, Count
    <3>3. \A v \in Workers : v # w => ~ChangingStatus(v, m)'
      BY <3>1, <3>2 DEF ChangingStatus
    <3>4. QED
      BY <1>0, <3>1, <3>2, <3>3 DEF StatusOf, ChangingStatus, Explained
  <2>3. QED
    BY <2>1, <2>2
<1>7. ASSUME NEW w \in Workers, LogIntent(w) PROVE StatusOf(m)'
  <2>1. StatusFrame(m)
    BY <1>7 DEF LogIntent, Goto, End, StatusFrame
  <2>2. QED
    BY <1>0, <2>1, StatusKept
<1>8. ASSUME NEW w \in Workers, SaveStatus(w) PROVE StatusOf(m)'
  <2>0. /\ UNCHANGED <<history, node, on, old, want>>
        /\ phase[w] = "save" /\ phase'[w] \in {"history", "answer"} /\ want[w] \in Statuses
        /\ \A v \in Workers : v # w => phase'[v] = phase[v]
    BY <1>8 DEF SaveStatus, SaveFails, Goto, End
  <2>1. CASE m # on[w] \/ (UNCHANGED status /\ phase'[w] = "answer")
    <3>1. status'[m] = status[m]
      BY <1>8, <2>1 DEF SaveStatus
    <3>2. StatusFrame(m)
      BY <2>0, <2>1, <3>1 DEF StatusFrame
    <3>3. QED
      BY <1>0, <3>2, StatusKept
  <2>2. CASE /\ m = on[w]
             /\ status' = [status EXCEPT ![on[w]] = want[w]]
             /\ phase'[w] = IF Changed(w) THEN "history" ELSE "answer"
    <3>1. \A v \in Workers : v # w => ~ChangingStatus(v, m)
      BY <1>0, <2>0, <2>2 DEF StatusOf, ChangingStatus
    <3>2. \A v \in Workers : v # w => ~ChangingStatus(v, m)'
      BY <2>0, <3>1 DEF ChangingStatus
    <3>3. status'[m] = want[w]
      BY <2>2
    <3>4. CASE Changed(w)
      BY <2>0, <2>2, <3>2, <3>3, <3>4 DEF StatusOf, ChangingStatus
    <3>5. CASE ~Changed(w)
      <4>1. status'[m] = status[m]
        BY <1>0, <2>0, <2>2, <3>3, <3>5 DEF StatusOf, Changed, None, Statuses
      <4>2. StatusFrame(m)
        BY <2>0, <2>2, <3>5, <4>1 DEF StatusFrame
      <4>3. QED
        BY <1>0, <4>2, StatusKept
    <3>6. QED
      BY <3>4, <3>5
  <2>3. QED
    <3>1. \/ UNCHANGED status /\ phase'[w] = "answer"
          \/ /\ status' = [status EXCEPT ![on[w]] = want[w]]
             /\ phase'[w] = IF Changed(w) THEN "history" ELSE "answer"
      BY <1>8 DEF SaveStatus, SaveFails, Goto, End
    <3>2. QED
      BY <2>1, <2>2, <3>1
<1>9. ASSUME NEW w \in Workers, WriteHistory(w) PROVE StatusOf(m)'
  <2>0. /\ UNCHANGED <<status, node, on, old, want>>
        /\ phase[w] = "history" /\ phase'[w] \in {"publish", "answer"}
        /\ on[w] \in Nodes
        /\ \A v \in Workers : v # w => phase'[v] = phase[v]
    BY <1>9 DEF WriteHistory, HistoryFails, Goto, End
  <2>1. CASE m # on[w]
    <3>1. history'[m] = history[m]
      BY <1>9, <2>1 DEF WriteHistory, HistoryFails
    <3>2. StatusFrame(m)
      BY <2>0, <2>1, <3>1 DEF StatusFrame
    <3>3. QED
      BY <1>0, <3>2, StatusKept
  <2>2. CASE m = on[w]
    <3>1. history' = [history EXCEPT ![m] = Append(history[m], <<old[w], want[w]>>)]
      BY <1>9, <2>2 DEF WriteHistory, HistoryFails
    <3>2. <<old[w], want[w]>> \in (Statuses \cup {None}) \X Statuses
      BY <2>0
    <3>3. /\ Len(history'[m]) = Len(history[m]) + 1
          /\ history'[m][Len(history[m]) + 1] = <<old[w], want[w]>>
          /\ history'[m] # <<>>
      BY <3>1, <3>2
    <3>4. status'[m] = want[w]
      BY <1>0, <2>0, <2>2 DEF StatusOf
    <3>5. Explained(m)'
      BY <3>3, <3>4 DEF Explained
    <3>6. \A v \in Workers : ~ChangingStatus(v, m)'
      BY <1>0, <2>0, <2>2 DEF StatusOf, ChangingStatus
    <3>7. QED
      BY <3>5, <3>6 DEF StatusOf, ChangingStatus
  <2>3. QED
    BY <2>1, <2>2
<1>10. ASSUME NEW w \in Workers, PublishChange(w) PROVE StatusOf(m)'
  <2>1. StatusFrame(m)
    BY <1>10 DEF PublishChange, End, StatusFrame
  <2>2. QED
    BY <1>0, <2>1, StatusKept
<1>11. ASSUME NEW w \in Workers, NEW k \in {"add", "remove"}, NEW n \in Nodes, NEW t \in Tags,
             BeginTag(w, k, n, t)
       PROVE StatusOf(m)'
  <2>1. StatusFrame(m)
    BY <1>11 DEF BeginTag, Begin, Count, StatusFrame
  <2>2. QED
    BY <1>0, <2>1, StatusKept
<1>12. ASSUME NEW w \in Workers, LogTagIntent(w) PROVE StatusOf(m)'
  <2>1. StatusFrame(m)
    BY <1>12 DEF LogTagIntent, Goto, End, StatusFrame
  <2>2. QED
    BY <1>0, <2>1, StatusKept
<1>13. ASSUME NEW w \in Workers, WriteTags(w) PROVE StatusOf(m)'
  <2>1. StatusFrame(m)
    BY <1>13 DEF WriteTags, End, StatusFrame
  <2>2. QED
    BY <1>0, <2>1, StatusKept
<1>14. ASSUME NEW w \in Workers, NEW k \in {"add", "remove"}, NEW n \in Nodes,
             NEW some \in SUBSET Tags, BeginBulk(w, k, n, some)
       PROVE StatusOf(m)'
  <2>1. StatusFrame(m)
    BY <1>14 DEF BeginBulk, Begin, Count, StatusFrame
  <2>2. QED
    BY <1>0, <2>1, StatusKept
<1>15. ASSUME NEW w \in Workers, Answer(w)
       PROVE StatusOf(m)'
  <2>1. StatusFrame(m)
    BY <1>15 DEF Answer, StatusFrame
  <2>2. QED
    BY <1>0, <2>1, StatusKept
<1>16. ASSUME NEW w \in Workers, NEW n \in Nodes, NEW some \in SUBSET Tags,
             BeginSet(w, n, some)
       PROVE StatusOf(m)'
  <2>1. StatusFrame(m)
    BY <1>16 DEF BeginSet, Begin, Count, StatusFrame
  <2>2. QED
    BY <1>0, <2>1, StatusKept
<1>17. ASSUME NEW w \in Workers, BulkWrite(w)
       PROVE StatusOf(m)'
  <2>1. StatusFrame(m)
    BY <1>17 DEF BulkWrite, End, StatusFrame
  <2>2. QED
    BY <1>0, <2>1, StatusKept
<1>18. QED
  BY <1>1, <1>2, <1>3, <1>4, <1>5, <1>6, <1>7, <1>8, <1>9, <1>10,
     <1>11, <1>12, <1>13, <1>14, <1>15, <1>16, <1>17
  DEF NodeStep, Work, CheckConnectivity

\* A step that leaves alone what TagLists is about.
TagsFrame ==
    /\ UNCHANGED <<tags, meant, lapped>>
    /\ \A v \in Workers : phase'[v] = "bulkWrite" =>
          phase[v] = "bulkWrite" /\ on'[v] = on[v] /\ list'[v] = list[v]

LEMMA TagsKept == ASSUME TagLists, TagsFrame PROVE TagLists'
BY DEF TagLists, Locks, TagsFrame

\* The tags follow the operations.
LEMMA TagStep == ASSUME IInv, NodeStep PROVE TagLists'
<1> USE DEF IInv, NodeTypes, RequestTypes, Positions, data, ghosts, request
<1>1. ASSUME NEW n \in Nodes, CreateNode(n) \/ DeleteNode(n) PROVE TagLists'
  <2>1. TagsFrame
    BY <1>1 DEF CreateNode, DeleteNode, TagsFrame
  <2>2. QED
    BY <2>1, TagsKept
<1>2. ASSUME NEW w \in Workers, CheckConnectivity(w) PROVE TagLists'
  <2>1. TagsFrame
    BY <1>2 DEF CheckConnectivity, BeginCheck, Begin, Probe, ReadOld, SaveStatus, SaveFails,
       WriteHistory, HistoryFails, PublishChange, Goto, End, TagsFrame
  <2>2. QED
    BY <2>1, TagsKept
<1>3. ASSUME NEW w \in Workers, NEW n \in Nodes, NEW s \in Statuses, BeginEdit(w, n, s)
      PROVE  TagLists'
  <2>1. TagsFrame
    BY <1>3 DEF BeginEdit, Begin, TagsFrame
  <2>2. QED
    BY <2>1, TagsKept
<1>4. ASSUME NEW w \in Workers, LogIntent(w) \/ LogTagIntent(w) \/ Answer(w) PROVE TagLists'
  <2>1. TagsFrame
    BY <1>4 DEF LogIntent, LogTagIntent, Answer, Goto, End, TagsFrame
  <2>2. QED
    BY <2>1, TagsKept
<1>5. ASSUME NEW w \in Workers, NEW k \in {"add", "remove"}, NEW n \in Nodes, NEW t \in Tags,
             BeginTag(w, k, n, t)
      PROVE  TagLists'
  <2>1. TagsFrame
    BY <1>5 DEF BeginTag, Begin, TagsFrame
  <2>2. QED
    BY <2>1, TagsKept
<1>6. ASSUME NEW w \in Workers, NEW n \in Nodes, NEW some \in SUBSET Tags, BeginSet(w, n, some)
      PROVE  TagLists'
  <2>1. TagsFrame
    BY <1>6 DEF BeginSet, Begin, TagsFrame
  <2>2. QED
    BY <2>1, TagsKept
<1>7. ASSUME NEW w \in Workers, NEW k \in {"add", "remove"}, NEW n \in Nodes,
             NEW some \in SUBSET Tags, BeginBulk(w, k, n, some)
      PROVE  TagLists'
  <2>1. /\ UNCHANGED <<tags, meant, lapped>>
        /\ on'[w] = n /\ list'[w] = tags[n] /\ phase'[w] = "bulkWrite"
        /\ \A v \in Workers : v # w => phase'[v] = phase[v] /\ on'[v] = on[v] /\ list'[v] = list[v]
    BY <1>7 DEF BeginBulk, Begin
  <2>2. \A v \in Workers : ~(on[v] = n /\ phase[v] = "bulkWrite")
    BY <1>7 DEF BeginBulk, Locked
  <2>3. Locks
    BY DEF TagLists
  <2>4. ASSUME NEW v \in Workers, phase'[v] = "bulkWrite" PROVE list'[v] = tags[on'[v]]
    <3>1. CASE v = w
      BY <2>1, <3>1
    <3>2. CASE v # w
      BY <2>1, <2>3, <2>4, <3>2 DEF Locks
    <3>3. QED
      BY <3>1, <3>2
  <2>5. ASSUME NEW u \in Workers, NEW v \in Workers, phase'[u] = "bulkWrite",
               phase'[v] = "bulkWrite", on'[v] = on'[u]
        PROVE  v = u
    BY ONLY <2>1, <2>2, <2>3, <2>5, w \in Workers, u \in Workers, v \in Workers DEF Locks
  <2>6. Locks'
    BY <2>1, <2>4, <2>5 DEF Locks
  <2>7. QED
    BY <2>1, <2>6 DEF TagLists
<1>8. ASSUME NEW w \in Workers, WriteTags(w) PROVE TagLists'
  <2>1. /\ phase'[w] = "answer" /\ on[w] \in Nodes /\ UNCHANGED <<on, list>>
        /\ \A v \in Workers : v # w => phase'[v] = phase[v]
    BY <1>8 DEF WriteTags, End
  <2>2. CASE UNCHANGED <<tags, meant, lapped>>
    <3>1. TagsFrame
      BY <2>1, <2>2 DEF TagsFrame
    <3>2. QED
      BY <3>1, TagsKept
  <2>3. CASE /\ ~Locked(on[w])
             /\ tags' = [tags EXCEPT ![on[w]] = With(kind[w], list[w], given[w])]
             /\ meant' = [meant EXCEPT ![on[w]] = With(kind[w], meant[on[w]], given[w])]
             /\ lapped' = IF kind[w] = "set" THEN lapped \ {on[w]}
                          ELSE IF list[w] # tags[on[w]] THEN lapped \cup {on[w]}
                          ELSE lapped
    <3>1. Locks'
      BY <2>1, <2>3 DEF TagLists, Locks, Locked
    <3>2. tags'[on[w]] = With(kind[w], list[w], given[w])
          /\ meant'[on[w]] = With(kind[w], meant[on[w]], given[w])
      BY <2>1, <2>3
    <3>3. ASSUME on[w] \notin lapped' PROVE tags'[on[w]] = meant'[on[w]]
      <4>1. CASE kind[w] = "set"
        BY <3>2, <4>1 DEF With
      <4>2. CASE kind[w] # "set"
        <5>1. list[w] = meant[on[w]]
          BY <2>1, <2>3, <3>3, <4>2 DEF TagLists
        <5>2. QED
          BY ONLY <3>2, <5>1, Zenon
      <4>3. QED
        BY <4>1, <4>2
    <3>4. ASSUME NEW m \in Nodes, m # on[w], m \notin lapped' PROVE tags'[m] = meant'[m]
      BY <2>3, <3>4 DEF TagLists
    <3>5. QED
      BY <3>1, <3>3, <3>4 DEF TagLists
  <2>4. QED
    BY <1>8, <2>2, <2>3 DEF WriteTags
<1>9. ASSUME NEW w \in Workers, BulkWrite(w) PROVE TagLists'
  <2>1. /\ phase[w] = "bulkWrite" /\ phase'[w] = "answer" /\ on[w] \in Nodes
        /\ UNCHANGED <<on, list, lapped>>
        /\ \A v \in Workers : v # w => phase'[v] = phase[v]
    BY <1>9 DEF BulkWrite, End
  <2>2. CASE UNCHANGED <<tags, meant>>
    <3>1. TagsFrame
      BY <2>1, <2>2 DEF TagsFrame
    <3>2. QED
      BY <3>1, TagsKept
  <2>3. CASE /\ tags' = [tags EXCEPT ![on[w]] = With(kind[w], list[w], given[w])]
             /\ meant' = [meant EXCEPT ![on[w]] = With(kind[w], meant[on[w]], given[w])]
    <3>1. Locks'
      BY <2>1, <2>3 DEF TagLists, Locks
    <3>2. tags'[on[w]] = With(kind[w], list[w], given[w])
          /\ meant'[on[w]] = With(kind[w], meant[on[w]], given[w])
      BY <2>1, <2>3
    <3>3. ASSUME on[w] \notin lapped' PROVE tags'[on[w]] = meant'[on[w]]
      <4>1. list[w] = meant[on[w]]
        BY <2>1, <3>3 DEF TagLists, Locks
      <4>2. QED
        BY ONLY <3>2, <4>1, Zenon
    <3>4. ASSUME NEW m \in Nodes, m # on[w], m \notin lapped' PROVE tags'[m] = meant'[m]
      BY <2>1, <2>3, <3>4 DEF TagLists
    <3>5. QED
      BY <3>1, <3>3, <3>4 DEF TagLists
  <2>4. QED
    BY <1>9, <2>2, <2>3 DEF BulkWrite
<1>10. QED
  BY <1>1, <1>2, <1>3, <1>4, <1>5, <1>6, <1>7, <1>8, <1>9 DEF NodeStep, Work

\* Only a publication touches the streams.
LEMMA StreamsStep == ASSUME IInv, NodeStep PROVE StreamsInv'
<1>1. CASE UNCHANGED streams
  BY <1>1, StreamsFrame DEF IInv
<1>2. CASE Publish
  BY <1>2, PublishStreams DEF IInv
<1>3. QED
  BY <1>1, <1>2 DEF NodeStep, Work, CheckConnectivity, CreateNode, DeleteNode, BeginCheck, Probe,
     ReadOld, BeginEdit, LogIntent, SaveStatus, WriteHistory, PublishChange, BeginTag,
     LogTagIntent, WriteTags, BeginSet, BeginBulk, BulkWrite, Answer

\* A subscriber's step changes nothing but the streams.
LEMMA SubscriberStep ==
    ASSUME IInv, NEW s \in Subscribers, Subscribe(s) \/ Deliver(s) \/ Unsubscribe(s),
           UNCHANGED rest
    PROVE  IInv'
<1>1. StreamsInv'
  BY SubscriberStreams DEF IInv
<1>2. UNCHANGED events
  BY DEF Subscribe, Deliver, Unsubscribe
<1>3. (NodeTypes /\ RequestTypes /\ Positions)'
  BY DEF IInv, rest, data, request, ghosts, NodeTypes, RequestTypes, Positions
<1>4. Saved' /\ Recorded'
  BY <1>2 DEF IInv, rest, data, request, ghosts, Saved, ReportsHonest, Recorded, EventsRecorded
<1>5. StatusHistory'
  BY DEF IInv, rest, data, request, ghosts, StatusHistory, StatusOf, ChangingStatus, Explained
<1>6. TagLists'
  BY DEF IInv, rest, data, request, ghosts, TagLists, Locks
<1>7. QED
  BY <1>1, <1>3, <1>4, <1>5, <1>6 DEF IInv

LEMMA Stutters == ASSUME IInv, UNCHANGED vars PROVE IInv'
<1> USE DEF vars, data, request, ghosts
<1>1. StreamsInv'
  BY StreamsFrame DEF IInv
<1>3. (NodeTypes /\ RequestTypes /\ Positions)'
  BY DEF IInv, NodeTypes, RequestTypes, Positions
<1>4. Saved' /\ Recorded'
  BY DEF IInv, streams, Saved, ReportsHonest, Recorded, EventsRecorded
<1>5. StatusHistory'
  BY DEF IInv, StatusHistory, StatusOf, ChangingStatus, Explained
<1>6. TagLists'
  BY DEF IInv, TagLists, Locks
<1>7. QED
  BY <1>1, <1>3, <1>4, <1>5, <1>6 DEF IInv

LEMMA Invariance == Spec => []IInv
<1>1. ASSUME IInv, NodeStep PROVE IInv'
  <2>1. StreamsInv' /\ NodeTypes' /\ RequestTypes' /\ Positions'
    BY <1>1, StreamsStep, NodeTypesStep, RequestTypesStep
  <2>2. Saved' /\ Recorded' /\ StatusHistory' /\ TagLists'
    BY <1>1, SavedStep, RecordedStep, StatusStep, TagStep
  <2>3. QED
    BY <2>1, <2>2 DEF IInv
<1>2. ASSUME IInv, [Next]_vars PROVE IInv'
  <2>1. CASE NodeStep
    BY <1>1, <1>2, <2>1
  <2>2. CASE \E s \in Subscribers :
                (Subscribe(s) \/ Deliver(s) \/ Unsubscribe(s)) /\ UNCHANGED rest
    BY <1>2, <2>2, SubscriberStep
  <2>3. CASE UNCHANGED vars
    BY <1>2, <2>3, Stutters
  <2>4. QED
    BY <1>2, <2>1, <2>2, <2>3 DEF Next, NodeStep
<1>3. QED
  BY InitHolds, <1>2, PTL DEF Spec

----------------------------------------------------------------------------

\* Every variable keeps its type, the queues their limit and the history of events
\* its length, whatever the requests and the subscribers do.
THEOREM TypeCorrect == Spec => []TypeOK
BY Invariance, TypeFollows, PTL

\* A subscriber receives consecutive events up to the last one published, for as
\* long as the broadcaster knows it (publish, subscribe).
THEOREM NoGapHolds == Spec => []NoGap
<1>1. IInv => NoGap
  BY NoGapFollows DEF IInv
<1>2. QED
  BY Invariance, <1>1, PTL

\* The status a check or an update reports is one the node had (check_connectivity,
\* bulk_check, update_node).
THEOREM ReportsCorrect == Spec => []ReportsHonest
<1>1. IInv => ReportsHonest
  BY DEF IInv, Saved
<1>2. QED
  BY Invariance, <1>1, PTL

\* No event about a status goes out without the row of the history.
THEOREM EventsCorrect == Spec => []EventsRecorded
<1>1. IInv => EventsRecorded
  BY DEF IInv, Recorded
<1>2. QED
  BY Invariance, <1>1, PTL

\* Without overlapping status requests and lost rows, the last row of the history
\* is the node's status.
THEOREM HistoryCorrect == Spec => []HistoryExplainsStatus
<1>1. IInv => HistoryExplainsStatus
  BY DEF IInv, HistoryExplainsStatus, StatusHistory, StatusOf, Settled, Present, ChangingStatus
<1>2. QED
  BY Invariance, <1>1, PTL

\* However updates, bulk operations and operations on a single tag overlap, the tags of
\* a node are what they make of them one after the other, unless an operation on a
\* single tag wrote back a list that had changed since it was read.
THEOREM TagsCorrect == Spec => []TagsExplained
<1>1. IInv => TagsExplained
  BY DEF IInv, TagsExplained, TagLists
<1>2. QED
  BY Invariance, <1>1, PTL

============================================================================
