---------------------------- MODULE EventStreams ----------------------------
(* The in-memory broadcaster of server-sent events and its subscribers.  Events
   are numbered in the order they are published.  A subscriber gets the last
   events of the history when it comes and every later one, until its queue is
   full at a publication: then it is forgotten, and its generator goes on with
   what is in the queue and keepalives. *)
EXTENDS Naturals, Sequences

CONSTANTS
    Subscribers,
    MaxQueue,     \* asyncio.Queue(maxsize=256)
    MaxHistory,   \* _max_history
    MaxReplay     \* events replayed to a new subscriber

ASSUME StreamsAssumption ==
    /\ MaxQueue \in Nat \ {0}
    /\ MaxHistory \in Nat \ {0}
    /\ MaxReplay \in Nat \ {0}
    /\ MaxReplay <= MaxQueue /\ MaxReplay <= MaxHistory

VARIABLES
    events,  \* events published so far
    past,    \* _history
    known,   \* subscribers in _queues
    open,    \* subscribers whose generator runs
    queue,   \* [Subscribers -> queue]
    got      \* [Subscribers -> events sent to the client]

streams == <<events, past, known, open, queue, got>>

\* The last n elements of a sequence
Last(s, n) == IF Len(s) <= n THEN s ELSE SubSeq(s, Len(s) - n + 1, Len(s))

StreamsTypeOK ==
    /\ events \in Nat
    /\ past \in Seq(1 .. events) /\ Len(past) <= MaxHistory
    /\ known \subseteq open
    /\ open \subseteq Subscribers
    /\ queue \in [Subscribers -> Seq(1 .. events)]
    /\ got \in [Subscribers -> Seq(1 .. events)]
    /\ \A s \in Subscribers : Len(queue[s]) <= MaxQueue

StreamsInit ==
    /\ events = 0
    /\ past = <<>>
    /\ known = {}
    /\ open = {}
    /\ queue = [s \in Subscribers |-> <<>>]
    /\ got = [s \in Subscribers |-> <<>>]

\* The replay fits: MaxReplay is at most MaxQueue.
Subscribe(s) ==
    /\ s \notin open
    /\ open' = open \cup {s}
    /\ known' = known \cup {s}
    /\ queue' = [queue EXCEPT ![s] = Last(past, MaxReplay)]
    /\ got' = [got EXCEPT ![s] = <<>>]
    /\ UNCHANGED <<events, past>>

\* Mutant: an event that does not fit is dropped, not the subscriber.
PublishSkipsFull ==
    /\ events' = events + 1
    /\ past' = Last(Append(past, events + 1), MaxHistory)
    /\ queue' = [s \in Subscribers |->
                    IF s \in known /\ Len(queue[s]) < MaxQueue
                    THEN Append(queue[s], events + 1) ELSE queue[s]]
    /\ UNCHANGED <<known, open, got>>

Publish ==
    /\ events' = events + 1
    /\ past' = Last(Append(past, events + 1), MaxHistory)
    /\ known' = {s \in known : Len(queue[s]) < MaxQueue}
    /\ queue' = [s \in Subscribers |->
                    IF s \in known' THEN Append(queue[s], events + 1) ELSE queue[s]]
    /\ UNCHANGED <<open, got>>

\* queue.get and the frame; the keepalive of an empty queue changes nothing.
Deliver(s) ==
    /\ s \in open
    /\ queue[s] # <<>>
    /\ got' = [got EXCEPT ![s] = Append(@, Head(queue[s]))]
    /\ queue' = [queue EXCEPT ![s] = Tail(@)]
    /\ UNCHANGED <<events, past, known, open>>

\* The client goes away: the generator's finally.
Unsubscribe(s) ==
    /\ s \in open
    /\ open' = open \ {s}
    /\ known' = known \ {s}
    /\ queue' = [queue EXCEPT ![s] = <<>>]
    /\ UNCHANGED <<events, past, got>>

\* What a subscriber has got and still has queued is a run of consecutive events,
\* up to the last one published as long as the broadcaster knows it: no gap, no
\* repetition and no change of order, at any length of its queue (publish,
\* subscribe, _event_generator).
NoGap ==
    \A s \in open :
        LET all == got[s] \o queue[s]
        IN  /\ \A i \in 1 .. Len(all) - 1 : all[i + 1] = all[i] + 1
            /\ s \in known /\ events > 0 /\ past # <<>> =>
                  all # <<>> /\ all[Len(all)] = events

============================================================================
