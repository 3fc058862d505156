------------------------------- MODULE LogHub -------------------------------
(***************************************************************************)
(* Announcing stored logs to browsers: the hub of one backend process      *)
(* (backend/internal/events/log_hub.go) and the handlers of                *)
(* GET /api/logs/stream (backend/internal/api/handler.go) that drain it.   *)
(* A log is stored first and published by the same request later, outside  *)
(* every lock, so logs can be published in another order than they were    *)
(* stored; a request to which PostgreSQL reports an error for a log it has *)
(* stored does not publish it.  Logs are named by their place in the       *)
(* store, 1 the oldest.                                                    *)
(*                                                                         *)
(* Each connection has a channel of Buffer logs in the hub, a handler that *)
(* moves logs from the channel to the connection, and the events on their  *)
(* way to the browser.  Keep-alive comments carry nothing and are left     *)
(* out; a write error is the same to the handler as an ended context.      *)
(***************************************************************************)
EXTENDS Integers, Sequences, FiniteSets

CONSTANTS
    Streams,      \* connections; one that is over can serve again
    Buffer,       \* logSubscriberBuffer
    MaxLogs,      \* bound: logs stored
    MaxUnreported, \* bound: logs stored under a reported error; 0 in memory
    MaxRestarts   \* bound: process deaths

ASSUME HubConstants ==
    /\ Buffer \in Nat \ {0}
    /\ MaxLogs \in Nat /\ MaxUnreported \in Nat /\ MaxRestarts \in Nat

VARIABLES
    stored,       \* logs 1 .. stored are in the store
    unpublished,  \* logs some request has stored and not yet published
    unreported,   \* logs stored although the store reported an error
    closed,       \* the hub is closed, its process is shutting down
    subscribers,  \* streams registered in the hub
    channel,      \* buffered logs of every stream's channel
    open,         \* streams whose channel is open
    handler,      \* "none", "streaming" or "ended"
    wire,         \* events sent to the browser and not yet received
    restarts,
    panicked,     \* a closed channel was closed again or sent to
    feed,         \* history: logs in the order this process published them
    first,        \* history: length of feed when the stream subscribed
    sent          \* history: logs the handler has written

storeSide == <<stored, unpublished, unreported>>
hubSide == <<closed, subscribers, channel, open, panicked, feed, first>>
hubVars == <<storeSide, hubSide, handler, wire, restarts, sent>>

Connected == 0  \* the event "connected"; a log event is its log

\* The hub never sends to or closes a channel that is closed already, which
\* would panic: its channels are exactly the open ones.
HubTypeOK ==
    /\ stored \in 0 .. MaxLogs
    /\ unpublished \subseteq 1 .. stored /\ unreported \subseteq 1 .. stored
    /\ closed \in BOOLEAN
    /\ subscribers \subseteq Streams
    /\ open = subscribers /\ panicked = FALSE
    /\ handler \in [Streams -> {"none", "streaming", "ended"}]
    /\ \A s \in Streams : /\ channel[s] \in Seq(1 .. stored)
                          /\ Len(channel[s]) <= Buffer
                          /\ wire[s] \in Seq(0 .. stored)
    /\ restarts \in 0 .. MaxRestarts

HubInit ==
    /\ stored = 0 /\ unpublished = {} /\ unreported = {}
    /\ closed = FALSE
    /\ subscribers = {} /\ open = {} /\ panicked = FALSE
    /\ channel = [s \in Streams |-> <<>>]
    /\ handler = [s \in Streams |-> "none"]
    /\ wire = [s \in Streams |-> <<>>]
    /\ restarts = 0
    /\ feed = <<>>
    /\ first = [s \in Streams |-> 0]
    /\ sent = [s \in Streams |-> <<>>]

-----------------------------------------------------------------------------
(* Logs *)

AppendLog ==
    /\ stored < MaxLogs
    /\ stored' = stored + 1
    /\ unpublished' = unpublished \cup {stored + 1}
    /\ UNCHANGED <<unreported, hubSide, handler, wire, restarts, sent>>

\* The insert or the claim commits and the request sees an error: it answers
\* with the error and publishes nothing.
AppendUnreported ==
    /\ stored < MaxLogs /\ Cardinality(unreported) < MaxUnreported
    /\ stored' = stored + 1
    /\ unreported' = unreported \cup {stored + 1}
    /\ UNCHANGED <<unpublished, hubSide, handler, wire, restarts, sent>>

Closes(S) ==
    /\ open' = open \ S
    /\ panicked' = (panicked \/ ~(S \subseteq open))

Full == {s \in subscribers : Len(channel[s]) = Buffer}

Buffered(l) ==
    channel' = [s \in Streams |-> IF s \in subscribers \ Full
                                 THEN Append(channel[s], l) ELSE channel[s]]

\* Mutant: a full channel stays open and misses the log.
Offer_DropsLog(l) == Buffered(l) /\ UNCHANGED <<subscribers, open, panicked>>

\* A full channel is closed instead of waited for.
Offer(l) ==
    /\ Buffered(l)
    /\ subscribers' = subscribers \ Full
    /\ open' = open \ Full
    /\ panicked' = (panicked \/ ~(subscribers \subseteq open))

Publish(l) ==
    /\ l \in unpublished
    /\ unpublished' = unpublished \ {l}
    /\ IF closed
       THEN UNCHANGED <<subscribers, channel, open, panicked, feed>>
       ELSE Offer(l) /\ feed' = Append(feed, l)
    /\ UNCHANGED <<stored, unreported, closed, handler, wire, restarts, first, sent>>

-----------------------------------------------------------------------------
(* Streams *)

\* The stream subscribes before it says "connected".
Subscribe(s) ==
    /\ handler[s] = "none"
    /\ handler' = [handler EXCEPT ![s] = "streaming"]
    /\ channel' = [channel EXCEPT ![s] = <<>>]
    /\ wire' = [wire EXCEPT ![s] = <<Connected>>]
    /\ subscribers' = IF closed THEN subscribers ELSE subscribers \cup {s}
    /\ open' = IF closed THEN open ELSE open \cup {s}
    /\ first' = [first EXCEPT ![s] = Len(feed)]
    /\ sent' = [sent EXCEPT ![s] = <<>>]
    /\ UNCHANGED <<storeSide, closed, panicked, restarts, feed>>

ForwardLog(s) ==
    /\ handler[s] = "streaming" /\ channel[s] # <<>>
    /\ channel' = [channel EXCEPT ![s] = Tail(@)]
    /\ wire' = [wire EXCEPT ![s] = Append(@, Head(channel[s]))]
    /\ sent' = [sent EXCEPT ![s] = Append(@, Head(channel[s]))]
    /\ UNCHANGED <<storeSide, closed, subscribers, open, panicked, handler, restarts,
                   feed, first>>

\* Mutant of Returns: the channel is closed whether or not the hub has it.
Returns_ClosesAgain(s) ==
    /\ handler' = [handler EXCEPT ![s] = "ended"]
    /\ subscribers' = subscribers \ {s}
    /\ Closes({s})
    /\ UNCHANGED <<storeSide, closed, channel, wire, restarts, feed, first, sent>>

\* A handler that returns gives up its subscription, if the hub still has it.
Returns(s) ==
    /\ handler' = [handler EXCEPT ![s] = "ended"]
    /\ subscribers' = subscribers \ {s}
    /\ Closes(subscribers \cap {s})
    /\ UNCHANGED <<storeSide, closed, channel, wire, restarts, feed, first, sent>>

\* What was buffered in a closed channel is still received.
StreamEnds(s) ==
    /\ handler[s] = "streaming" /\ channel[s] = <<>> /\ s \notin open
    /\ Returns(s)

ContextDone(s) ==
    /\ handler[s] = "streaming"
    /\ Returns(s)

\* Shutdown.
CloseHub ==
    /\ ~closed /\ restarts < MaxRestarts
    /\ closed' = TRUE
    /\ subscribers' = {}
    /\ Closes(subscribers)
    /\ UNCHANGED <<storeSide, channel, handler, wire, restarts, feed, first, sent>>

\* The process ends, with or without a shutdown, and a new one starts; what
\* its requests had stored and not published is never published.
Restart ==
    /\ restarts < MaxRestarts
    /\ restarts' = restarts + 1
    /\ unpublished' = {}
    /\ closed' = FALSE
    /\ subscribers' = {} /\ open' = {}
    /\ handler' = [s \in Streams |->
                     IF handler[s] = "streaming" THEN "ended" ELSE handler[s]]
    /\ channel' = [s \in Streams |-> <<>>]
    /\ feed' = <<>>
    /\ first' = [s \in Streams |-> 0]
    /\ sent' = [s \in Streams |-> <<>>]
    /\ UNCHANGED <<stored, unreported, panicked, wire>>

-----------------------------------------------------------------------------
(* Properties *)

Received(s) == sent[s] \o channel[s]
Announced(s) == SubSeq(feed, first[s] + 1, Len(feed))

\* A stream carries what was published since it subscribed, without a gap and
\* in that order; a stream that is cut off for being slow has a prefix of it.
NoGaps ==
    \A s \in Streams : handler[s] = "streaming" =>
        LET n == Len(Received(s))
        IN  /\ n <= Len(Announced(s))
            /\ Received(s) = SubSeq(Announced(s), 1, n)
            /\ s \in subscribers => n = Len(Announced(s))
=============================================================================
