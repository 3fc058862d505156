------------------------------- MODULE LogView ------------------------------
(***************************************************************************)
(* The log list of the front end (front/app/hooks/useLogs.ts): a query     *)
(* cache filled by GET /api/logs and by the events of the log stream, over *)
(* the streams of LogHub.  An event is merged into the cached list and     *)
(* makes the list be fetched again; a fetch that was under way when an     *)
(* event is merged is cancelled.  Events are worked off one at a time (the *)
(* promise chain pendingLogUpdate), each waiting for its fetch.            *)
(*                                                                         *)
(* One mounted list is modelled.  EventSource and the query library are    *)
(* modelled from how the hook uses them: a broken stream is opened again;  *)
(* invalidating a query that has its list cancels the fetch under way and  *)
(* fetches anew, while a query that has none yet waits for the fetch it    *)
(* has begun; the refetch of every 30 s leaves a fetch under way alone.    *)
(***************************************************************************)
EXTENDS LogHub

CONSTANTS
    Limit,      \* length of the list
    NoStream,
    MaxBreaks,  \* bound: connections the network breaks
    MaxFailures \* bound: fetches that fail

ASSUME ViewConstants ==
    /\ Limit \in Nat \ {0}
    /\ NoStream \notin Streams
    /\ MaxBreaks \in Nat /\ MaxFailures \in Nat

VARIABLES
    source,    \* stream of the EventSource
    cache,     \* cached list, newest log first
    loaded,    \* the cache holds a list
    fetch,     \* state of the query's fetch, and what the store had for it
    failed,    \* the fetch that ended last failed
    updates,   \* log events waiting in the promise chain
    updating,  \* the chain waits for the fetch of an event
    breaks, failures,
    unread     \* history: logs stored after a first list was read that is
               \* still on its way, and before the stream was connected

query == <<cache, loaded, fetch, failed, failures>>
viewVars == <<source, query, updates, updating, breaks, unread>>
vars == <<hubVars, viewVars>>

Idle == [phase |-> "idle", upTo |-> 0]
Asked == [phase |-> "asked", upTo |-> 0]

\* A log is listed once, whether it came with a fetch or an event.
ViewTypeOK ==
    /\ HubTypeOK
    /\ \A i, j \in 1 .. Len(cache) : cache[i] = cache[j] => i = j
    /\ source \in Streams \cup {NoStream}
    /\ cache \in Seq(1 .. stored) /\ Len(cache) <= Limit
    /\ loaded \in BOOLEAN /\ updating \in BOOLEAN /\ failed \in BOOLEAN
    /\ fetch \in [phase : {"idle", "asked", "read"}, upTo : 0 .. stored]
    /\ updates \in Seq(1 .. stored)
    /\ breaks \in 0 .. MaxBreaks /\ failures \in 0 .. MaxFailures
    /\ unread \subseteq 1 .. stored

Init ==
    /\ HubInit
    /\ source = NoStream
    /\ cache = <<>> /\ loaded = FALSE
    /\ fetch = Asked /\ failed = FALSE
    /\ updates = <<>> /\ updating = FALSE
    /\ breaks = 0 /\ failures = 0
    /\ unread = {}

\* GET /api/logs when the store had n logs.
Newest(n) == [i \in 1 .. (IF n < Limit THEN n ELSE Limit) |-> n + 1 - i]

AtMost(s) == SubSeq(s, 1, IF Len(s) < Limit THEN Len(s) ELSE Limit)

\* Mutant: the log is put in front only.
mergeLogList_Twice(list, l) == AtMost(<<l>> \o list)

\* A list has a log at most once (ViewTypeOK): the filter takes out one entry.
Without(list, l) ==
    IF \E i \in 1 .. Len(list) : list[i] = l
    THEN LET i == CHOOSE i \in 1 .. Len(list) : list[i] = l
         IN  SubSeq(list, 1, i - 1) \o SubSeq(list, i + 1, Len(list))
    ELSE list

mergeLogList(list, l) == AtMost(<<l>> \o Without(list, l))

-----------------------------------------------------------------------------
(* The stream *)

OpenStream(s) ==
    /\ source = NoStream
    /\ Subscribe(s)
    /\ source' = s
    /\ unread' = IF ~loaded /\ fetch.phase = "read"
                 THEN fetch.upTo + 1 .. stored ELSE {}
    /\ UNCHANGED <<query, updates, updating, breaks>>

Frees(s) == handler' = [handler EXCEPT ![s] = "none"]

StreamOver ==
    /\ source # NoStream
    /\ handler[source] = "ended" /\ wire[source] = <<>>
    /\ Frees(source)
    /\ source' = NoStream
    /\ UNCHANGED <<storeSide, hubSide, wire, restarts, sent>>
    /\ UNCHANGED <<query, updates, updating, breaks, unread>>

\* The browser loses the connection and the events on it.
StreamBreaks ==
    /\ source # NoStream /\ breaks < MaxBreaks
    /\ breaks' = breaks + 1
    /\ source' = NoStream
    /\ wire' = [wire EXCEPT ![source] = <<>>]
    /\ UNCHANGED <<storeSide, hubSide, handler, restarts, sent>>
    /\ UNCHANGED <<query, updates, updating, unread>>

Takes(s) ==
    /\ wire' = [wire EXCEPT ![s] = Tail(@)]
    /\ UNCHANGED <<storeSide, hubSide, handler, restarts, sent>>

\* Mutant: a connection is not followed by a fetch.
ReceiveConnected_KeepsList ==
    /\ source # NoStream /\ wire[source] # <<>> /\ Head(wire[source]) = Connected
    /\ Takes(source)
    /\ UNCHANGED viewVars

\* The first list is still being fetched, again perhaps.
FirstFetch == ~loaded /\ fetch # Idle

\* onConnected: fetch again, or wait for the first list.  When a fetch is
\* cancelled the chain goes on at once or waits for the new one, as the library
\* has it.
ReceiveConnected ==
    /\ source # NoStream /\ wire[source] # <<>> /\ Head(wire[source]) = Connected
    /\ Takes(source)
    /\ IF FirstFetch
       THEN UNCHANGED <<fetch, updating>>
       ELSE fetch' = Asked /\ updating' \in {updating, FALSE}
    /\ UNCHANGED <<source, cache, loaded, failed, failures, updates, breaks, unread>>

\* onLog
ReceiveLog ==
    /\ source # NoStream /\ wire[source] # <<>> /\ Head(wire[source]) # Connected
    /\ Takes(source)
    /\ updates' = Append(updates, Head(wire[source]))
    /\ UNCHANGED <<source, query, updating, breaks, unread>>

\* Mutant: the fetch under way is not cancelled.
ApplyLog_KeepsFetch ==
    /\ ~updating /\ updates # <<>>
    /\ updates' = Tail(updates)
    /\ cache' = IF loaded THEN mergeLogList(cache, Head(updates)) ELSE cache
    /\ fetch' = IF fetch = Idle THEN Asked ELSE fetch
    /\ updating' = TRUE
    /\ UNCHANGED <<hubVars, source, loaded, failed, failures, breaks, unread>>

\* Mutant: the merged list is not fetched again.
ApplyLog_MergesOnly ==
    /\ ~updating /\ updates # <<>>
    /\ updates' = Tail(updates)
    /\ cache' = IF loaded THEN mergeLogList(cache, Head(updates)) ELSE cache
    /\ fetch' = Idle
    /\ UNCHANGED <<hubVars, source, loaded, failed, failures, updating, breaks, unread>>

\* Cancel the fetch under way, merge, fetch again.
ApplyLog ==
    /\ ~updating /\ updates # <<>>
    /\ updates' = Tail(updates)
    /\ cache' = IF loaded THEN mergeLogList(cache, Head(updates)) ELSE cache
    /\ fetch' = Asked
    /\ updating' = TRUE
    /\ UNCHANGED <<hubVars, source, loaded, failed, failures, breaks, unread>>

-----------------------------------------------------------------------------
(* The query *)

ServerReads ==
    /\ fetch.phase = "asked"
    /\ fetch' = [phase |-> "read", upTo |-> stored]
    /\ unread' = {}
    /\ UNCHANGED <<hubVars, source, cache, loaded, failed, failures, updates, updating,
                   breaks>>

FetchDone ==
    /\ fetch.phase = "read"
    /\ cache' = Newest(fetch.upTo)
    /\ loaded' = TRUE
    /\ fetch' = Idle /\ failed' = FALSE
    /\ updating' = FALSE
    /\ UNCHANGED <<hubVars, source, failures, updates, breaks, unread>>

\* The library tries again, and gives up in the end.
FetchFails ==
    /\ fetch.phase # "idle" /\ failures < MaxFailures
    /\ failures' = failures + 1
    /\ \/ fetch' = Asked /\ UNCHANGED <<failed, updating>>
       \/ fetch' = Idle /\ failed' = TRUE /\ updating' = FALSE
    /\ UNCHANGED <<hubVars, source, cache, loaded, updates, breaks, unread>>

Poll ==
    /\ fetch = Idle
    /\ fetch' = Asked
    /\ UNCHANGED <<hubVars, source, cache, loaded, failed, failures, updates, updating,
                   breaks, unread>>

-----------------------------------------------------------------------------
Serve(s) == ForwardLog(s) \/ StreamEnds(s)

\* The server notices a broken connection sooner or later.
NoticeGone(s) == s # source /\ ContextDone(s)

Recycle(s) ==
    /\ s # source /\ handler[s] = "ended"
    /\ Frees(s)
    /\ UNCHANGED <<storeSide, hubSide, wire, restarts, sent>>

Backend ==
    \/ AppendLog
    \/ AppendUnreported
    \/ \E l \in unpublished : Publish(l)
    \/ \E s \in Streams : Serve(s) \/ NoticeGone(s) \/ Recycle(s)
    \/ CloseHub
    \/ Restart

View ==
    \/ \E s \in Streams : OpenStream(s)
    \/ StreamOver
    \/ StreamBreaks
    \/ ReceiveConnected
    \/ ReceiveLog
    \/ ApplyLog
    \/ ServerReads
    \/ FetchDone
    \/ FetchFails
    \/ Poll

Next == (Backend /\ UNCHANGED viewVars) \/ View

Spec == Init /\ [][Next]_vars

\* Requests publish what they stored, handlers are scheduled, a closed hub is
\* that of a process about to end, EventSource reconnects, fetches end.
FairSpec ==
    /\ Spec
    /\ WF_vars(closed /\ Restart /\ UNCHANGED viewVars)
    /\ WF_vars(\E l \in unpublished : Publish(l) /\ UNCHANGED viewVars)
    /\ \A s \in Streams :
          WF_vars((Serve(s) \/ NoticeGone(s) \/ Recycle(s)) /\ UNCHANGED viewVars)
    /\ WF_vars(\E s \in Streams : OpenStream(s))
    /\ WF_vars(StreamOver)
    /\ WF_vars(ReceiveConnected \/ ReceiveLog)
    /\ WF_vars(ApplyLog)
    /\ WF_vars(ServerReads)
    /\ WF_vars(FetchDone)

-----------------------------------------------------------------------------
(* Properties *)

\* A fetch that was asked for before a log was announced never takes that log
\* off the list again (useLogs.ts:48).
FetchIsNotOlder ==
    [][FetchDone => \A i \in 1 .. Len(cache) : cache[i] <= fetch.upTo]_vars

\* Nothing is under way between the store and the list.
Quiet ==
    /\ source \in subscribers /\ unpublished = {}
    /\ channel[source] = <<>> /\ wire[source] = <<>> /\ updates = <<>>
    /\ fetch = Idle

\* A list that has its stream, whose last fetch did not fail, and to which
\* nothing is on its way, is what the store answers: no log stored before the
\* stream was connected, published while a fetch was under way or never published
\* by a process that died is missing.  It may lack, until the next poll, the
\* newest logs that were stored under a reported error, and those stored between
\* the read of a first list under way and the connection of the stream
\* (log_hub.go:62, useLogs.ts:42, useLogs.ts:50-54).
QuietListIsCurrent ==
    ~failed /\ Quiet => \E n \in 0 .. stored : /\ cache = Newest(n)
                                             /\ n + 1 .. stored \subseteq unreported \cup unread

Converges == stored = MaxLogs ~> [](cache = Newest(MaxLogs))

\* When no more logs come the list ends up as the store has it, order included,
\* through slow streams, broken connections and restarts between storing and
\* publishing.  The events alone bring that about unless a fetch failed, a log was
\* stored under a reported error, or the stream was connected after the first list
\* was read and before it arrived; polling makes up for all of these
\* (log_hub.go:62, useLogs.ts:97, docs/backend-api-specification.md:576).
ViewConverges ==
    [](failures = 0 /\ unreported = {} /\ unread = {}) \/ WF_vars(Poll) => Converges
=============================================================================
