---------------------------- MODULE LogViewProofs ----------------------------
(***************************************************************************)
(* The log stream and the log list, for any number of connections and logs,*)
(* any buffer and limit, and through shutdowns, restarts and broken        *)
(* connections.                                                            *)
(***************************************************************************)
EXTENDS LogView, SequenceTheorems, TLAPS

Stored == 1 .. stored

HubShape ==
    /\ channel \in [Streams -> Seq(Stored)]
    /\ sent \in [Streams -> Seq(Stored)]
    /\ wire \in [Streams -> Seq(0 .. stored)]
    /\ feed \in Seq(Stored)
    /\ first \in [Streams -> Nat]

\* The hub forgets a stream before its handler is through.
SubscribersAreServed == \A s \in subscribers : handler[s] = "streaming"

\* What the handler wrote and what it has yet to write are the logs of the feed
\* from the place where the stream subscribed, up to the last one while the hub
\* still has the stream.
CarriesFeed(s) ==
    /\ first[s] + Len(sent[s]) + Len(channel[s]) <= Len(feed)
    /\ s \in subscribers => first[s] + Len(sent[s]) + Len(channel[s]) = Len(feed)
    /\ \A i \in 1 .. Len(sent[s]) : sent[s][i] = feed[first[s] + i]
    /\ \A i \in 1 .. Len(channel[s]) :
          channel[s][i] = feed[first[s] + Len(sent[s]) + i]

StreamsCarryFeed == \A s \in Streams : handler[s] = "streaming" => CarriesFeed(s)

HubInv ==
    /\ HubTypeOK
    /\ HubShape
    /\ SubscribersAreServed
    /\ StreamsCarryFeed

\* An answer under way is not older than the list it will replace.
AnswerIsNotOlder ==
    fetch.phase = "read" => \A i \in 1 .. Len(cache) : cache[i] <= fetch.upTo

ViewInv == HubInv /\ ViewTypeOK /\ AnswerIsNotOlder

-----------------------------------------------------------------------------
(* Sequences *)

\* One log moves from the head of one sequence to the end of another.
LEMMA HeadMoves ==
  ASSUME NEW S, NEW out \in Seq(S), NEW rest \in Seq(S), rest # <<>>
  PROVE  /\ Append(out, Head(rest)) \in Seq(S) /\ Tail(rest) \in Seq(S)
         /\ Len(Append(out, Head(rest))) = Len(out) + 1
         /\ Len(Tail(rest)) = Len(rest) - 1
         /\ Len(out) \in Nat /\ Len(rest) \in Nat \ {0}
         /\ \A i \in 1 .. Len(out) : Append(out, Head(rest))[i] = out[i]
         /\ Append(out, Head(rest))[Len(out) + 1] = rest[1]
         /\ \A i \in 1 .. Len(rest) - 1 : Tail(rest)[i] = rest[i + 1]
<1>1. /\ Head(rest) \in S /\ Head(rest) = rest[1]
      /\ Tail(rest) \in Seq(S) /\ Len(Tail(rest)) = Len(rest) - 1
      /\ \A i \in 1 .. Len(Tail(rest)) : Tail(rest)[i] = rest[i + 1]
  BY HeadTailProperties
<1>2. Len(out) \in Nat /\ Len(rest) \in Nat \ {0}
  BY LenProperties, EmptySeq
<1>. QED  BY <1>1, <1>2, AppendProperties

\* The place of a log in the feed, when the log goes to the channel and when it
\* leaves the channel for the connection.
LEMMA Places ==
  \A a, n, c \in Nat : /\ a + n + (c + 1) = a + n + c + 1
                       /\ c # 0 => a + (n + 1) + (c - 1) = a + n + c
                       /\ a + (n + 1) = a + n + 1
                       /\ a + (n + 1) + c = a + n + (c + 1)
  OBVIOUS

LEMMA SeqGrows ==
  ASSUME NEW m \in Nat
  PROVE  /\ Seq(1 .. m) \subseteq Seq(1 .. m + 1)
         /\ Seq(0 .. m) \subseteq Seq(0 .. m + 1)
<1>1. ASSUME NEW S, NEW T, S \subseteq T  PROVE Seq(S) \subseteq Seq(T)
  BY <1>1, SeqMonotonic
<1>2. 1 .. m \subseteq 1 .. m + 1 /\ 0 .. m \subseteq 0 .. m + 1
  OBVIOUS
<1>. QED  BY <1>1, <1>2

-----------------------------------------------------------------------------
(* The hub *)

\* HubTypeOK, stream by stream, after a step.
LEMMA TypesFollow ==
  ASSUME HubShape', stored' \in 0 .. MaxLogs, unpublished' \subseteq Stored',
         unreported' \subseteq Stored', panicked' = FALSE,
         closed' \in BOOLEAN, subscribers' \subseteq Streams, open' = subscribers',
         handler' \in [Streams -> {"none", "streaming", "ended"}],
         restarts' \in 0 .. MaxRestarts,
         \A s \in Streams : Len(channel'[s]) <= Buffer
  PROVE  HubTypeOK'
BY DEF HubShape, HubTypeOK, Stored

LEMMA HubInit_Inv == HubInit => HubInv
<1>. SUFFICES ASSUME HubInit  PROVE HubInv
  OBVIOUS
<1>1. HubShape
  BY EmptySeq DEF HubInit, HubShape
<1>2. HubTypeOK
  <2>1. \A s \in Streams : /\ channel[s] \in Seq(1 .. stored) /\ Len(channel[s]) = 0
                            /\ wire[s] \in Seq(0 .. stored)
    BY EmptySeq DEF HubInit
  <2>2. 0 \in 0 .. MaxLogs /\ 0 \in 0 .. MaxRestarts /\ 0 <= Buffer
    BY HubConstants
  <2>3. \A s \in Streams : Len(channel[s]) <= Buffer
    BY <2>1, <2>2
  <2>. QED  BY <2>1, <2>2, <2>3 DEF HubInit, HubTypeOK
<1>3. SubscribersAreServed /\ StreamsCarryFeed
  BY DEF HubInit, SubscribersAreServed, StreamsCarryFeed
<1>. QED  BY <1>1, <1>2, <1>3 DEF HubInv

\* What the actions need of the types.
LEMMA HubFacts ==
  ASSUME HubInv
  PROVE  /\ stored \in Nat /\ stored <= MaxLogs /\ MaxLogs \in Nat
         /\ MaxRestarts \in Nat /\ Buffer \in Nat \ {0}
         /\ Stored \subseteq Nat \ {0} /\ unpublished \subseteq Stored
         /\ unreported \subseteq Stored /\ panicked = FALSE
         /\ Len(feed) \in Nat
         /\ \A s \in Streams : /\ channel[s] \in Seq(Stored) /\ sent[s] \in Seq(Stored)
                               /\ wire[s] \in Seq(0 .. stored)
                               /\ first[s] \in Nat
                               /\ Len(sent[s]) \in Nat /\ Len(channel[s]) \in Nat
                               /\ Len(wire[s]) \in Nat
BY HubConstants, LenProperties DEF HubInv, HubTypeOK, HubShape, Stored

\* A stream whose handler, log and channel stay, while the feed does too and
\* the hub does not take it up, still carries its feed.
LEMMA StillCarries ==
  ASSUME NEW s \in Streams, CarriesFeed(s),
         feed' = feed, first'[s] = first[s], sent'[s] = sent[s],
         channel'[s] = channel[s], s \in subscribers' => s \in subscribers
  PROVE  CarriesFeed(s)'
BY DEF CarriesFeed

LEMMA AppendLog_Inv ==
  ASSUME HubInv, AppendLog \/ AppendUnreported  PROVE HubInv'
<1>1. /\ stored < MaxLogs /\ stored' = stored + 1
      /\ unpublished' \subseteq unpublished \cup {stored + 1}
      /\ unreported' \subseteq unreported \cup {stored + 1}
      /\ UNCHANGED <<closed, subscribers, channel, open, panicked, handler, wire,
                     restarts, feed, first, sent>>
  BY DEF AppendLog, AppendUnreported, hubSide
<1>2. Seq(Stored) \subseteq Seq(Stored)' /\ Seq(0 .. stored) \subseteq Seq(0 .. stored')
  BY <1>1, HubFacts, SeqGrows DEF Stored
<1>3. HubShape'
  BY <1>1, <1>2 DEF HubInv, HubShape
<1>4. HubTypeOK'
  <2>1. /\ stored \in Nat /\ stored < MaxLogs /\ MaxLogs \in Nat
        /\ unpublished \subseteq 1 .. stored /\ unreported \subseteq 1 .. stored
    BY <1>1, HubFacts DEF Stored
  <2>2. /\ stored' \in 0 .. MaxLogs /\ unpublished' \subseteq Stored'
        /\ unreported' \subseteq Stored'
    BY <1>1, <2>1 DEF Stored
  <2>. QED  BY <1>1, <1>3, <2>2, TypesFollow DEF HubInv, HubTypeOK
<1>5. SubscribersAreServed' /\ StreamsCarryFeed'
  BY <1>1 DEF HubInv, SubscribersAreServed, StreamsCarryFeed, CarriesFeed
<1>. QED  BY <1>3, <1>4, <1>5 DEF HubInv

LEMMA Publish_Inv ==
  ASSUME HubInv, NEW l \in unpublished, Publish(l)  PROVE HubInv'
<1>1. /\ unpublished' = unpublished \ {l}
      /\ UNCHANGED <<stored, unreported, closed, handler, wire, restarts, first, sent>>
  BY DEF Publish
<1>2. l \in Stored
  BY HubFacts
<1>3. CASE closed
  <2>1. UNCHANGED <<subscribers, channel, open, panicked, feed>>
    BY <1>3 DEF Publish
  <2>2. HubShape'
    BY <1>1, <2>1 DEF HubInv, HubShape, Stored
  <2>3. HubTypeOK'
    BY <1>1, <2>1, <2>2, TypesFollow DEF HubInv, HubTypeOK, Stored
  <2>4. SubscribersAreServed' /\ StreamsCarryFeed'
    BY <1>1, <2>1 DEF HubInv, SubscribersAreServed, StreamsCarryFeed, CarriesFeed
  <2>. QED  BY <2>2, <2>3, <2>4 DEF HubInv
<1>4. CASE ~closed
  <2>1. /\ channel' = [s \in Streams |-> IF s \in subscribers \ Full
                                        THEN Append(channel[s], l) ELSE channel[s]]
        /\ subscribers' = subscribers \ Full /\ open' = open \ Full
        /\ panicked' = FALSE
        /\ feed' = Append(feed, l)
    BY <1>4 DEF Publish, Offer, Buffered, HubInv, HubTypeOK
  <2>2. \A s \in Streams :
           /\ s \in subscribers' => /\ s \in subscribers
                                    /\ channel'[s] = Append(channel[s], l)
                                    /\ Len(channel[s]) < Buffer
           /\ s \notin subscribers' => channel'[s] = channel[s]
    <3>1. /\ subscribers \subseteq Streams /\ Buffer \in Nat
          /\ \A s \in Streams : Len(channel[s]) \in Nat /\ Len(channel[s]) <= Buffer
      BY HubFacts DEF HubInv, HubTypeOK
    <3>. QED  BY <2>1, <3>1 DEF Full
  <2>3. /\ feed' \in Seq(Stored) /\ Len(feed') = Len(feed) + 1
        /\ feed'[Len(feed) + 1] = l
        /\ \A i \in 1 .. Len(feed) : feed'[i] = feed[i]
    BY <1>2, <2>1, AppendProperties DEF HubInv, HubShape
  <2>4. \A s \in Streams : s \in subscribers' =>
           /\ channel'[s] \in Seq(Stored)
           /\ Len(channel'[s]) = Len(channel[s]) + 1
           /\ channel'[s][Len(channel[s]) + 1] = l
           /\ \A i \in 1 .. Len(channel[s]) : channel'[s][i] = channel[s][i]
    <3>. SUFFICES ASSUME NEW s \in Streams, s \in subscribers'
                  PROVE  /\ Append(channel[s], l) \in Seq(Stored)
                         /\ Len(Append(channel[s], l)) = Len(channel[s]) + 1
                         /\ Append(channel[s], l)[Len(channel[s]) + 1] = l
                         /\ \A i \in 1 .. Len(channel[s]) :
                               Append(channel[s], l)[i] = channel[s][i]
      BY <2>2
    <3>1. channel[s] \in Seq(Stored)
      BY HubFacts
    <3>. QED  BY <1>2, <3>1, AppendProperties
  <2>5. HubShape'
    <3>1. channel' \in [Streams -> Seq(Stored)]
      <4>1. \A s \in Streams : channel'[s] \in Seq(Stored)
        BY <2>2, <2>4, HubFacts
      <4>2. channel' = [s \in Streams |-> channel'[s]]
        BY <2>1
      <4>. QED  BY <4>1, <4>2
    <3>2. Stored' = Stored
      BY <1>1 DEF Stored
    <3>. QED  BY <1>1, <2>3, <3>1, <3>2 DEF HubInv, HubShape
  <2>6. HubTypeOK'
    <3>1. \A s \in Streams : Len(channel'[s]) <= Buffer
      <4>1. \A s \in Streams : Len(channel[s]) <= Buffer
        BY DEF HubInv, HubTypeOK
      <4>2. \A s \in Streams : Len(channel[s]) \in Nat /\ Buffer \in Nat
        BY HubFacts
      <4>. QED  BY <2>2, <2>4, <4>1, <4>2
    <3>. QED  BY <1>1, <2>1, <2>5, <3>1, TypesFollow DEF HubInv, HubTypeOK, Stored
  <2>7. SubscribersAreServed'
    BY <1>1, <2>1 DEF HubInv, SubscribersAreServed
  <2>8. ASSUME NEW s \in Streams, handler[s] = "streaming"  PROVE CarriesFeed(s)'
    <3>1. CarriesFeed(s)
      BY <2>8 DEF HubInv, StreamsCarryFeed
    <3>2. /\ first[s] \in Nat /\ Len(sent[s]) \in Nat /\ Len(channel[s]) \in Nat
          /\ Len(feed) \in Nat
      BY HubFacts
    <3>3. UNCHANGED <<first[s], sent[s]>>
      BY <1>1
    <3>0. first[s] + Len(sent[s]) + Len(channel[s]) <= Len(feed)
      BY <3>1 DEF CarriesFeed
    <3>4. ASSUME NEW i \in 1 .. Len(sent[s])  PROVE sent[s][i] = feed'[first[s] + i]
      <4>1. first[s] + i \in 1 .. Len(feed)
        BY <3>0, <3>2
      <4>2. sent[s][i] = feed[first[s] + i]
        BY <3>1 DEF CarriesFeed
      <4>. QED  BY <2>3, <4>1, <4>2
    <3>5. ASSUME NEW i \in 1 .. Len(channel[s])
          PROVE  channel[s][i] = feed'[first[s] + Len(sent[s]) + i]
      <4>1. first[s] + Len(sent[s]) + i \in 1 .. Len(feed)
        BY <3>0, <3>2
      <4>2. channel[s][i] = feed[first[s] + Len(sent[s]) + i]
        BY <3>1 DEF CarriesFeed
      <4>. QED  BY <2>3, <4>1, <4>2
    <3>6. CASE s \in subscribers'
      <4>1. /\ s \in subscribers
            /\ Len(channel'[s]) = Len(channel[s]) + 1
            /\ channel'[s][Len(channel[s]) + 1] = l
            /\ \A i \in 1 .. Len(channel[s]) : channel'[s][i] = channel[s][i]
        BY <2>2, <2>4, <3>6
      <4>2. first[s] + Len(sent[s]) + Len(channel[s]) = Len(feed)
        BY <3>1, <4>1 DEF CarriesFeed
      <4>3. first[s] + Len(sent[s]) + Len(channel'[s]) = Len(feed')
        <5>1. first[s] + Len(sent[s]) + (Len(channel[s]) + 1)
                = first[s] + Len(sent[s]) + Len(channel[s]) + 1
          BY <3>2, Places
        <5>2. Len(feed') = Len(feed) + 1
          BY <2>3
        <5>. QED  BY <4>1, <4>2, <5>1, <5>2
      <4>4. ASSUME NEW i \in 1 .. Len(channel'[s])
            PROVE  channel'[s][i] = feed'[first[s] + Len(sent[s]) + i]
        <5>1. CASE i \in 1 .. Len(channel[s])
          BY <3>5, <4>1, <5>1
        <5>2. CASE i = Len(channel[s]) + 1
          <6>1. first[s] + Len(sent[s]) + i = Len(feed) + 1
            BY <3>2, <4>2, <5>2
          <6>. QED  BY <2>3, <4>1, <5>2, <6>1
        <5>. QED  BY <3>2, <4>1, <5>1, <5>2
      <4>5. first'[s] = first[s] /\ sent'[s] = sent[s]
        BY <3>3
      <4>6. /\ first[s] + Len(sent[s]) + Len(channel'[s]) <= Len(feed')
        BY <2>3, <3>2, <4>3
      <4>. QED  BY <3>4, <4>3, <4>4, <4>5, <4>6 DEF CarriesFeed
    <3>7. CASE s \notin subscribers'
      <4>1. channel'[s] = channel[s]
        BY <2>2, <3>7
      <4>2. first[s] + Len(sent[s]) + Len(channel[s]) <= Len(feed')
        BY <2>3, <3>1, <3>2 DEF CarriesFeed
      <4>. QED  BY <3>3, <3>4, <3>5, <3>7, <4>1, <4>2 DEF CarriesFeed
    <3>. QED  BY <3>6, <3>7
  <2>. QED  BY <1>1, <2>5, <2>6, <2>7, <2>8 DEF HubInv, StreamsCarryFeed
<1>. QED  BY <1>3, <1>4

\* A step that leaves logs, feed and channels alone, and neither adds a stream
\* to the hub nor lets a handler start.
LEMMA Quiet_Inv ==
  ASSUME HubInv,
         UNCHANGED <<stored, channel, feed, first, sent>>,
         unpublished' \subseteq unpublished, UNCHANGED <<unreported, panicked>>,
         closed' \in BOOLEAN,
         subscribers' \subseteq subscribers, open' = subscribers',
         wire' \in [Streams -> Seq(0 .. stored)],
         handler' \in [Streams -> {"none", "streaming", "ended"}],
         restarts' \in 0 .. MaxRestarts,
         \A s \in Streams : /\ handler'[s] = "streaming" => handler[s] = "streaming"
                            /\ s \in subscribers' => handler'[s] = handler[s]
  PROVE  HubInv'
<1>1. HubShape'
  BY DEF HubInv, HubShape, Stored
<1>2. HubTypeOK'
  BY <1>1, TypesFollow DEF HubInv, HubTypeOK, Stored
<1>3. SubscribersAreServed'
  BY DEF HubInv, SubscribersAreServed, HubTypeOK
<1>4. StreamsCarryFeed'
  BY StillCarries DEF HubInv, StreamsCarryFeed
<1>. QED  BY <1>1, <1>2, <1>3, <1>4 DEF HubInv

LEMMA Returns_Inv ==
  ASSUME HubInv, NEW s \in Streams, Returns(s)  PROVE HubInv'
BY Quiet_Inv DEF Returns, Closes, storeSide, HubInv, HubTypeOK, HubShape

LEMMA CloseHub_Inv == ASSUME HubInv, CloseHub PROVE HubInv'
BY Quiet_Inv DEF CloseHub, Closes, storeSide, HubInv, HubTypeOK, HubShape

LEMMA Frees_Inv ==
  ASSUME HubInv, NEW s \in Streams, handler[s] = "ended", Frees(s),
         UNCHANGED <<storeSide, hubSide, wire, restarts, sent>>
  PROVE  HubInv'
<1>1. s \notin subscribers
  BY DEF HubInv, SubscribersAreServed
<1>. QED  BY <1>1, Quiet_Inv DEF Frees, storeSide, hubSide, HubInv, HubTypeOK, HubShape

LEMMA Wire_Inv ==
  ASSUME HubInv, NEW s \in Streams, NEW w \in Seq(0 .. stored),
         wire' = [wire EXCEPT ![s] = w],
         UNCHANGED <<storeSide, hubSide, handler, restarts, sent>>
  PROVE  HubInv'
BY Quiet_Inv DEF storeSide, hubSide, HubInv, HubTypeOK, HubShape

LEMMA Still_Inv == ASSUME HubInv, UNCHANGED hubVars PROVE HubInv'
BY Quiet_Inv DEF hubVars, storeSide, hubSide, HubInv, HubTypeOK, HubShape

LEMMA Restart_Inv == ASSUME HubInv, Restart PROVE HubInv'
<1>1. /\ stored' = stored /\ unpublished' = {} /\ closed' = FALSE
      /\ UNCHANGED <<unreported, panicked>>
      /\ subscribers' = {} /\ open' = {} /\ wire' = wire
      /\ handler' = [s \in Streams |->
                       IF handler[s] = "streaming" THEN "ended" ELSE handler[s]]
      /\ channel' = [s \in Streams |-> <<>>] /\ feed' = <<>>
      /\ first' = [s \in Streams |-> 0] /\ sent' = [s \in Streams |-> <<>>]
  BY DEF Restart
<1>2. /\ restarts' \in 0 .. MaxRestarts
      /\ handler' \in [Streams -> {"none", "streaming", "ended"}]
  BY HubConstants DEF Restart, HubInv, HubTypeOK
<1>3. HubShape'
  BY <1>1, EmptySeq DEF HubInv, HubShape, Stored
<1>4. HubTypeOK'
  <2>1. \A s \in Streams : Len(channel'[s]) <= Buffer
    BY <1>1, HubConstants, EmptySeq
  <2>. QED  BY <1>1, <1>2, <1>3, <2>1, TypesFollow DEF HubInv, HubTypeOK, Stored
<1>5. SubscribersAreServed' /\ StreamsCarryFeed'
  BY <1>1 DEF HubInv, HubTypeOK, SubscribersAreServed, StreamsCarryFeed
<1>. QED  BY <1>3, <1>4, <1>5 DEF HubInv

\* A stream starts with nothing to carry.
LEMMA Subscribe_Inv ==
  ASSUME HubInv, NEW s \in Streams, Subscribe(s)  PROVE HubInv'
<1>1. /\ handler[s] = "none" /\ handler' = [handler EXCEPT ![s] = "streaming"]
      /\ channel' = [channel EXCEPT ![s] = <<>>]
      /\ wire' = [wire EXCEPT ![s] = <<Connected>>]
      /\ first' = [first EXCEPT ![s] = Len(feed)]
      /\ sent' = [sent EXCEPT ![s] = <<>>]
      /\ UNCHANGED <<stored, unpublished, unreported, closed, panicked, restarts, feed>>
  BY DEF Subscribe, storeSide
<1>2. /\ subscribers \subseteq subscribers' /\ subscribers' \subseteq subscribers \cup {s}
      /\ open' = subscribers'
  BY DEF Subscribe, HubInv, HubTypeOK
<1>3. <<>> \in Seq(Stored) /\ Len(<<>>) = 0 /\ <<Connected>> \in Seq(0 .. stored)
      /\ Len(feed) \in Nat /\ 0 <= Buffer
  <2>1. Connected \in 0 .. stored
    BY HubFacts DEF Connected
  <2>. QED  BY <2>1, HubFacts, EmptySeq
<1>4. HubShape'
  BY <1>1, <1>3 DEF HubInv, HubShape, Stored
<1>5. HubTypeOK'
  <2>1. \A r \in Streams : Len(channel'[r]) <= Buffer
    BY <1>1, <1>3 DEF HubInv, HubTypeOK, HubShape
  <2>. QED  BY <1>1, <1>2, <1>4, <2>1, TypesFollow DEF HubInv, HubTypeOK, Stored
<1>6. SubscribersAreServed'
  BY <1>1, <1>2 DEF HubInv, HubTypeOK, SubscribersAreServed
<1>7. StreamsCarryFeed'
  <2>1. CarriesFeed(s)'
    <3>1. /\ channel'[s] = <<>> /\ sent'[s] = <<>> /\ first'[s] = Len(feed') /\ Len(feed') \in Nat
      BY <1>1, <1>3 DEF HubInv, HubShape
    <3>. QED  BY <1>3, <3>1 DEF CarriesFeed
  <2>2. ASSUME NEW r \in Streams \ {s}, handler'[r] = "streaming"  PROVE CarriesFeed(r)'
    <3>1. handler[r] = "streaming" /\ CarriesFeed(r)
      BY <1>1, <2>2 DEF HubInv, HubTypeOK, StreamsCarryFeed
    <3>2. /\ feed' = feed /\ first'[r] = first[r] /\ sent'[r] = sent[r]
          /\ channel'[r] = channel[r] /\ (r \in subscribers' => r \in subscribers)
      BY <1>1, <1>2 DEF HubInv, HubShape
    <3>. QED  BY <3>1, <3>2, StillCarries
  <2>. QED  BY <2>1, <2>2 DEF StreamsCarryFeed
<1>. QED  BY <1>4, <1>5, <1>6, <1>7 DEF HubInv

\* The head of the channel becomes the last log written.
LEMMA ForwardLog_Inv ==
  ASSUME HubInv, NEW s \in Streams, ForwardLog(s)  PROVE HubInv'
<1>. PICK out : out = sent[s]
  OBVIOUS
<1>. PICK rest : rest = channel[s]
  OBVIOUS
<1>1. /\ handler[s] = "streaming" /\ rest # <<>>
      /\ channel' = [channel EXCEPT ![s] = Tail(rest)]
      /\ wire' = [wire EXCEPT ![s] = Append(@, Head(rest))]
      /\ sent' = [sent EXCEPT ![s] = Append(out, Head(rest))]
      /\ UNCHANGED <<stored, unpublished, unreported, closed, subscribers, open, panicked,
                     handler, restarts, feed, first>>
  BY DEF ForwardLog, storeSide
<1>2. out \in Seq(Stored) /\ rest \in Seq(Stored) /\ wire[s] \in Seq(0 .. stored)
  BY HubFacts
<1>3. /\ Append(out, Head(rest)) \in Seq(Stored) /\ Tail(rest) \in Seq(Stored)
      /\ Len(Append(out, Head(rest))) = Len(out) + 1
      /\ Len(Tail(rest)) = Len(rest) - 1
      /\ Len(out) \in Nat /\ Len(rest) \in Nat \ {0}
      /\ \A i \in 1 .. Len(out) : Append(out, Head(rest))[i] = out[i]
      /\ Append(out, Head(rest))[Len(out) + 1] = rest[1]
      /\ \A i \in 1 .. Len(rest) - 1 : Tail(rest)[i] = rest[i + 1]
  BY <1>1, <1>2, HeadMoves
<1>4. Append(wire[s], Head(rest)) \in Seq(0 .. stored)
  <2>1. Head(rest) \in 0 .. stored
    BY <1>1, <1>2, HubFacts, HeadTailProperties DEF Stored
  <2>. QED  BY <1>2, <2>1, AppendProperties
<1>5. /\ sent'[s] = Append(out, Head(rest)) /\ channel'[s] = Tail(rest)
      /\ \A r \in Streams \ {s} : sent'[r] = sent[r] /\ channel'[r] = channel[r]
  BY <1>1 DEF HubInv, HubShape
<1>6. HubShape'
  <2>1. /\ channel' \in [Streams -> Seq(Stored)]
        /\ sent' \in [Streams -> Seq(Stored)]
        /\ wire' \in [Streams -> Seq(0 .. stored)]
    BY <1>1, <1>3, <1>4 DEF HubInv, HubShape
  <2>. QED  BY <1>1, <2>1 DEF HubInv, HubShape, Stored
<1>7. HubTypeOK'
  <2>1. \A r \in Streams : Len(channel'[r]) <= Buffer
    <3>0. Len(rest) <= Buffer /\ Buffer \in Nat
      BY HubFacts DEF HubInv, HubTypeOK
    <3>1. Len(rest) <= Buffer /\ Buffer \in Nat /\ Len(Tail(rest)) <= Buffer
      BY <1>3, <3>0
    <3>. QED  BY <1>5, <3>1 DEF HubInv, HubTypeOK
  <2>. QED  BY <1>1, <1>6, <2>1, TypesFollow DEF HubInv, HubTypeOK, Stored
<1>8. SubscribersAreServed'
  BY <1>1 DEF HubInv, SubscribersAreServed
<1>9. CarriesFeed(s)'
  <2>. PICK a : a = first[s]
    OBVIOUS
  <2>1. /\ a + Len(out) + Len(rest) <= Len(feed) /\ a \in Nat /\ Len(feed) \in Nat
        /\ s \in subscribers => a + Len(out) + Len(rest) = Len(feed)
        /\ \A i \in 1 .. Len(out) : out[i] = feed[a + i]
        /\ \A i \in 1 .. Len(rest) : rest[i] = feed[a + Len(out) + i]
    BY <1>1, HubFacts DEF HubInv, StreamsCarryFeed, CarriesFeed
  <2>0. a \in Nat /\ Len(out) \in Nat /\ Len(rest) \in Nat \ {0}
    BY <1>3, <2>1
  <2>2. /\ \A i \in 1 .. Len(out) + 1 : Append(out, Head(rest))[i] = feed[a + i]
        /\ \A i \in 1 .. Len(rest) - 1 :
              Tail(rest)[i] = feed[a + (Len(out) + 1) + i]
    <3>1. /\ \A i \in 1 .. Len(out) : out[i] = feed[a + i]
          /\ \A i \in 1 .. Len(rest) : rest[i] = feed[a + Len(out) + i]
      BY <2>1
    <3>2. /\ \A i \in 1 .. Len(out) : Append(out, Head(rest))[i] = out[i]
          /\ Append(out, Head(rest))[Len(out) + 1] = rest[1]
          /\ \A i \in 1 .. Len(rest) - 1 : Tail(rest)[i] = rest[i + 1]
      BY <1>3
    <3>3. ASSUME NEW i \in 1 .. Len(out) + 1
          PROVE  Append(out, Head(rest))[i] = feed[a + i]
      <4>1. 1 \in 1 .. Len(rest) /\ (i \in 1 .. Len(out) \/ i = Len(out) + 1)
        BY <2>0
      <4>2. rest[1] = feed[a + Len(out) + 1]
        BY <3>1, <4>1
      <4>3. a + (Len(out) + 1) = a + Len(out) + 1
        BY <2>0, Places
      <4>. QED  BY <3>1, <3>2, <4>1, <4>2, <4>3
    <3>4. ASSUME NEW i \in 1 .. Len(rest) - 1
          PROVE  Tail(rest)[i] = feed[a + (Len(out) + 1) + i]
      <4>1. i + 1 \in 1 .. Len(rest) /\ i \in Nat
        BY <2>0
      <4>2. rest[i + 1] = feed[a + Len(out) + (i + 1)]
        BY <3>1, <4>1
      <4>3. a + (Len(out) + 1) + i = a + Len(out) + (i + 1)
        <5>. SUFFICES ASSUME NEW x \in Nat, NEW n \in Nat
                      PROVE  x + (n + 1) + i = x + n + (i + 1)
          BY <2>0
        <5>. QED  BY <4>1
      <4>. QED  BY <3>2, <4>2, <4>3
    <3>. QED  BY <3>3, <3>4
  <2>3. a + (Len(out) + 1) + (Len(rest) - 1) = a + Len(out) + Len(rest)
    <3>. SUFFICES ASSUME NEW x \in Nat, NEW n \in Nat, NEW c \in Nat \ {0}
                  PROVE  x + (n + 1) + (c - 1) = x + n + c
      BY <2>0
    <3>. QED  OBVIOUS
  <2>4. first'[s] = a /\ UNCHANGED <<feed, subscribers>>
    BY <1>1
  <2>5. /\ a + Len(sent'[s]) + Len(channel'[s]) = a + Len(out) + Len(rest)
        /\ Len(sent'[s]) = Len(out) + 1 /\ Len(channel'[s]) = Len(rest) - 1
    BY <1>3, <1>5, <2>3
  <2>6. \A i \in 1 .. Len(sent'[s]) : sent'[s][i] = feed[a + i]
    BY <1>5, <2>2, <2>5
  <2>7. \A i \in 1 .. Len(channel'[s]) :
           channel'[s][i] = feed[a + Len(sent'[s]) + i]
    BY <1>5, <2>2, <2>5
  <2>8. /\ a + Len(sent'[s]) + Len(channel'[s]) <= Len(feed)
        /\ s \in subscribers => a + Len(sent'[s]) + Len(channel'[s]) = Len(feed)
    BY <2>1, <2>5
  <2>. QED  BY <2>4, <2>6, <2>7, <2>8 DEF CarriesFeed
<1>10. ASSUME NEW r \in Streams \ {s}, handler[r] = "streaming"  PROVE CarriesFeed(r)'
  BY <1>1, <1>5, <1>10, StillCarries DEF HubInv, StreamsCarryFeed
<1>11. StreamsCarryFeed'
  BY <1>1, <1>9, <1>10 DEF StreamsCarryFeed
<1>. QED  BY <1>6, <1>7, <1>8, <1>11 DEF HubInv

LEMMA StreamEnds_Inv ==
  ASSUME HubInv, NEW s \in Streams, StreamEnds(s) \/ ContextDone(s)  PROVE HubInv'
BY Returns_Inv DEF StreamEnds, ContextDone

LEMMA Backend_Inv == ASSUME HubInv, Backend PROVE HubInv'
<1>1. CASE AppendLog \/ AppendUnreported
  BY <1>1, AppendLog_Inv
<1>2. CASE \E l \in unpublished : Publish(l)
  BY <1>2, Publish_Inv
<1>3. ASSUME NEW s \in Streams, Serve(s) \/ NoticeGone(s)  PROVE HubInv'
  BY <1>3, ForwardLog_Inv, StreamEnds_Inv DEF Serve, NoticeGone
<1>4. ASSUME NEW s \in Streams, Recycle(s)  PROVE HubInv'
  BY <1>4, Frees_Inv DEF Recycle
<1>5. CASE CloseHub
  BY <1>5, CloseHub_Inv
<1>6. CASE Restart
  BY <1>6, Restart_Inv
<1>. QED  BY <1>1, <1>2, <1>3, <1>4, <1>5, <1>6 DEF Backend

\* The browser takes the first event off the connection.
LEMMA Takes_Inv ==
  ASSUME HubInv, NEW s \in Streams, wire[s] # <<>>, Takes(s)  PROVE HubInv'
<1>1. Tail(wire[s]) \in Seq(0 .. stored)
  BY HubFacts, HeadTailProperties
<1>. QED  BY <1>1, Wire_Inv DEF Takes

LEMMA View_Inv ==
  ASSUME HubInv, source \in Streams \cup {NoStream}, View  PROVE HubInv'
<1>0. source # NoStream => source \in Streams
  OBVIOUS
<1>1. ASSUME NEW s \in Streams, OpenStream(s)  PROVE HubInv'
  BY <1>1, Subscribe_Inv DEF OpenStream
<1>2. CASE StreamOver
  BY <1>0, <1>2, Frees_Inv DEF StreamOver
<1>3. CASE StreamBreaks
  <2>1. <<>> \in Seq(0 .. stored)
    BY EmptySeq
  <2>. QED  BY <1>0, <1>3, <2>1, Wire_Inv DEF StreamBreaks
<1>4. CASE ReceiveConnected
  BY <1>0, <1>4, Takes_Inv DEF ReceiveConnected
<1>5. CASE ReceiveLog
  BY <1>0, <1>5, Takes_Inv DEF ReceiveLog
<1>6. CASE ApplyLog \/ ServerReads \/ FetchDone \/ FetchFails \/ Poll
  BY <1>6, Still_Inv DEF ApplyLog, ServerReads, FetchDone, FetchFails, Poll
<1>. QED  BY <1>1, <1>2, <1>3, <1>4, <1>5, <1>6 DEF View

-----------------------------------------------------------------------------
(* No gaps *)

\* A stretch of a sequence.
LEMMA Slice ==
  ASSUME NEW S, NEW s \in Seq(S), NEW m \in Nat \ {0}, NEW n \in Nat,
         m <= n + 1, n <= Len(s)
  PROVE  /\ SubSeq(s, m, n) \in Seq(S)
         /\ Len(SubSeq(s, m, n)) = n + 1 - m
         /\ \A i \in 1 .. n + 1 - m : SubSeq(s, m, n)[i] = s[m + i - 1]
<1>1. Len(s) \in Nat /\ \A i \in 1 .. Len(s) : s[i] \in S
  BY LenProperties
<1>2. \A i \in m .. n : s[i] \in S
  BY <1>1
<1>3. /\ SubSeq(s, m, n) \in Seq(S)
      /\ Len(SubSeq(s, m, n)) = IF m <= n THEN n - m + 1 ELSE 0
      /\ \A i \in 1 .. n - m + 1 : SubSeq(s, m, n)[i] = s[m + i - 1]
  BY <1>2, SubSeqProperties
<1>4. n + 1 - m = n - m + 1 /\ (~(m <= n) => n + 1 - m = 0)
  OBVIOUS
<1>. QED  BY <1>3, <1>4

\* Where the logs of a stream are in the feed.
LEMMA Offsets ==
  \A a, p, q, f \in Nat : a + p + q <= f =>
     /\ p + q \in Nat /\ p + q <= f - a
     /\ a + p + q = f => p + q = f - a
     /\ a + 1 \in Nat \ {0} /\ a + 1 <= f + 1 /\ f + 1 - (a + 1) = f - a
     /\ \A i \in 1 .. f - a : a + 1 + i - 1 = a + i
     /\ 1 <= p + q + 1 /\ p + q + 1 - 1 = p + q
     /\ \A i \in 1 .. p + q :
           /\ 1 + i - 1 = i /\ i \in 1 .. f - a
           /\ i <= p => i \in 1 .. p
           /\ ~(i <= p) => i - p \in 1 .. q /\ a + p + (i - p) = a + i
  OBVIOUS

LEMMA NothingIsMissing == HubInv => NoGaps
<1>. SUFFICES ASSUME HubInv, NEW s \in Streams, handler[s] = "streaming"
              PROVE  /\ Len(Received(s)) <= Len(Announced(s))
                     /\ Received(s) = SubSeq(Announced(s), 1, Len(Received(s)))
                     /\ s \in subscribers => Len(Received(s)) = Len(Announced(s))
  BY DEF NoGaps
<1>1. \E a, p, q, f \in Nat :
         /\ a = first[s] /\ p = Len(sent[s]) /\ q = Len(channel[s]) /\ f = Len(feed)
         /\ a + p + q <= f
  BY HubFacts DEF HubInv, StreamsCarryFeed, CarriesFeed
<1>0. PICK a, p, q, f \in Nat :
         /\ a = first[s] /\ p = Len(sent[s]) /\ q = Len(channel[s]) /\ f = Len(feed)
         /\ a + p + q <= f
  BY <1>1
<1>2. /\ p + q \in Nat /\ p + q <= f - a
      /\ a + p + q = f => p + q = f - a
      /\ a + 1 \in Nat \ {0} /\ a + 1 <= f + 1 /\ f + 1 - (a + 1) = f - a
      /\ \A i \in 1 .. f - a : a + 1 + i - 1 = a + i
      /\ 1 <= p + q + 1 /\ p + q + 1 - 1 = p + q
      /\ \A i \in 1 .. p + q :
            /\ 1 + i - 1 = i /\ i \in 1 .. f - a
            /\ i <= p => i \in 1 .. p
            /\ ~(i <= p) => i - p \in 1 .. q /\ a + p + (i - p) = a + i
  <2>1. a + p + q <= f
    BY <1>0
  <2>. QED  BY <2>1, Offsets
<1>3. /\ feed \in Seq(Stored) /\ sent[s] \in Seq(Stored) /\ channel[s] \in Seq(Stored)
      /\ s \in subscribers => a + p + q = f
      /\ \A i \in 1 .. p : sent[s][i] = feed[a + i]
      /\ \A i \in 1 .. q : channel[s][i] = feed[a + p + i]
  BY <1>0, HubFacts DEF HubInv, HubShape, StreamsCarryFeed, CarriesFeed
<1>4. /\ Received(s) \in Seq(Stored) /\ Len(Received(s)) = p + q
      /\ \A i \in 1 .. p + q : Received(s)[i] =
                                 IF i <= p THEN sent[s][i] ELSE channel[s][i - p]
  <2>1. /\ sent[s] \o channel[s] \in Seq(Stored)
        /\ Len(sent[s] \o channel[s]) = Len(sent[s]) + Len(channel[s])
        /\ \A i \in 1 .. Len(sent[s]) + Len(channel[s]) :
              (sent[s] \o channel[s])[i] =
                 IF i <= Len(sent[s]) THEN sent[s][i] ELSE channel[s][i - Len(sent[s])]
    BY <1>3, ConcatProperties
  <2>. QED  BY <1>0, <2>1 DEF Received
<1>5. /\ Announced(s) \in Seq(Stored) /\ Len(Announced(s)) = f - a
      /\ \A i \in 1 .. f - a : Announced(s)[i] = feed[a + i]
  <2>1. /\ SubSeq(feed, a + 1, f) \in Seq(Stored)
        /\ Len(SubSeq(feed, a + 1, f)) = f + 1 - (a + 1)
        /\ \A i \in 1 .. f + 1 - (a + 1) :
              SubSeq(feed, a + 1, f)[i] = feed[a + 1 + i - 1]
    <3>1. f <= Len(feed)
      BY <1>0
    <3>2. a + 1 \in Nat \ {0} /\ a + 1 <= f + 1 /\ feed \in Seq(Stored)
      BY <1>2, <1>3
    <3>. QED  BY <3>1, <3>2, Slice
  <2>2. Announced(s) = SubSeq(feed, a + 1, f)
    BY <1>0 DEF Announced
  <2>. HIDE DEF Announced
  <2>. QED  BY <1>2, <2>1, <2>2
<1>6. /\ SubSeq(Announced(s), 1, p + q) \in Seq(Stored)
      /\ Len(SubSeq(Announced(s), 1, p + q)) = p + q
      /\ \A i \in 1 .. p + q : SubSeq(Announced(s), 1, p + q)[i] = feed[a + i]
  <2>1. p + q <= Len(Announced(s)) /\ 1 \in Nat \ {0}
    BY <1>2, <1>5
  <2>2. /\ SubSeq(Announced(s), 1, p + q) \in Seq(Stored)
        /\ Len(SubSeq(Announced(s), 1, p + q)) = p + q + 1 - 1
        /\ \A i \in 1 .. p + q + 1 - 1 :
              SubSeq(Announced(s), 1, p + q)[i] = Announced(s)[1 + i - 1]
    BY <1>2, <1>5, <2>1, Slice
  <2>3. p + q + 1 - 1 = p + q
    BY <1>2
  <2>4. ASSUME NEW i \in 1 .. p + q
        PROVE  SubSeq(Announced(s), 1, p + q)[i] = feed[a + i]
    <3>1. 1 + i - 1 = i /\ i \in 1 .. f - a
      BY <1>2
    <3>2. SubSeq(Announced(s), 1, p + q)[i] = Announced(s)[1 + i - 1]
      BY <2>2, <2>3
    <3>. QED  BY <1>5, <3>1, <3>2
  <2>. QED  BY <2>2, <2>3, <2>4
<1>7. ASSUME NEW i \in 1 .. p + q  PROVE Received(s)[i] = feed[a + i]
  <2>1. CASE i <= p
    BY <1>2, <1>3, <1>4, <2>1
  <2>2. CASE ~(i <= p)
    BY <1>2, <1>3, <1>4, <2>2
  <2>. QED  BY <2>1, <2>2
<1>8. Received(s) = SubSeq(Announced(s), 1, p + q)
  <2>1. \A i \in 1 .. p + q : Received(s)[i] = SubSeq(Announced(s), 1, p + q)[i]
    BY <1>6, <1>7
  <2>. QED  BY <1>4, <1>6, <2>1, SeqEqual
<1>. QED  BY <1>2, <1>3, <1>4, <1>5, <1>8

-----------------------------------------------------------------------------
(* The list *)

Unrepeated(s) == \A i, j \in 1 .. Len(s) : s[i] = s[j] => i = j

\* Taking out the entry of one log leaves the others in their order.
LEMMA WithoutOne ==
  ASSUME NEW S, NEW list \in Seq(S), Unrepeated(list), NEW l
  PROVE  /\ Without(list, l) \in Seq(S) /\ Unrepeated(Without(list, l))
         /\ \A k \in 1 .. Len(Without(list, l)) : Without(list, l)[k] # l
<1>1. CASE ~\E i \in 1 .. Len(list) : list[i] = l
  BY <1>1 DEF Without
<1>2. CASE \E i \in 1 .. Len(list) : list[i] = l
  <2>0. PICK i \in 1 .. Len(list) :
           /\ list[i] = l
           /\ Without(list, l) = SubSeq(list, 1, i - 1) \o SubSeq(list, i + 1, Len(list))
    BY <1>2 DEF Without
  <2>1. PICK n \in Nat : n = Len(list)
    BY LenProperties
  <2>. i \in 1 .. n
    BY <2>0, <2>1
  <2>2. /\ i - 1 \in Nat /\ 1 \in Nat \ {0} /\ 1 <= i - 1 + 1 /\ i - 1 <= n
        /\ i + 1 \in Nat \ {0} /\ i + 1 <= n + 1 /\ n <= n
        /\ i - 1 + 1 - 1 = i - 1 /\ n + 1 - (i + 1) = n - i
        /\ (i - 1) + (n - i) = n - 1
    OBVIOUS
  <2>3. /\ SubSeq(list, 1, i - 1) \in Seq(S) /\ Len(SubSeq(list, 1, i - 1)) = i - 1
        /\ \A k \in 1 .. i - 1 : SubSeq(list, 1, i - 1)[k] = list[1 + k - 1]
    BY <2>1, <2>2, Slice
  <2>4. /\ SubSeq(list, i + 1, n) \in Seq(S) /\ Len(SubSeq(list, i + 1, n)) = n - i
        /\ \A k \in 1 .. n - i : SubSeq(list, i + 1, n)[k] = list[i + 1 + k - 1]
    BY <2>1, <2>2, Slice
  <2>5. PICK w : w = SubSeq(list, 1, i - 1) \o SubSeq(list, i + 1, n)
    OBVIOUS
  <2>6. /\ w \in Seq(S) /\ Len(w) = n - 1
        /\ \A k \in 1 .. n - 1 :
              w[k] = IF k <= i - 1 THEN SubSeq(list, 1, i - 1)[k]
                                   ELSE SubSeq(list, i + 1, n)[k - (i - 1)]
    <3>1. /\ SubSeq(list, 1, i - 1) \o SubSeq(list, i + 1, n) \in Seq(S)
          /\ Len(SubSeq(list, 1, i - 1) \o SubSeq(list, i + 1, n)) = (i - 1) + (n - i)
          /\ \A k \in 1 .. (i - 1) + (n - i) :
               (SubSeq(list, 1, i - 1) \o SubSeq(list, i + 1, n))[k] =
                  IF k <= i - 1 THEN SubSeq(list, 1, i - 1)[k]
                                ELSE SubSeq(list, i + 1, n)[k - (i - 1)]
      <4>2. PICK x \in Seq(S) : x = SubSeq(list, 1, i - 1) /\ Len(x) = i - 1
        BY <2>3
      <4>3. PICK y \in Seq(S) : y = SubSeq(list, i + 1, n) /\ Len(y) = n - i
        BY <2>4
      <4>4. /\ x \o y \in Seq(S) /\ Len(x \o y) = Len(x) + Len(y)
            /\ \A k \in 1 .. Len(x) + Len(y) :
                  (x \o y)[k] = IF k <= Len(x) THEN x[k] ELSE y[k - Len(x)]
        BY ConcatProperties
      <4>. QED  BY <4>2, <4>3, <4>4
    <3>. QED  BY <2>2, <2>5, <3>1
  <2>7. ASSUME NEW k \in 1 .. n - 1
        PROVE  w[k] = list[IF k < i THEN k ELSE k + 1]
    <3>1. CASE k < i
      <4>1. k \in 1 .. i - 1 /\ k <= i - 1 /\ 1 + k - 1 = k
        BY <3>1
      <4>. QED  BY <2>3, <2>6, <3>1, <4>1
    <3>2. CASE ~(k < i)
      <4>1. k - (i - 1) \in 1 .. n - i /\ ~(k <= i - 1) /\ i + 1 + (k - (i - 1)) - 1 = k + 1
        BY <3>2
      <4>. QED  BY <2>4, <2>6, <3>2, <4>1
    <3>. QED  BY <3>1, <3>2
  <2>8. \A j, k \in 1 .. n : list[j] = list[k] => j = k
    BY <2>1 DEF Unrepeated
  <2>9. \A k \in 1 .. n - 1 : w[k] # l
    <3>. SUFFICES ASSUME NEW k \in 1 .. n - 1, w[k] = l  PROVE FALSE
      OBVIOUS
    <3>1. PICK m \in 1 .. n : m # i /\ w[k] = list[m]
      BY <2>7
    <3>. QED  BY <2>0, <2>8, <3>1
  <2>10. ASSUME NEW j \in 1 .. n - 1, NEW k \in 1 .. n - 1, w[j] = w[k]  PROVE j = k
    <3>1. /\ (IF j < i THEN j ELSE j + 1) \in 1 .. n
          /\ (IF k < i THEN k ELSE k + 1) \in 1 .. n
      OBVIOUS
    <3>2. (IF j < i THEN j ELSE j + 1) = (IF k < i THEN k ELSE k + 1)
      BY <2>7, <2>8, <2>10, <3>1
    <3>. QED  BY <3>2
  <2>11. Without(list, l) = w
    BY <2>0, <2>1, <2>5
  <2>. QED  BY <2>6, <2>9, <2>10, <2>11 DEF Unrepeated
<1>. QED  BY <1>1, <1>2

\* The merged list is one the view may hold.
LEMMA MergedList ==
  ASSUME NEW S, NEW list \in Seq(S), Unrepeated(list), NEW l \in S
  PROVE  /\ mergeLogList(list, l) \in Seq(S)
         /\ Len(mergeLogList(list, l)) <= Limit
         /\ Unrepeated(mergeLogList(list, l))
<1>1. PICK w : w = Without(list, l)
  OBVIOUS
<1>2. /\ w \in Seq(S) /\ \A i, j \in 1 .. Len(w) : w[i] = w[j] => i = j
      /\ \A k \in 1 .. Len(w) : w[k] # l
  BY <1>1, WithoutOne DEF Unrepeated
<1>3. PICK n \in Nat : n = Len(w)
  BY <1>2, LenProperties
<1>4. PICK all : all = <<l>> \o w
  OBVIOUS
<1>5. /\ all \in Seq(S) /\ Len(all) = n + 1
      /\ all[1] = l /\ \A i \in 2 .. n + 1 : all[i] = w[i - 1]
  <2>1. <<l>> \in Seq(S) /\ Len(<<l>>) = 1 /\ <<l>>[1] = l
    OBVIOUS
  <2>2. /\ <<l>> \o w \in Seq(S) /\ Len(<<l>> \o w) = 1 + n
        /\ \A i \in 1 .. 1 + n : (<<l>> \o w)[i] = IF i <= 1 THEN <<l>>[i] ELSE w[i - 1]
    BY <1>2, <1>3, <2>1, ConcatProperties
  <2>3. 1 \in 1 .. 1 + n /\ 1 + n = n + 1
        /\ \A i \in 2 .. n + 1 : i \in 1 .. 1 + n /\ ~(i <= 1)
    OBVIOUS
  <2>. QED  BY <1>4, <2>1, <2>2, <2>3
<1>6. ASSUME NEW i \in 1 .. n + 1, NEW j \in 1 .. n + 1, all[i] = all[j]  PROVE i = j
  <2>1. \A k \in 2 .. n + 1 : k - 1 \in 1 .. n
    OBVIOUS
  <2>2. (i = 1 \/ i \in 2 .. n + 1) /\ (j = 1 \/ j \in 2 .. n + 1)
    OBVIOUS
  <2>3. \A k \in 2 .. n + 1 : all[k] # l
    BY <1>2, <1>3, <1>5, <2>1
  <2>4. CASE i \in 2 .. n + 1 /\ j \in 2 .. n + 1
    <3>1. i - 1 = j - 1
      BY <1>2, <1>3, <1>5, <1>6, <2>1, <2>4
    <3>. QED  BY <3>1
  <2>. QED  BY <1>5, <1>6, <2>2, <2>3, <2>4
<1>7. PICK m \in Nat : m = IF n + 1 < Limit THEN n + 1 ELSE Limit
  BY ViewConstants
<1>8. m <= n + 1 /\ m <= Limit /\ 1 \in Nat \ {0} /\ 1 <= m + 1 /\ m + 1 - 1 = m
      /\ \A i \in 1 .. m : 1 + i - 1 = i /\ i \in 1 .. n + 1
  BY <1>7, ViewConstants
<1>9. /\ SubSeq(all, 1, m) \in Seq(S) /\ Len(SubSeq(all, 1, m)) = m
      /\ \A i \in 1 .. m : SubSeq(all, 1, m)[i] = all[i]
  <2>1. m <= Len(all)
    BY <1>5, <1>8
  <2>2. /\ SubSeq(all, 1, m) \in Seq(S) /\ Len(SubSeq(all, 1, m)) = m + 1 - 1
        /\ \A i \in 1 .. m + 1 - 1 : SubSeq(all, 1, m)[i] = all[1 + i - 1]
    BY <1>5, <1>8, <2>1, Slice
  <2>. QED  BY <1>8, <2>2
<1>10. mergeLogList(list, l) = SubSeq(all, 1, m)
  BY <1>1, <1>4, <1>5, <1>7 DEF mergeLogList, AtMost
<1>. QED  BY <1>6, <1>8, <1>9, <1>10 DEF Unrepeated

\* The list a fetch brings.
LEMMA NewestList ==
  ASSUME NEW n \in Nat, NEW top \in Nat, n <= top
  PROVE  /\ Newest(n) \in Seq(1 .. top) /\ Len(Newest(n)) <= Limit
         /\ Unrepeated(Newest(n))
<1>1. PICK m \in Nat : m = IF n < Limit THEN n ELSE Limit
  BY ViewConstants
<1>2. m <= n /\ m <= Limit /\ \A i \in 1 .. m : n + 1 - i \in 1 .. top
  BY <1>1, ViewConstants
<1>3. Newest(n) = [i \in 1 .. m |-> n + 1 - i]
  BY <1>1 DEF Newest
<1>4. Newest(n) \in Seq(1 .. top) /\ Len(Newest(n)) = m
  BY <1>2, <1>3
<1>5. \A i, j \in 1 .. m : n + 1 - i = n + 1 - j => i = j
  OBVIOUS
<1>. QED  BY <1>2, <1>3, <1>4, <1>5 DEF Unrepeated

-----------------------------------------------------------------------------
(* The view *)

\* What ViewTypeOK says beyond the hub.
ListOK ==
    /\ Unrepeated(cache)
    /\ source \in Streams \cup {NoStream}
    /\ cache \in Seq(Stored) /\ Len(cache) <= Limit
    /\ loaded \in BOOLEAN /\ updating \in BOOLEAN /\ failed \in BOOLEAN
    /\ fetch \in [phase : {"idle", "asked", "read"}, upTo : 0 .. stored]
    /\ updates \in Seq(Stored)
    /\ breaks \in 0 .. MaxBreaks /\ failures \in 0 .. MaxFailures
    /\ unread \subseteq Stored

LEMMA TwoParts == ViewTypeOK <=> HubTypeOK /\ ListOK
BY DEF ViewTypeOK, ListOK, Unrepeated, Stored

LEMMA Init_List == Init => ListOK /\ AnswerIsNotOlder
<1>. SUFFICES ASSUME Init  PROVE ListOK /\ AnswerIsNotOlder
  OBVIOUS
<1>1. /\ 0 \in 0 .. MaxBreaks /\ 0 \in 0 .. MaxFailures /\ 0 <= Limit
  BY ViewConstants
<1>2. fetch = [phase |-> "asked", upTo |-> 0] /\ 0 \in 0 .. stored
  BY DEF Init, HubInit, Asked
<1>3. <<>> \in Seq(Stored) /\ Len(<<>>) = 0
  BY EmptySeq
<1>. QED
  <2>1. /\ source = NoStream /\ cache = <<>> /\ loaded = FALSE /\ updates = <<>>
        /\ updating = FALSE /\ failed = FALSE /\ breaks = 0 /\ failures = 0
        /\ unread = {}
    BY DEF Init
  <2>2. Unrepeated(<<>>)
    BY <1>3 DEF Unrepeated
  <2>3. /\ fetch \in [phase : {"idle", "asked", "read"}, upTo : 0 .. stored]
        /\ fetch.phase # "read"
    BY <1>2
  <2>. QED  BY <1>1, <1>3, <2>1, <2>2, <2>3 DEF ListOK, AnswerIsNotOlder

\* The list stays while the store may grow.
LEMMA ListKept ==
  ASSUME HubInv, ListOK, AnswerIsNotOlder,
         stored' = stored \/ stored' = stored + 1,
         UNCHANGED <<cache, loaded, fetch, failed, updates>>,
         source' \in Streams \cup {NoStream}, updating' \in BOOLEAN,
         unread' \subseteq Stored,
         breaks' \in 0 .. MaxBreaks, failures' \in 0 .. MaxFailures
  PROVE  ListOK' /\ AnswerIsNotOlder'
<1>1. stored \in Nat
  BY HubFacts
<1>2. Seq(Stored) \subseteq Seq(Stored)'
  BY <1>1, SeqGrows DEF Stored
<1>3. 0 .. stored \subseteq 0 .. stored'
  BY <1>1
<1>4. [phase : {"idle", "asked", "read"}, upTo : 0 .. stored]
        \subseteq [phase : {"idle", "asked", "read"}, upTo : 0 .. stored']
  BY <1>3
<1>5. Stored \subseteq Stored'
  BY <1>1 DEF Stored
<1>. QED  BY <1>2, <1>4, <1>5 DEF ListOK, Unrepeated, AnswerIsNotOlder

LEMMA Backend_List ==
  ASSUME HubInv, ListOK, AnswerIsNotOlder, Backend, UNCHANGED viewVars
  PROVE  ListOK' /\ AnswerIsNotOlder'
<1>1. stored' = stored \/ stored' = stored + 1
  BY DEF Backend, AppendLog, AppendUnreported, Publish, Serve, ForwardLog, StreamEnds, NoticeGone,
         ContextDone, Returns, Recycle, CloseHub, Restart, storeSide
<1>. QED  BY <1>1, ListKept DEF viewVars, query, ListOK

\* The stream changes, the list does not.
LEMMA Stream_List ==
  ASSUME HubInv, ListOK, AnswerIsNotOlder,
         (\E s \in Streams : OpenStream(s)) \/ StreamOver \/ StreamBreaks
  PROVE  ListOK' /\ AnswerIsNotOlder'
<1>1. /\ UNCHANGED <<stored, cache, loaded, fetch, failed, updates, updating, failures>>
      /\ source' \in Streams \cup {NoStream}
      /\ breaks' = breaks \/ (breaks < MaxBreaks /\ breaks' = breaks + 1)
  BY DEF OpenStream, Subscribe, StreamOver, StreamBreaks, storeSide, query
<1>2. breaks \in 0 .. MaxBreaks /\ MaxBreaks \in Nat
  BY ViewConstants DEF ListOK
<1>3. breaks' \in 0 .. MaxBreaks
  BY <1>1, <1>2
<1>4. unread' \subseteq Stored
  <2>1. stored \in Nat /\ fetch.upTo \in Nat /\ unread \subseteq 1 .. stored
    BY HubFacts DEF ListOK, Stored
  <2>2. fetch.upTo + 1 .. stored \subseteq 1 .. stored
    BY <2>1
  <2>3. unread' \in {unread, {}, fetch.upTo + 1 .. stored}
    BY DEF OpenStream, StreamOver, StreamBreaks
  <2>. QED  BY <2>1, <2>2, <2>3 DEF Stored
<1>. QED  BY <1>1, <1>3, <1>4, ListKept DEF ListOK

\* A new fetch has no answer yet.
LEMMA Asks ==
  ASSUME HubInv, ListOK, stored' = stored, fetch' = Asked \/ fetch' = Idle,
         cache' \in Seq(Stored), Len(cache') <= Limit, Unrepeated(cache'),
         loaded' \in BOOLEAN, updating' \in BOOLEAN, failed' \in BOOLEAN,
         updates' \in Seq(Stored), UNCHANGED <<source, breaks, unread>>,
         failures' \in 0 .. MaxFailures
  PROVE  ListOK' /\ AnswerIsNotOlder'
<1>1. fetch' \in [phase : {"idle", "asked", "read"}, upTo : 0 .. stored']
      /\ fetch'.phase # "read"
  BY HubFacts DEF Asked, Idle
<1>. QED  BY <1>1 DEF ListOK, AnswerIsNotOlder, Stored, Unrepeated

LEMMA Receive_List ==
  ASSUME HubInv, ListOK, AnswerIsNotOlder, ReceiveConnected \/ ReceiveLog
  PROVE  ListOK' /\ AnswerIsNotOlder'
<1>1. CASE ReceiveConnected
  <2>1. /\ UNCHANGED <<stored, source, cache, loaded, failed, failures, updates, breaks,
                       unread>>
        /\ fetch' = fetch \/ fetch' = Asked
        /\ updating' \in BOOLEAN
    BY <1>1 DEF ReceiveConnected, Takes, storeSide, ListOK
  <2>2. CASE fetch' = fetch
    BY <2>1, <2>2, ListKept DEF ListOK
  <2>3. CASE fetch' = Asked
    BY <2>1, <2>3, Asks DEF ListOK
  <2>. QED  BY <2>1, <2>2, <2>3
<1>2. CASE ReceiveLog
  <2>1. /\ source \in Streams /\ wire[source] # <<>> /\ Head(wire[source]) # 0
        /\ updates' = Append(updates, Head(wire[source]))
        /\ UNCHANGED <<stored, source, cache, loaded, fetch, failed, updating, breaks,
                       failures, unread>>
    BY <1>2 DEF ReceiveLog, Takes, storeSide, query, Connected, ListOK
  <2>2. Head(wire[source]) \in Stored
    <3>1. Head(wire[source]) \in 0 .. stored
      BY <2>1, HubFacts, HeadTailProperties
    <3>. QED  BY <2>1, <3>1 DEF Stored
  <2>3. updates' \in Seq(Stored)
    BY <2>1, <2>2, AppendProperties DEF ListOK
  <2>. QED  BY <2>1, <2>3 DEF ListOK, AnswerIsNotOlder, Stored, Unrepeated
<1>. QED  BY <1>1, <1>2

LEMMA ApplyLog_List ==
  ASSUME HubInv, ListOK, AnswerIsNotOlder, ApplyLog
  PROVE  ListOK' /\ AnswerIsNotOlder'
<1>1. /\ updates # <<>> /\ updates' = Tail(updates)
      /\ cache' = IF loaded THEN mergeLogList(cache, Head(updates)) ELSE cache
      /\ fetch' = Asked /\ updating' = TRUE
      /\ UNCHANGED <<stored, source, loaded, failed, breaks, failures, unread>>
  BY DEF ApplyLog, hubVars, storeSide
<1>2. Head(updates) \in Stored /\ Tail(updates) \in Seq(Stored)
  BY <1>1, HeadTailProperties DEF ListOK
<1>3. /\ cache' \in Seq(Stored) /\ Len(cache') <= Limit
      /\ Unrepeated(cache')
  <2>1. /\ cache \in Seq(Stored) /\ Len(cache) <= Limit /\ Unrepeated(cache)
    BY DEF ListOK
  <2>2. LET new == mergeLogList(cache, Head(updates))
        IN  new \in Seq(Stored) /\ Len(new) <= Limit /\ Unrepeated(new)
    BY <1>2, <2>1, MergedList
  <2>. QED  BY <1>1, <2>1, <2>2
<1>. QED  BY <1>1, <1>2, <1>3, Asks DEF ListOK

\* The answer is the list as the store had it, which nothing in the list is
\* younger than.
LEMMA ServerReads_List ==
  ASSUME HubInv, ListOK, ServerReads  PROVE ListOK' /\ AnswerIsNotOlder'
<1>1. /\ fetch' = [phase |-> "read", upTo |-> stored]
      /\ unread' = {}
      /\ UNCHANGED <<stored, source, cache, loaded, failed, updates, updating, breaks,
                     failures>>
  BY DEF ServerReads, hubVars, storeSide
<1>2. stored \in Nat /\ \A i \in 1 .. Len(cache) : cache[i] \in 1 .. stored
  <2>1. cache \in Seq(Stored)
    BY DEF ListOK
  <2>2. cache \in [1 .. Len(cache) -> Stored]
    BY <2>1, LenProperties
  <2>. QED  BY <2>2, HubFacts DEF Stored
<1>3. stored \in 0 .. stored /\ \A i \in 1 .. Len(cache) : cache[i] <= stored
  BY <1>2
<1>. QED  BY <1>1, <1>3 DEF ListOK, AnswerIsNotOlder, Stored, Unrepeated

LEMMA FetchDone_List ==
  ASSUME HubInv, ListOK, FetchDone  PROVE ListOK' /\ AnswerIsNotOlder'
<1>1. /\ cache' = Newest(fetch.upTo) /\ loaded' = TRUE /\ fetch' = Idle
      /\ updating' = FALSE /\ failed' = FALSE
      /\ UNCHANGED <<stored, source, updates, breaks, failures, unread>>
  BY DEF FetchDone, hubVars, storeSide
<1>2. stored \in Nat /\ fetch.upTo \in Nat /\ fetch.upTo <= stored
  BY HubFacts DEF ListOK
<1>3. cache' \in Seq(Stored) /\ Len(cache') <= Limit /\ Unrepeated(cache')
  BY <1>1, <1>2, NewestList DEF Stored
<1>. QED  BY <1>1, <1>3, Asks DEF ListOK

LEMMA Query_List ==
  ASSUME HubInv, ListOK, FetchFails \/ Poll  PROVE ListOK' /\ AnswerIsNotOlder'
<1>1. /\ fetch' = Asked \/ fetch' = Idle
      /\ UNCHANGED <<stored, source, cache, loaded, updates, breaks, unread>>
      /\ failed' = TRUE \/ failed' = failed
      /\ updating' = FALSE \/ updating' = updating
      /\ failures' = failures \/ (failures < MaxFailures /\ failures' = failures + 1)
  BY DEF FetchFails, Poll, hubVars, storeSide
<1>2. failures \in 0 .. MaxFailures /\ MaxFailures \in Nat
  BY ViewConstants DEF ListOK
<1>3. failures' \in 0 .. MaxFailures
  BY <1>1, <1>2
<1>. QED  BY <1>1, <1>3, Asks DEF ListOK

LEMMA Next_Inv == ASSUME ViewInv, [Next]_vars PROVE ViewInv'
<1>. /\ HubInv /\ ListOK /\ AnswerIsNotOlder
  BY TwoParts DEF ViewInv
<1>. SUFFICES HubInv' /\ ListOK' /\ AnswerIsNotOlder'
  BY DEF ViewInv, HubInv, ListOK, ViewTypeOK, Unrepeated, Stored
<1>1. CASE Backend /\ UNCHANGED viewVars
  <2>1. HubInv'
    BY <1>1, Backend_Inv
  <2>2. ListOK' /\ AnswerIsNotOlder'
    BY <1>1, Backend_List
  <2>. QED  BY <2>1, <2>2
<1>2. CASE View
  <2>1. HubInv'
    BY <1>2, View_Inv DEF ListOK
  <2>2. ListOK' /\ AnswerIsNotOlder'
    BY <1>2, Stream_List, Receive_List, ApplyLog_List, ServerReads_List,
       FetchDone_List, Query_List DEF View
  <2>. QED  BY <2>1, <2>2
<1>3. CASE UNCHANGED vars
  <2>1. HubInv'
    BY <1>3, Still_Inv DEF vars
  <2>2. ListOK' /\ AnswerIsNotOlder'
    BY <1>3 DEF vars, hubVars, storeSide, viewVars, query, ListOK, AnswerIsNotOlder,
                Stored, Unrepeated
  <2>. QED  BY <2>1, <2>2
<1>. QED  BY <1>1, <1>2, <1>3 DEF Next

-----------------------------------------------------------------------------
(* The list and the store *)

Among(l, s) == \E i \in 1 .. Len(s) : s[i] = l

\* The log has yet to reach the list: its request has not published it, it is on
\* its way to the browser, or the promise chain has not come to it.  Or it waits
\* for the next poll: nobody will publish it, or it was published between the
\* read of the first list and the connection.
Coming(l) ==
    \/ l \in unpublished
    \/ Among(l, channel[source])
    \/ Among(l, wire[source])
    \/ Among(l, updates)
    \/ l \in unreported \cup unread

\* A connection is announced that will make the list be fetched anew.
Refetches == loaded /\ Among(Connected, wire[source])

\* A list with the first n logs will be fetched again or lacks only logs that
\* are coming, as long as the hub has its stream.
NothingLost(n) ==
    source \in subscribers => Refetches \/ \A l \in n + 1 .. stored : Coming(l)

Settled == fetch.phase = "idle" /\ ~failed

ListIsComplete ==
    /\ fetch.phase = "read" => NothingLost(fetch.upTo)
    /\ Settled => \E n \in 0 .. stored : cache = Newest(n) /\ NothingLost(n)

CurrentInv ==
    /\ closed => subscribers = {}
    /\ Settled => loaded
    /\ ListIsComplete

LEMMA AmongMore ==
  ASSUME NEW S, NEW s \in Seq(S), NEW x \in S
  PROVE  /\ Among(x, Append(s, x))
         /\ \A l : Among(l, s) => Among(l, Append(s, x))
<1>1. /\ Len(s) \in Nat /\ Len(Append(s, x)) = Len(s) + 1
      /\ \A i \in 1 .. Len(s) : Append(s, x)[i] = s[i]
      /\ Append(s, x)[Len(s) + 1] = x
  BY AppendProperties, LenProperties
<1>. QED  BY <1>1 DEF Among

LEMMA AmongRest ==
  ASSUME NEW S, NEW s \in Seq(S), s # <<>>, NEW l, Among(l, s)
  PROVE  l = Head(s) \/ Among(l, Tail(s))
<1>1. PICK i \in 1 .. Len(s) : s[i] = l
  BY DEF Among
<1>2. /\ Len(s) \in Nat \ {0} /\ Head(s) = s[1] /\ Len(Tail(s)) = Len(s) - 1
      /\ \A k \in 1 .. Len(Tail(s)) : Tail(s)[k] = s[k + 1]
  BY HeadTailProperties, LenProperties, EmptySeq
<1>3. CASE i # 1
  <2>1. i - 1 \in 1 .. Len(Tail(s)) /\ Tail(s)[i - 1] = s[(i - 1) + 1]
    BY <1>2, <1>3
  <2>. QED  BY <1>1, <2>1 DEF Among
<1>. QED  BY <1>1, <1>2, <1>3

LEMMA StreamFacts ==
  ASSUME ViewInv
  PROVE  /\ stored \in Nat /\ fetch.upTo \in 0 .. stored
         /\ subscribers \subseteq Streams
         /\ channel \in [Streams -> Seq(Stored)]
         /\ wire \in [Streams -> Seq(0 .. stored)]
         /\ updates \in Seq(Stored)
         /\ NoStream \notin Streams
BY HubFacts, ViewConstants DEF ViewInv, ViewTypeOK, HubInv, HubTypeOK, HubShape, Stored

\* A step after which the logs that were coming still are, and new ones too.
LEMMA StillComplete ==
  ASSUME ViewInv, CurrentInv, closed' => subscribers' = {},
         stored' \in Nat, stored <= stored',
         UNCHANGED <<cache, loaded, fetch, failed>>,
         source' \in subscribers' =>
           \/ Refetches'
           \/ /\ source \in subscribers /\ ~Refetches
              /\ \A l \in 1 .. stored : Coming(l) => Coming(l)'
              /\ \A l \in Nat : l \in stored + 1 .. stored' => Coming(l)'
  PROVE  CurrentInv'
<1>1. stored \in Nat /\ fetch.upTo \in 0 .. stored
  BY StreamFacts
<1>2. ASSUME NEW n \in 0 .. stored, NothingLost(n)  PROVE NothingLost(n)'
  <2>. SUFFICES ASSUME source' \in subscribers', ~Refetches',
                       NEW l \in Nat, l \in n + 1 .. stored'
                PROVE  Coming(l)'
    BY DEF NothingLost
  <2>1. CASE l <= stored
    BY <1>1, <1>2, <2>1 DEF NothingLost
  <2>2. CASE l > stored
    BY <1>1, <2>2
  <2>. QED  BY <1>1, <2>1, <2>2
<1>3. 0 .. stored \subseteq 0 .. stored'
  BY <1>1
<1>4. fetch.phase = "read" => NothingLost(fetch.upTo)'
  BY <1>1, <1>2 DEF CurrentInv, ListIsComplete
<1>5. ASSUME Settled
      PROVE  \E n \in 0 .. stored' : cache' = Newest(n) /\ NothingLost(n)'
  <2>1. PICK n \in 0 .. stored : cache = Newest(n) /\ NothingLost(n)
    BY <1>5 DEF CurrentInv, ListIsComplete
  <2>. QED  BY <1>2, <1>3, <2>1
<1>6. Settled' => Settled /\ loaded'
  BY DEF Settled, CurrentInv
<1>7. ListIsComplete'
  BY <1>4, <1>5, <1>6 DEF ListIsComplete, Newest
<1>. QED  BY <1>6, <1>7 DEF CurrentInv

\* A step that leaves the list waiting for a fetch the server has not read for.
LEMMA AskedIsComplete ==
  ASSUME CurrentInv, fetch'.phase = "asked", UNCHANGED <<closed, subscribers>>
  PROVE  CurrentInv'
BY DEF CurrentInv, ListIsComplete, Settled

\* The request of a log that is stored will publish it, or the list may lack it.
LEMMA AppendLog_Current ==
  ASSUME ViewInv, CurrentInv, AppendLog \/ AppendUnreported, UNCHANGED viewVars
  PROVE  CurrentInv'
<1>1. /\ stored' = stored + 1
      /\ unpublished \subseteq unpublished' /\ unreported \subseteq unreported'
      /\ stored + 1 \in unpublished' \/ stored + 1 \in unreported'
      /\ UNCHANGED <<closed, subscribers, channel, wire>>
      /\ UNCHANGED <<source, cache, loaded, fetch, failed, updates, unread>>
  BY DEF AppendLog, AppendUnreported, hubSide, viewVars, query
<1>2. stored \in Nat
  BY StreamFacts
<1>3. source' \in subscribers' => source \in subscribers
  BY <1>1
<1>4. \A l \in 1 .. stored : Coming(l) => Coming(l)'
  BY <1>1 DEF Coming
<1>5. \A l \in Nat : l \in stored + 1 .. stored' => Coming(l)'
  BY <1>1, <1>2 DEF Coming
<1>6. Refetches => Refetches'
  BY <1>1 DEF Refetches
<1>. QED  BY <1>1, <1>2, <1>3, <1>4, <1>5, <1>6, StillComplete DEF CurrentInv

\* A log that is published goes into the channel, or the hub closes the stream.
LEMMA Publish_Current ==
  ASSUME ViewInv, CurrentInv, NEW p \in unpublished, Publish(p), UNCHANGED viewVars
  PROVE  CurrentInv'
<1>1. /\ unpublished' = unpublished \ {p}
      /\ UNCHANGED <<stored, unreported, closed, wire>>
      /\ UNCHANGED <<source, cache, loaded, fetch, failed, updates, unread>>
  BY DEF Publish, viewVars, query, storeSide
<1>2. stored \in Nat /\ subscribers \subseteq Streams /\ channel \in [Streams -> Seq(Stored)]
  BY StreamFacts
<1>3. Refetches => Refetches'
  BY <1>1 DEF Refetches
<1>4. CASE closed
  <2>1. subscribers' = subscribers /\ subscribers = {}
    BY <1>4 DEF Publish, CurrentInv
  <2>. QED  BY <1>1, <1>2, <2>1, StillComplete
<1>5. CASE ~closed
  <2>1. /\ channel' = [s \in Streams |-> IF s \in subscribers \ Full
                                         THEN Append(channel[s], p) ELSE channel[s]]
        /\ subscribers' = subscribers \ Full
    BY <1>5 DEF Publish, Offer, Buffered
  <2>2. ASSUME source' \in subscribers'
        PROVE  /\ source \in subscribers
               /\ \A l \in 1 .. stored : Coming(l) => Coming(l)'
    <3>1. source \in subscribers \ Full /\ channel'[source] = Append(channel[source], p)
      BY <1>1, <1>2, <2>1, <2>2
    <3>2. p \in Stored /\ channel[source] \in Seq(Stored)
      BY <1>2, <3>1, HubFacts DEF ViewInv
    <3>3. /\ Among(p, channel'[source])
          /\ \A l : Among(l, channel[source]) => Among(l, channel'[source])
      BY <3>1, <3>2, AmongMore
    <3>. QED  BY <1>1, <3>1, <3>3 DEF Coming
  <2>3. stored + 1 .. stored' = {}
    BY <1>1, <1>2
  <2>. QED  BY <1>1, <1>2, <1>3, <1>5, <2>2, <2>3, StillComplete
<1>. QED  BY <1>4, <1>5

\* The handler hands a log on, from the channel to the connection.
LEMMA ForwardLog_Current ==
  ASSUME ViewInv, CurrentInv, NEW s \in Streams, ForwardLog(s), UNCHANGED viewVars
  PROVE  CurrentInv'
<1>1. /\ channel[s] # <<>>
      /\ channel' = [channel EXCEPT ![s] = Tail(@)]
      /\ wire' = [wire EXCEPT ![s] = Append(@, Head(channel[s]))]
      /\ UNCHANGED <<stored, unpublished, unreported, closed, subscribers>>
      /\ UNCHANGED <<source, cache, loaded, fetch, failed, updates, unread>>
  BY DEF ForwardLog, viewVars, query, storeSide
<1>2. /\ stored \in Nat /\ subscribers \subseteq Streams
      /\ channel \in [Streams -> Seq(Stored)] /\ wire \in [Streams -> Seq(0 .. stored)]
  BY StreamFacts
<1>3. CASE source = s
  <2>1. channel'[source] = Tail(channel[source])
        /\ wire'[source] = Append(wire[source], Head(channel[source]))
    BY <1>1, <1>2, <1>3
  <2>2. Head(channel[source]) \in 0 .. stored
    <3>1. Head(channel[source]) \in Stored
      BY <1>1, <1>2, <1>3, HeadTailProperties
    <3>. QED  BY <1>2, <3>1 DEF Stored
  <2>3. /\ Among(Head(channel[source]), wire'[source])
        /\ \A l : Among(l, wire[source]) => Among(l, wire'[source])
    BY <1>2, <1>3, <2>1, <2>2, AmongMore
  <2>4. \A l : Among(l, channel[source]) =>
                 l = Head(channel[source]) \/ Among(l, channel'[source])
    BY <1>1, <1>2, <1>3, <2>1, AmongRest
  <2>5. \A l \in 1 .. stored : Coming(l) => Coming(l)'
    BY <1>1, <2>3, <2>4 DEF Coming
  <2>6. Refetches => Refetches'
    BY <1>1, <2>3 DEF Refetches
  <2>7. stored + 1 .. stored' = {}
    BY <1>1, <1>2
  <2>. QED  BY <1>1, <1>2, <2>5, <2>6, <2>7, StillComplete DEF CurrentInv
<1>4. CASE source # s
  <2>1. source \in subscribers => channel'[source] = channel[source] /\ wire'[source] = wire[source]
    BY <1>1, <1>2, <1>4
  <2>2. source \in subscribers => \A l \in 1 .. stored : Coming(l) => Coming(l)'
    BY <1>1, <2>1 DEF Coming
  <2>3. source \in subscribers => (Refetches => Refetches')
    BY <1>1, <2>1 DEF Refetches
  <2>4. stored + 1 .. stored' = {}
    BY <1>1, <1>2
  <2>. QED  BY <1>1, <1>2, <2>2, <2>3, <2>4, StillComplete DEF CurrentInv
<1>. QED  BY <1>3, <1>4

\* Nothing moves, while the hub may lose streams.
LEMMA Loses_Current ==
  ASSUME ViewInv, CurrentInv, subscribers' \subseteq subscribers,
         closed' => closed \/ subscribers' = {},
         source' \in subscribers' =>
            UNCHANGED <<stored, unpublished, unreported, channel, wire, source, updates,
                        unread>>,
         stored' = stored, UNCHANGED <<cache, loaded, fetch, failed>>
  PROVE  CurrentInv'
<1>1. stored \in Nat /\ stored + 1 .. stored' = {}
  BY StreamFacts
<1>2. source' \in subscribers' =>
         /\ source \in subscribers
         /\ Refetches => Refetches'
         /\ \A l \in 1 .. stored : Coming(l) => Coming(l)'
  BY DEF Refetches, Coming
<1>. QED  BY <1>1, <1>2, StillComplete DEF CurrentInv

LEMMA Backend_Current ==
  ASSUME ViewInv, CurrentInv, Backend, UNCHANGED viewVars
  PROVE  CurrentInv'
<1>1. UNCHANGED <<source, cache, loaded, fetch, failed, updates, unread>>
  BY DEF viewVars, query
<1>2. ASSUME NEW s \in Streams, Returns(s) \/ Recycle(s)  PROVE CurrentInv'
  <2>1. /\ subscribers' \subseteq subscribers
        /\ UNCHANGED <<stored, unpublished, unreported, closed, channel, wire>>
    BY <1>2 DEF Returns, Recycle, storeSide, hubSide
  <2>. QED  BY <1>1, <2>1, Loses_Current
<1>3. ASSUME NEW s \in Streams, Serve(s) \/ NoticeGone(s) \/ Recycle(s)  PROVE CurrentInv'
  BY <1>2, <1>3, ForwardLog_Current DEF Serve, StreamEnds, NoticeGone, ContextDone
<1>4. CASE CloseHub \/ Restart
  <2>1. subscribers' = {} /\ stored' = stored
    BY <1>4 DEF CloseHub, Restart, storeSide
  <2>. QED  BY <1>1, <2>1, Loses_Current
<1>. QED  BY <1>3, <1>4, AppendLog_Current, Publish_Current DEF Backend

\* The first event of a stream is "connected", which a fetch follows when there is
\* a list; what a first list under way has not read is set down.
LEMMA OpenStream_Current ==
  ASSUME ViewInv, CurrentInv, NEW s \in Streams, OpenStream(s)
  PROVE  CurrentInv'
<1>1. /\ source' = s /\ wire' = [wire EXCEPT ![s] = <<Connected>>]
      /\ subscribers' = IF closed THEN subscribers ELSE subscribers \cup {s}
      /\ unread' = IF ~loaded /\ fetch.phase = "read"
                   THEN fetch.upTo + 1 .. stored ELSE {}
      /\ UNCHANGED <<stored, closed, cache, loaded, fetch, failed>>
  BY DEF OpenStream, Subscribe, storeSide, query
<1>2. wire'[source'] = <<Connected>>
  BY <1>1, StreamFacts
<1>3. loaded => Refetches'
  BY <1>1, <1>2 DEF Refetches, Among
<1>4. CASE loaded
  BY <1>1, <1>3, <1>4, StreamFacts, StillComplete DEF CurrentInv
<1>5. CASE ~loaded
  <2>1. ~Settled' /\ (closed' => subscribers' = {})
    BY <1>1, <1>5 DEF CurrentInv, Settled
  <2>2. fetch'.phase = "read" => \A l \in fetch'.upTo + 1 .. stored' : Coming(l)'
    BY <1>1, <1>5 DEF Coming
  <2>. QED  BY <2>1, <2>2 DEF CurrentInv, ListIsComplete, NothingLost
<1>. QED  BY <1>4, <1>5

\* Without a stream there is nothing to say.
LEMMA NoStream_Current ==
  ASSUME ViewInv, CurrentInv, StreamOver \/ StreamBreaks
  PROVE  CurrentInv'
<1>1. /\ source' = NoStream
      /\ UNCHANGED <<stored, closed, subscribers, cache, loaded, fetch, failed>>
  BY DEF StreamOver, StreamBreaks, storeSide, hubSide, query
<1>2. source' \notin subscribers'
  BY <1>1, StreamFacts
<1>. QED  BY <1>1, <1>2, Loses_Current

\* With no list yet, the announced connection is as good as none.
LEMMA ReceiveConnected_Current ==
  ASSUME ViewInv, CurrentInv, ReceiveConnected
  PROVE  CurrentInv'
<1>1. /\ source # NoStream /\ wire[source] # <<>> /\ Head(wire[source]) = Connected
      /\ wire' = [wire EXCEPT ![source] = Tail(@)]
      /\ UNCHANGED <<stored, unpublished, unreported, closed, subscribers, channel>>
      /\ UNCHANGED <<source, cache, loaded, failed, updates, unread>>
      /\ fetch' = Asked \/ (~loaded /\ fetch' = fetch)
  BY DEF ReceiveConnected, FirstFetch, Takes, storeSide, hubSide
<1>2. /\ stored \in Nat /\ source \in Streams /\ wire \in [Streams -> Seq(0 .. stored)]
  BY <1>1, StreamFacts DEF ViewInv, ViewTypeOK
<1>3. wire[source] \in Seq(0 .. stored) /\ wire'[source] = Tail(wire[source])
  BY <1>1, <1>2
<1>4. \A l : Among(l, wire[source]) => l = Connected \/ Among(l, wire'[source])
  BY <1>1, <1>3, AmongRest
<1>5. \A l \in 1 .. stored : Coming(l) => Coming(l)'
  BY <1>1, <1>2, <1>4 DEF Coming, Connected
<1>6. stored + 1 .. stored' = {}
  BY <1>1, <1>2
<1>7. CASE fetch' = Asked
  BY <1>1, <1>7, AskedIsComplete DEF Asked
<1>8. CASE ~loaded /\ fetch' = fetch
  BY <1>1, <1>2, <1>5, <1>6, <1>8, StillComplete DEF CurrentInv, Refetches
<1>. QED  BY <1>1, <1>7, <1>8

\* A log taken off the connection waits in the promise chain.
LEMMA ReceiveLog_Current ==
  ASSUME ViewInv, CurrentInv, ReceiveLog
  PROVE  CurrentInv'
<1>1. /\ source # NoStream /\ wire[source] # <<>> /\ Head(wire[source]) # Connected
      /\ wire' = [wire EXCEPT ![source] = Tail(@)]
      /\ updates' = Append(updates, Head(wire[source]))
      /\ UNCHANGED <<stored, unpublished, unreported, closed, subscribers, channel>>
      /\ UNCHANGED <<source, cache, loaded, fetch, failed, unread>>
  BY DEF ReceiveLog, Takes, storeSide, hubSide, query
<1>2. /\ stored \in Nat /\ source \in Streams
      /\ wire \in [Streams -> Seq(0 .. stored)] /\ updates \in Seq(Stored)
  BY <1>1, StreamFacts DEF ViewInv, ViewTypeOK
<1>3. wire[source] \in Seq(0 .. stored) /\ wire'[source] = Tail(wire[source])
  BY <1>1, <1>2
<1>4. Head(wire[source]) \in Stored
  <2>1. Head(wire[source]) \in 0 .. stored
    BY <1>1, <1>3, HeadTailProperties
  <2>. QED  BY <1>1, <1>2, <2>1 DEF Stored, Connected
<1>5. \A l : Among(l, wire[source]) => l = Head(wire[source]) \/ Among(l, wire'[source])
  BY <1>1, <1>3, AmongRest
<1>6. /\ Among(Head(wire[source]), updates')
      /\ \A l : Among(l, updates) => Among(l, updates')
  BY <1>1, <1>2, <1>4, AmongMore
<1>7. \A l \in 1 .. stored : Coming(l) => Coming(l)'
  BY <1>1, <1>5, <1>6 DEF Coming
<1>8. Refetches => Refetches'
  BY <1>1, <1>5 DEF Refetches
<1>9. stored + 1 .. stored' = {}
  BY <1>1, <1>2
<1>. QED  BY <1>1, <1>2, <1>7, <1>8, <1>9, StillComplete DEF CurrentInv

\* What the server reads is complete, and the list is what it read.
LEMMA ServerReads_Current ==
  ASSUME ViewInv, CurrentInv, ServerReads
  PROVE  CurrentInv'
<1>1. /\ fetch' = [phase |-> "read", upTo |-> stored]
      /\ UNCHANGED <<stored, closed, subscribers>>
  BY DEF ServerReads, hubVars, storeSide, hubSide
<1>2. fetch'.phase = "read" /\ fetch'.upTo = stored
  BY <1>1
<1>3. fetch'.upTo + 1 .. stored' = {}
  BY <1>1, <1>2, StreamFacts
<1>4. NothingLost(fetch.upTo)'
  BY <1>3 DEF NothingLost
<1>. QED  BY <1>1, <1>2, <1>4 DEF CurrentInv, ListIsComplete, Settled

LEMMA FetchDone_Current ==
  ASSUME ViewInv, CurrentInv, FetchDone
  PROVE  CurrentInv'
<1>1. /\ fetch.phase = "read" /\ cache' = Newest(fetch.upTo) /\ fetch' = Idle
      /\ loaded' = TRUE
      /\ UNCHANGED <<stored, unpublished, unreported, closed, subscribers, channel, wire>>
      /\ UNCHANGED <<source, updates, unread>>
  BY DEF FetchDone, hubVars, storeSide, hubSide
<1>2. PICK n \in 0 .. stored : n = fetch.upTo
  BY StreamFacts
<1>3. NothingLost(n)
  BY <1>1, <1>2 DEF CurrentInv, ListIsComplete
<1>4. NothingLost(n) => NothingLost(n)'
  BY <1>1 DEF NothingLost, Refetches, Coming
<1>5. fetch'.phase = "idle" /\ cache' = Newest(n)
  BY <1>1, <1>2 DEF Idle
<1>6. ListIsComplete'
  BY <1>1, <1>3, <1>4, <1>5 DEF ListIsComplete, Newest
<1>. QED  BY <1>1, <1>6 DEF CurrentInv

LEMMA FetchFails_Current ==
  ASSUME ViewInv, CurrentInv, FetchFails
  PROVE  CurrentInv'
<1>1. /\ fetch'.phase = "asked" \/ (fetch'.phase = "idle" /\ failed' = TRUE)
      /\ UNCHANGED <<closed, subscribers>>
  BY DEF FetchFails, hubVars, hubSide, Asked, Idle
<1>. QED  BY <1>1 DEF CurrentInv, ListIsComplete, Settled

LEMMA Current_Next == ASSUME ViewInv, CurrentInv, [Next]_vars PROVE CurrentInv'
<1>1. CASE Backend /\ UNCHANGED viewVars
  BY <1>1, Backend_Current
<1>2. CASE ApplyLog \/ Poll
  <2>1. fetch'.phase = "asked" /\ UNCHANGED <<closed, subscribers>>
    BY <1>2 DEF ApplyLog, Poll, hubVars, hubSide, Asked
  <2>. QED  BY <2>1, AskedIsComplete
<1>3. CASE View
  BY <1>2, <1>3, OpenStream_Current, NoStream_Current, ReceiveLog_Current,
     ReceiveConnected_Current,
     ServerReads_Current, FetchDone_Current, FetchFails_Current DEF View
<1>4. CASE UNCHANGED vars
  BY <1>4, Loses_Current DEF vars, hubVars, storeSide, hubSide, viewVars, query, CurrentInv
<1>. QED  BY <1>1, <1>3, <1>4 DEF Next

-----------------------------------------------------------------------------
(* Theorems *)

\* What the handler has written and what the hub still holds for it is a stretch
\* of what this process published, and an answer under way is not older than the
\* list.
THEOREM ViewInvariant == Spec => []ViewInv
<1>1. Init => ViewInv
  <2>. SUFFICES ASSUME Init  PROVE ViewInv
    OBVIOUS
  <2>1. HubInv
    BY HubInit_Inv DEF Init
  <2>2. ListOK /\ AnswerIsNotOlder
    BY Init_List
  <2>. QED  BY <2>1, <2>2, TwoParts DEF ViewInv, HubInv
<1>2. ViewInv /\ [Next]_vars => ViewInv'
  BY Next_Inv
<1>. QED  BY <1>1, <1>2, PTL DEF Spec

\* The hub closes no channel twice and sends to none it has closed, and a list has
\* at most Limit logs, each once, all of them stored (log_hub.go:62, logs.ts:3).
THEOREM ViewTypes == Spec => []ViewTypeOK
<1>1. ViewInv => ViewTypeOK
  BY DEF ViewInv
<1>. QED  BY <1>1, ViewInvariant, PTL

\* A stream carries what was published since it subscribed, in that order and
\* without a gap; only the end may be missing, when it was cut off (log_hub.go:62,
\* handler.go, the stream's loop).
THEOREM StreamsHaveNoGaps == Spec => []NoGaps
<1>1. ViewInv => NoGaps
  BY NothingIsMissing DEF ViewInv
<1>. QED  BY <1>1, ViewInvariant, PTL

\* No fetch takes a log off the list that was there when it was asked for, or
\* that was merged while it was under way (useLogs.ts:48).
THEOREM FetchNeverOlder == Spec => FetchIsNotOlder
<1>. DEFINE A == FetchDone => \A i \in 1 .. Len(cache) : cache[i] <= fetch.upTo
<1>1. ViewInv /\ [Next]_vars => [A]_vars
  BY DEF ViewInv, AnswerIsNotOlder, FetchDone
<1>2. FetchIsNotOlder <=> [][A]_vars
  BY DEF FetchIsNotOlder
<1>. HIDE DEF A
<1>. QED  BY <1>1, <1>2, ViewInvariant, PTL DEF Spec

\* Whenever the hub has the list's stream, the last fetch did not fail, and nothing
\* is under way between the store and the list, the list is what the store answers
\* for it, but for newest logs that were stored under a reported error or between
\* the read of a first list and the connection: no log stored before the
\* connection, published during a fetch or lost by a process that died is missing
\* (log_hub.go:62, useLogs.ts:42, useLogs.ts:50-54).
THEOREM QuietIsCurrent == Spec => []QuietListIsCurrent
<1>1. Init => CurrentInv
  BY DEF Init, HubInit, CurrentInv, ListIsComplete, Settled, Asked
<1>2. ViewInv /\ CurrentInv /\ [Next]_vars => CurrentInv'
  BY Current_Next
<1>3. Spec => []CurrentInv
  BY <1>1, <1>2, ViewInvariant, PTL DEF Spec
<1>4. ViewInv /\ CurrentInv => QuietListIsCurrent
  <2>. SUFFICES ASSUME ViewInv, CurrentInv, ~failed, Quiet
                PROVE  \E n \in 0 .. stored : /\ cache = Newest(n)
                                             /\ n + 1 .. stored \subseteq unreported \cup unread
    BY DEF QuietListIsCurrent
  <2>1. PICK n \in 0 .. stored : cache = Newest(n) /\ NothingLost(n)
    BY DEF Quiet, Idle, CurrentInv, ListIsComplete, Settled
  <2>2. \A l : ~Among(l, <<>>)
    BY EmptySeq DEF Among
  <2>3. ~Refetches /\ \A l : Coming(l) => l \in unreported \cup unread
    BY <2>2 DEF Quiet, Refetches, Coming
  <2>4. n + 1 .. stored \subseteq unreported \cup unread
    BY <2>1, <2>3 DEF NothingLost, Quiet
  <2>. QED  BY <2>1, <2>4
<1>. QED  BY <1>3, <1>4, ViewInvariant, PTL
=============================================================================
