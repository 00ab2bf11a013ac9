----------------------------- MODULE MarketFeed -----------------------------
(***************************************************************************)
(* The broker's stream of one symbol, shared by all users:                 *)
(* SharedMarketDataService of backend/shared/market_data_service.py.  Its  *)
(* thread connects, blocks while the stream is open and connects again     *)
(* three seconds after it has closed, until it is stopped by another       *)
(* thread, which disconnects the streamer it finds.                        *)
(*                                                                         *)
(* connect() belongs to the broker's library.  The service's loop takes it *)
(* to return when the stream closes, and so does this module.              *)
(***************************************************************************)
EXTENDS Integers

CONSTANTS
  Feeds,      \* SharedMarketDataService objects
  MaxDrops    \* bound: times the broker closes a stream

ASSUME FeedAssumption == MaxDrops \in Nat

NoFeed == "no feed"

VARIABLES
  current,    \* the service in _instances
  feed,       \* for each service [pc, stop, streamer]
  streams,    \* services whose stream is open at the broker
  drops

feedVars == <<current, feed, streams, drops>>

FeedInit ==
  /\ current = NoFeed
  /\ feed = [f \in Feeds |-> [pc |-> "new", stop |-> FALSE, streamer |-> FALSE]]
  /\ streams = {} /\ drops = 0

\* get_or_create: every caller gets the one service.
GetOrCreate ==
  /\ current = NoFeed
  /\ \E f \in Feeds : /\ feed[f].pc = "new" /\ current' = f
                      /\ feed' = [feed EXCEPT ![f].pc = "loop"]
  /\ UNCHANGED <<streams, drops>>

\* stop_symbol: a streamer that is being made is not seen.
StopFeed ==
  /\ current # NoFeed
  /\ current' = NoFeed
  /\ feed' = [feed EXCEPT ![current].stop = TRUE, ![current].streamer = FALSE]
  /\ streams' = IF feed[current].streamer THEN streams \ {current} ELSE streams
  /\ UNCHANGED drops

\* _run and _connect_and_stream.
MakeStreamer(f) ==
  /\ feed[f].pc = "loop"
  /\ feed' = [feed EXCEPT ![f].pc = IF feed[f].stop THEN "ended" ELSE "making"]
  /\ UNCHANGED <<current, streams, drops>>

KeepStreamer(f) ==
  /\ feed[f].pc = "making"
  /\ feed' = [feed EXCEPT ![f].pc = "connecting", ![f].streamer = TRUE]
  /\ UNCHANGED <<current, streams, drops>>

StreamOpens(f) ==
  /\ feed[f].pc = "connecting"
  /\ feed' = [feed EXCEPT ![f].pc = "open"] /\ streams' = streams \cup {f}
  /\ UNCHANGED <<current, drops>>

ConnectFails(f) ==
  /\ feed[f].pc = "connecting"
  /\ feed' = [feed EXCEPT ![f].pc = "loop", ![f].streamer = FALSE]
  /\ UNCHANGED <<current, streams, drops>>

Drop ==
  /\ drops < MaxDrops /\ drops' = drops + 1
  /\ \E f \in streams : streams' = streams \ {f}
  /\ UNCHANGED <<current, feed>>

\* For mutation: the thread ends with its stream.
StreamEndsThread(f) ==
  /\ feed[f].pc = "open" /\ f \notin streams
  /\ feed' = [feed EXCEPT ![f].pc = "ended", ![f].streamer = FALSE]
  /\ UNCHANGED <<current, streams, drops>>

\* connect() returns, and the loop forgets the streamer.
StreamEnds(f) ==
  /\ feed[f].pc = "open" /\ f \notin streams
  /\ feed' = [feed EXCEPT ![f].pc = "loop", ![f].streamer = FALSE]
  /\ UNCHANGED <<current, streams, drops>>

FeedAdvances(f) == MakeStreamer(f) \/ KeepStreamer(f) \/ StreamOpens(f) \/ ConnectFails(f) \/ StreamEnds(f)

FeedNext == GetOrCreate \/ StopFeed \/ Drop \/ \E f \in Feeds : FeedAdvances(f)

-----------------------------------------------------------------------------
FeedTypeOK ==
  /\ current \in Feeds \cup {NoFeed} /\ streams \subseteq Feeds
  /\ \A f \in Feeds : feed[f].pc \in {"new", "loop", "making", "connecting", "open", "ended"}

\* Whenever a symbol has a service, it comes to have an open stream, unless it is stopped,
\* however often the broker has closed the one before.
FeedRecovers == \A f \in Feeds : current = f ~> f \in streams \/ feed[f].stop

\* "ONE broker WebSocket per symbol" (market_data_service.py:3): a service that has been
\* stopped has no stream left open once its successor has one.
OneStream == \A f, g \in streams : f = g
=============================================================================
