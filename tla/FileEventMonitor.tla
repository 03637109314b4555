---------------------------- MODULE FileEventMonitor ----------------------------
(***************************************************************************)
(* FileEventMonitors.java and the native run loop behind it                *)
(* (swoval_apple_file_system.hpp): streams of file events, each for what   *)
(* is below one path.  The run loop drops streams that others cover; what  *)
(* it reports is handed to one callback thread, in order.                  *)
(*                                                                         *)
(* An event is handed over with the change it is about (the latency of a   *)
(* stream is not modelled), and once, if several streams cover its path.   *)
(***************************************************************************)
EXTENDS Paths, SequencesExt

CONSTANTS
    SameStart,   \* <<p, q>>: as strings p starts q, though q is not below p
    MaxFailures  \* bound on the streams that the system does not start

ASSUME MonitorAssumption == MaxFailures \in Nat

VARIABLES
    streams,    \* stream_handles: number -> path
    current_id, \* the number of the next stream
    streams_to_remove,
    stopped,    \* the monitor and its run loop are closed
    callbacks,  \* the queue of the callback thread
    failures    \* streams that were not started

monitor == <<streams, current_id, streams_to_remove, stopped, callbacks, failures>>

Invalid == -1  \* Handles.INVALID
NoStreams == [id \in {} |-> <<>>]

\* memcmp and string::compare of whole path names.
StringPrefix(p, q) == StartsWith(q, p) \/ <<p, q>> \in SameStart

Covering(path) == {id \in DOMAIN streams : StringPrefix(streams[id], path)}

\* createStream: a stream that there is, a new one, or none.
CreateStream(path, handle) ==
    /\ ~stopped
    /\ UNCHANGED <<streams_to_remove, stopped, callbacks>>
    /\ \/ /\ handle \in Covering(path)
          /\ \A id \in Covering(path) : handle <= id
          /\ UNCHANGED <<streams, current_id, failures>>
       \/ /\ Covering(path) = {} /\ handle = current_id
          /\ streams' = With(streams, current_id, path)
          /\ current_id' = current_id + 1
          /\ UNCHANGED failures
       \/ /\ Covering(path) = {} /\ handle = Invalid /\ failures < MaxFailures
          /\ failures' = failures + 1
          /\ UNCHANGED <<streams, current_id>>

\* stopStream, for each of the handles.
StopStreams(handles) ==
    /\ streams_to_remove' = streams_to_remove \cup (handles \ {Invalid})
    /\ UNCHANGED <<streams, current_id, stopped, callbacks, failures>>

\* Mutant: of two streams the one that covers the other.
Outer == {id \in DOMAIN streams : \E j \in DOMAIN streams \ {id} : StringPrefix(streams[id], streams[j])}

Redundant ==
    {id \in DOMAIN streams : \E j \in DOMAIN streams \ {id} : StringPrefix(streams[j], streams[id])}

\* cleanupFunc, while the loop runs: each stream that goes is reported.
Cleanup ==
    LET gone == (Redundant \cup streams_to_remove) \cap DOMAIN streams
    IN /\ ~stopped /\ (gone # {} \/ streams_to_remove # {})
       /\ streams' = Restrict(streams, DOMAIN streams \ gone)
       /\ streams_to_remove' = {}
       /\ callbacks' = callbacks \o SetToSeq({[kind |-> "drop", path |-> streams[id]] : id \in gone})
       /\ UNCHANGED <<current_id, stopped, failures>>

\* cleanupFunc after close: all streams are stopped, and close goes on.
CleanupRunLoop ==
    /\ stopped /\ streams # NoStreams
    /\ streams' = NoStreams
    /\ UNCHANGED <<current_id, streams_to_remove, stopped, callbacks, failures>>

\* defaultCallback
Report(event) ==
    /\ ~stopped /\ \E id \in DOMAIN streams : StartsWith(event.path, streams[id])
    /\ callbacks' = Append(callbacks, event)
    /\ UNCHANGED <<streams, current_id, streams_to_remove, stopped, failures>>

\* close: the loop is told to stop, what the callback thread has not begun is dropped.
CloseMonitor ==
    /\ stopped' = TRUE
    /\ callbacks' = <<>>
    /\ UNCHANGED <<streams, current_id, streams_to_remove, failures>>

MonitorInit ==
    /\ streams = NoStreams
    /\ current_id = 0
    /\ streams_to_remove = {}
    /\ stopped = FALSE
    /\ callbacks = <<>>
    /\ failures = 0
=============================================================================
