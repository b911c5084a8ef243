---------------------------- MODULE CreationLog ----------------------------
(***************************************************************************)
(* The log of one instance's creation and the browsers that watch it: the  *)
(* CreationLogManager (backend/internal/services/creation_log.go), the     *)
(* goroutine of CreateAsync that writes to it and finalizes the row, and   *)
(* the WebSocket handler CreationStream (handlers/terminal.go).            *)
(*                                                                         *)
(* The manager's four operations run under its mutex and are atomic steps; *)
(* a Go channel is a sequence of at most Cap lines and a flag.  Line n of  *)
(* the log is the number n.                                                *)
(***************************************************************************)
EXTENDS Naturals, Sequences

CONSTANTS
    Viewers,     \* the browser tabs, each with one stream at a time
    MaxLines,    \* bound on the lines that a creation logs
    Cap,         \* capacity of a subscriber's channel, 128 in the code
    MaxCrashes   \* bound on crashes of the server process

ASSUME BoundsAssumption == MaxLines \in Nat /\ Cap \in Nat /\ MaxCrashes \in Nat

VARIABLES
    row,      \* instances.status and, as a number of lines, creation_log
    writer,   \* the next step of the creation goroutine
    entry,    \* the manager's entry: lines, subs and done
    chan,     \* the channel of a viewer's stream
    view,     \* a viewer's stream
    crashes

vars == <<row, writer, entry, chan, view, crashes>>

Lines    == 1 .. MaxLines
Statuses == {"creating", "running", "stopped", "error"}
Sources  == {"none", "row", "buffer", "live"}
Row   == [status : Statuses, log : 0 .. MaxLines]
Entry == [lines : 0 .. MaxLines, subs : SUBSET Viewers, done : BOOLEAN]
Chan  == [buf : Seq(Lines), open : BOOLEAN]
View  == [pc     : {"off", "subscribe", "replay", "tail", "ended", "left"},
          source : Sources,           \* where the lines to replay come from
          have   : 0 .. MaxLines,     \* how many they are
          out    : Seq(Lines),        \* what the browser has received
          lost   : BOOLEAN]           \* history: a line was dropped

NoEntry == [lines |-> 0, subs |-> {}, done |-> FALSE]
NoChan  == [buf |-> <<>>, open |-> FALSE]
NoView  == [pc |-> "off", source |-> "none", have |-> 0, out |-> <<>>, lost |-> FALSE]

TypeOK ==
    /\ row \in Row
    /\ writer \in {"working", "log", "complete", "gone"}
    /\ entry \in Entry
    /\ chan \in [Viewers -> Chan]
    /\ view \in [Viewers -> View]
    /\ crashes \in 0 .. MaxCrashes

Init ==
    /\ row = [status |-> "creating", log |-> 0]
    /\ writer = "working"
    /\ entry = NoEntry
    /\ chan = [v \in Viewers |-> NoChan]
    /\ view = [v \in Viewers |-> NoView]
    /\ crashes = 0

-----------------------------------------------------------------------------
(* The creation goroutine.                                                 *)

Full(v) == Len(chan[v].buf) >= Cap

\* Mutant: the send to a full channel returns instead of going on to the
\* next subscriber.
LogGivesUp ==
    /\ writer = "working"
    /\ entry.lines < MaxLines
    /\ LET n == entry.lines + 1
           full == \E w \in entry.subs : Full(w) IN
         /\ entry' = [entry EXCEPT !.lines = n]
         /\ chan' = [v \in Viewers |->
              IF v \in entry.subs /\ ~full
                THEN [chan[v] EXCEPT !.buf = Append(@, n)] ELSE chan[v]]
         /\ view' = [v \in Viewers |->
              [view[v] EXCEPT !.lost = @ \/ (v \in entry.subs /\ Full(v))]]
    /\ UNCHANGED <<row, writer, crashes>>

\* Log: append, then a non-blocking send to each subscriber.
Log ==
    /\ writer = "working"
    /\ entry.lines < MaxLines
    /\ LET n == entry.lines + 1 IN
         /\ entry' = [entry EXCEPT !.lines = n]
         /\ chan' = [v \in Viewers |->
              IF v \in entry.subs /\ ~Full(v)
                THEN [chan[v] EXCEPT !.buf = Append(@, n)] ELSE chan[v]]
         /\ view' = [v \in Viewers |->
              [view[v] EXCEPT !.lost = @ \/ (v \in entry.subs /\ Full(v))]]
    /\ UNCHANGED <<row, writer, crashes>>

\* finalize: the status, the stored log, then Complete.
FinalizeStatus ==
    /\ writer = "working"
    /\ writer' = "log"
    /\ \E s \in {"running", "error"} : row' = [row EXCEPT !.status = s]
    /\ UNCHANGED <<entry, chan, view, crashes>>

\* Mutant: finalize returns before Complete.
FinalizeLogReturns ==
    /\ writer = "log"
    /\ writer' = "gone"
    /\ row' = [row EXCEPT !.log = entry.lines]
    /\ UNCHANGED <<entry, chan, view, crashes>>

FinalizeLog ==
    /\ writer = "log"
    /\ writer' = "complete"
    /\ row' = [row EXCEPT !.log = entry.lines]
    /\ UNCHANGED <<entry, chan, view, crashes>>

\* Mutant: the subscriber list is not cleared.
CompleteKeepsSubs ==
    /\ writer = "complete"
    /\ writer' = "gone"
    /\ entry' = [entry EXCEPT !.done = TRUE]
    /\ chan' = [v \in Viewers |->
         IF v \in entry.subs THEN [chan[v] EXCEPT !.open = FALSE] ELSE chan[v]]
    /\ UNCHANGED <<row, view, crashes>>

\* Complete: mark done, close the subscribers' channels, forget them.
Complete ==
    /\ writer = "complete"
    /\ writer' = "gone"
    /\ entry' = [entry EXCEPT !.done = TRUE, !.subs = {}]
    /\ chan' = [v \in Viewers |->
         IF v \in entry.subs THEN [chan[v] EXCEPT !.open = FALSE] ELSE chan[v]]
    /\ UNCHANGED <<row, view, crashes>>

\* Start, Stop, Rebuild and the sleep worker write the status as well.
StatusByAnother ==
    /\ \E s \in Statuses \ {"creating"} : row' = [row EXCEPT !.status = s]
    /\ UNCHANGED <<writer, entry, chan, view, crashes>>

-----------------------------------------------------------------------------
(* CreationStream.                                                         *)

\* The row is read once, before the subscription.
Open(v) ==
    /\ view[v].pc = "off"
    /\ view' = [view EXCEPT ![v] =
         IF row.status = "creating"
           THEN [NoView EXCEPT !.pc = "subscribe"]
           ELSE [NoView EXCEPT !.pc = "replay", !.source = "row", !.have = row.log]]
    /\ UNCHANGED <<row, writer, entry, chan, crashes>>

\* Mutant: the new channel is preloaded with the lines that are returned.
SubscribePreloads(v) ==
    /\ view[v].pc = "subscribe"
    /\ view' = [view EXCEPT ![v].pc = "replay", ![v].have = entry.lines,
                            ![v].source = IF entry.done THEN "buffer" ELSE "live"]
    /\ IF entry.done
         THEN UNCHANGED <<entry, chan>>
         ELSE /\ entry' = [entry EXCEPT !.subs = @ \cup {v}]
              /\ chan' = [chan EXCEPT ![v] = [buf |-> [i \in 1 .. entry.lines |-> i],
                                              open |-> TRUE]]
    /\ UNCHANGED <<row, writer, crashes>>

\* Subscribe: under the mutex, the lines so far and a channel for the others.
Subscribe(v) ==
    /\ view[v].pc = "subscribe"
    /\ view' = [view EXCEPT ![v].pc = "replay", ![v].have = entry.lines,
                            ![v].source = IF entry.done THEN "buffer" ELSE "live"]
    /\ IF entry.done
         THEN UNCHANGED <<entry, chan>>
         ELSE /\ entry' = [entry EXCEPT !.subs = @ \cup {v}]
              /\ chan' = [chan EXCEPT ![v] = [buf |-> <<>>, open |-> TRUE]]
    /\ UNCHANGED <<row, writer, crashes>>

Replay(v) ==
    /\ view[v].pc = "replay"
    /\ IF Len(view[v].out) < view[v].have
         THEN view' = [view EXCEPT ![v].out = Append(@, Len(@) + 1)]
         ELSE view' = [view EXCEPT ![v].pc =
                         IF view[v].source = "live" THEN "tail" ELSE "ended"]
    /\ UNCHANGED <<row, writer, entry, chan, crashes>>

Receive(v) ==
    /\ view[v].pc = "tail"
    /\ chan[v].buf # <<>>
    /\ view' = [view EXCEPT ![v].out = Append(@, Head(chan[v].buf))]
    /\ chan' = [chan EXCEPT ![v].buf = Tail(@)]
    /\ UNCHANGED <<row, writer, entry, crashes>>

\* Mutant: the end of the creation cuts the stream off.
SeeClosedAtOnce(v) ==
    /\ view[v].pc = "tail"
    /\ ~chan[v].open
    /\ view' = [view EXCEPT ![v].pc = "ended"]
    /\ UNCHANGED <<row, writer, entry, chan, crashes>>

\* A closed channel still gives what is buffered: the end comes after.
SeeClosed(v) ==
    /\ view[v].pc = "tail"
    /\ chan[v].buf = <<>> /\ ~chan[v].open
    /\ view' = [view EXCEPT ![v].pc = "ended"]
    /\ UNCHANGED <<row, writer, entry, chan, crashes>>

\* The browser goes away: a send fails, or the read loop ends.
Disconnect(v) ==
    /\ view[v].pc \in {"replay", "tail"}
    /\ view' = [view EXCEPT ![v].pc = "left"]
    /\ UNCHANGED <<row, writer, entry, chan, crashes>>

\* The handler returns, with its deferred Unsubscribe.
Unsubscribe(v) ==
    /\ view[v].pc \in {"ended", "left"}
    /\ view' = [view EXCEPT ![v] = NoView]
    /\ entry' = [entry EXCEPT !.subs = @ \ {v}]
    /\ chan' = [chan EXCEPT ![v] = NoChan]
    /\ UNCHANGED <<row, writer, crashes>>

\* The entries are in memory only; the row stays as it was.
Crash ==
    /\ crashes < MaxCrashes
    /\ crashes' = crashes + 1
    /\ writer' = "gone"
    /\ entry' = NoEntry
    /\ chan' = [v \in Viewers |-> NoChan]
    /\ view' = [v \in Viewers |-> NoView]
    /\ UNCHANGED row

-----------------------------------------------------------------------------
Creation  == Log \/ FinalizeStatus \/ FinalizeLog \/ Complete
Stream(v) == Subscribe(v) \/ Replay(v) \/ Receive(v) \/ SeeClosed(v) \/ Unsubscribe(v)

Next ==
    \/ Creation \/ StatusByAnother \/ Crash
    \/ \E v \in Viewers : Open(v) \/ Stream(v) \/ Disconnect(v)

Spec == Init /\ [][Next]_vars

\* The creation goroutine and the handlers go on; nobody has to connect,
\* disconnect or crash.
FairSpec == Spec /\ WF_vars(Creation) /\ \A v \in Viewers : WF_vars(Stream(v))

-----------------------------------------------------------------------------
\* No line is lost or repeated between the replay and the channel: what a
\* stream has sent, has still to replay and finds in its channel is the whole
\* log so far, unless a line was dropped because the channel was full.
Watching(v) == view[v].source = "live" /\ view[v].pc \in {"replay", "tail"}
Replayed(v) == IF Len(view[v].out) < view[v].have THEN view[v].have ELSE Len(view[v].out)
NothingMissed ==
    \A v \in Viewers : Watching(v) /\ ~view[v].lost =>
        /\ Replayed(v) + Len(chan[v].buf) = entry.lines
        /\ \A i \in 1 .. Len(view[v].out) : view[v].out[i] = i
        /\ \A i \in 1 .. Len(chan[v].buf) : chan[v].buf[i] = Replayed(v) + i

\* Also when lines are dropped, those that arrive are in order.
InOrder ==
    \A v \in Viewers :
        /\ \A i \in 2 .. Len(view[v].out) : view[v].out[i - 1] < view[v].out[i]
        /\ \A i \in 2 .. Len(chan[v].buf) : chan[v].buf[i - 1] < chan[v].buf[i]

\* A send on a closed channel panics: no subscriber is closed, and none is
\* left behind when the others are closed.
SubscribersOpen ==
    /\ \A v \in entry.subs : chan[v].open
    /\ \A v \in Viewers : Watching(v) => v \in entry.subs \/ (entry.done /\ ~chan[v].open)

\* CreationStream keeps the promise of LogStream to those who subscribe.
Subscribed(v) == view[v].source \in {"buffer", "live"}
Promise == INSTANCE LogStream WITH
    logged   <- entry.lines,
    finished <- entry.done,
    state    <- [v \in Viewers |-> IF ~Subscribed(v) \/ view[v].pc = "off" THEN "off"
                                   ELSE IF view[v].pc = "ended" THEN "told" ELSE "on"],
    seen     <- [v \in Viewers |-> IF Subscribed(v) /\ view[v].out # <<>>
                                     THEN view[v].out[Len(view[v].out)] ELSE 0],
    slow     <- [v \in Viewers |-> view[v].lost]
KeepsPromise == Promise!Spec

\* Whoever watches a creation is told its end, if the server does not crash:
\* no line that is dropped, no viewer that leaves and no other writer of the
\* status keeps Complete from reaching the streams that wait.
Streaming(v) == view[v].pc \in {"subscribe", "replay", "tail"}
StreamEndsUncrashed ==
    \A v \in Viewers : Streaming(v) ~> ~Streaming(v) \/ crashes > 0

-----------------------------------------------------------------------------
(* What the repository says and the code does not do.                      *)

\* The handler "tails new ones until the goroutine completes" and "works for
\* both in-progress and already-finished creations" (terminal.go:170-172):
\* every stream ends, also one that is opened after a restart.
StreamEnds == \A v \in Viewers : Streaming(v) ~> ~Streaming(v)

\* "[Instance ready]" comes after the whole log of the creation, for a stream
\* opened at any time (terminal.go:170-172), unless it was too slow.
EndsWithLog ==
    \A v \in Viewers : view[v].pc = "ended" /\ ~view[v].lost
                         => Len(view[v].out) = entry.lines
=============================================================================
