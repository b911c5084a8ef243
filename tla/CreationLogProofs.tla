------------------------- MODULE CreationLogProofs -------------------------
(***************************************************************************)
(* Theorems about CreationLog, for any viewers, lines, capacity and number *)
(* of crashes: a stream sees the lines in order, none is missed that was   *)
(* not dropped, and the detailed manager, channels and handlers implement  *)
(* the promise of LogStream.                                               *)
(***************************************************************************)
EXTENDS CreationLog, SequenceTheorems, TLAPS

Rising(s)    == \A i, j \in 1 .. Len(s) : i < j => s[i] < s[j]
Counted(s)   == \A i \in 1 .. Len(s) : s[i] = i
Below(s, n)  == \A i \in 1 .. Len(s) : s[i] <= n
Above(s, n)  == \A i \in 1 .. Len(s) : n < s[i]
\* Every line of t comes after every line of s.
Before(s, t) == \A i \in 1 .. Len(s), j \in 1 .. Len(t) : s[i] < t[j]

\* The manager: what is done has been written and has no subscribers.
ManagerInv == entry.done => writer = "gone" /\ entry.subs = {}

\* A stream and its subscription.
Attached(v) ==
    /\ v \in entry.subs => /\ chan[v].open /\ view[v].source = "live"
                           /\ view[v].pc \in {"replay", "tail", "left"}
    /\ Watching(v) => v \in entry.subs \/ (entry.done /\ ~chan[v].open)
    /\ view[v].pc = "tail" => view[v].source = "live"
    /\ view[v].source = "buffer" => entry.done /\ view[v].have = entry.lines
    /\ view[v].lost => view[v].source = "live"
    /\ view[v].pc \in {"off", "subscribe"} => view[v].source = "none" /\ view[v].out = <<>>

\* What a stream has sent and what is in its channel.
Ordered(v) ==
    /\ Rising(view[v].out) /\ Rising(chan[v].buf) /\ Below(chan[v].buf, entry.lines)
    /\ view[v].pc = "replay" => Len(view[v].out) <= view[v].have /\ Counted(view[v].out)
    /\ view[v].pc = "tail" => Len(view[v].out) >= view[v].have
    /\ view[v].source \in {"buffer", "live"} => view[v].have <= entry.lines /\ Below(view[v].out, entry.lines)
    /\ Watching(v) => Above(chan[v].buf, view[v].have) /\ Before(view[v].out, chan[v].buf)

\* Without a drop the channel goes on where the stream is.
Whole(v) ==
    Watching(v) /\ ~view[v].lost =>
        /\ Replayed(v) + Len(chan[v].buf) = entry.lines
        /\ Counted(view[v].out)
        /\ \A i \in 1 .. Len(chan[v].buf) : chan[v].buf[i] = Replayed(v) + i

Inv ==
    /\ TypeOK /\ ManagerInv
    /\ \A v \in Viewers : Attached(v) /\ Ordered(v) /\ Whole(v)

-----------------------------------------------------------------------------
(* Sequences of lines.                                                     *)

LEMMA LinesNat == MaxLines \in Nat /\ Lines \subseteq Nat /\ \A n \in Lines : n >= 1
BY BoundsAssumption DEF Lines

LEMMA EmptyLines ==
    /\ <<>> \in Seq(Lines) /\ Len(<<>>) = 0 /\ Rising(<<>>) /\ Counted(<<>>)
    /\ \A n : Below(<<>>, n) /\ Above(<<>>, n)
    /\ \A s : Before(s, <<>>) /\ Before(<<>>, s)
<1>1. <<>> \in Seq(Lines) /\ Len(<<>>) = 0 /\ 1 .. Len(<<>>) = {}
  BY EmptySeq
<1>2. QED
  BY <1>1 DEF Rising, Counted, Below, Above, Before

LEMMA AppendLine ==
    ASSUME NEW s \in Seq(Lines), NEW x \in Lines
    PROVE  LET t == Append(s, x) IN
           /\ t \in Seq(Lines) /\ t # <<>> /\ Len(t) = Len(s) + 1 /\ Len(s) \in Nat /\ t[Len(t)] = x
           /\ \A i \in 1 .. Len(s) : t[i] = s[i] /\ s[i] \in Nat
           /\ 1 .. Len(t) = (1 .. Len(s)) \cup {Len(s) + 1}
<1>1. Len(s) \in Nat /\ \A i \in 1 .. Len(s) : s[i] \in Nat
  BY LinesNat, ElementOfSeq, LenProperties
<1>2. QED
  BY <1>1, AppendProperties

LEMMA AppendRising ==
    ASSUME NEW s \in Seq(Lines), NEW x \in Lines, Rising(s), \A i \in 1 .. Len(s) : s[i] < x
    PROVE  Rising(Append(s, x))
BY AppendLine DEF Rising

LEMMA AppendCounted ==
    ASSUME NEW s \in Seq(Lines), NEW x \in Lines, Counted(s), x = Len(s) + 1
    PROVE  Counted(Append(s, x))
BY AppendLine DEF Counted

LEMMA AppendBounds ==
    ASSUME NEW s \in Seq(Lines), NEW x \in Lines, NEW m \in Nat
    PROVE  /\ Below(s, m) /\ x <= m => Below(Append(s, x), m)
           /\ Above(s, m) /\ m < x => Above(Append(s, x), m)
BY AppendLine, LinesNat DEF Below, Above

LEMMA TailLine ==
    ASSUME NEW s \in Seq(Lines), s # <<>>
    PROVE  LET t == Tail(s) IN
           /\ t \in Seq(Lines) /\ Len(t) = Len(s) - 1 /\ Len(s) \in Nat /\ Len(s) > 0
           /\ Head(s) = s[1] /\ Head(s) \in Lines
           /\ \A i \in 1 .. Len(t) : t[i] = s[i + 1] /\ i + 1 \in 1 .. Len(s)
           /\ \A i \in 1 .. Len(s) : s[i] \in Nat
<1>1. Len(s) \in Nat /\ \A i \in 1 .. Len(s) : s[i] \in Nat
  BY LinesNat, ElementOfSeq, LenProperties
<1>2. Len(s) > 0
  BY <1>1, EmptySeq
<1>3. QED
  BY <1>1, <1>2, HeadTailProperties

LEMMA TailRising ==
    ASSUME NEW s \in Seq(Lines), s # <<>>, Rising(s)
    PROVE  Rising(Tail(s)) /\ \A i \in 1 .. Len(Tail(s)) : Head(s) < Tail(s)[i]
BY TailLine DEF Rising

LEMMA TailBounds ==
    ASSUME NEW s \in Seq(Lines), s # <<>>, NEW m \in Nat
    PROVE  /\ Below(s, m) => Below(Tail(s), m) /\ Head(s) <= m
           /\ Above(s, m) => Above(Tail(s), m) /\ m < Head(s)
<1>1. 1 \in 1 .. Len(s)
  BY TailLine
<1>2. QED
  BY <1>1, TailLine DEF Below, Above

LEMMA MoreLines ==
    ASSUME NEW s \in Seq(Lines), NEW m \in Nat, NEW n \in Nat, m <= n, Below(s, m)
    PROVE  Below(s, n)
<1>1. \A i \in 1 .. Len(s) : s[i] \in Nat
  BY LinesNat, ElementOfSeq
<1>2. QED
  BY <1>1 DEF Below

LEMMA AppendAfter ==
    ASSUME NEW s \in Seq(Lines), NEW t \in Seq(Lines), NEW x \in Lines, NEW m \in Nat,
           Before(s, t), Below(s, m), m < x
    PROVE  Before(s, Append(t, x))
<1>1. \A i \in 1 .. Len(s) : s[i] \in Nat /\ s[i] < x
  <2>1. \A i \in 1 .. Len(s) : s[i] \in Nat
    BY LinesNat, ElementOfSeq
  <2>2. QED
    BY <2>1, LinesNat DEF Below
<1>2. QED
  BY <1>1, AppendLine DEF Before

LEMMA AppendBefore ==
    ASSUME NEW s \in Seq(Lines), NEW t \in Seq(Lines), NEW x \in Lines, Before(s, t), Above(t, x)
    PROVE  Before(Append(s, x), t)
BY AppendLine DEF Before, Above

-----------------------------------------------------------------------------
(* Streams that a step leaves alone.                                       *)

StreamInv(v) == Attached(v) /\ Ordered(v) /\ Whole(v)

LEMMA StreamTypes ==
    ASSUME TypeOK, NEW v \in Viewers
    PROVE  /\ view[v] \in View /\ chan[v] \in Chan /\ entry \in Entry
           /\ entry.lines \in Nat /\ view[v].have \in Nat /\ Len(view[v].out) \in Nat /\ Len(chan[v].buf) \in Nat
           /\ view[v].out \in Seq(Lines) /\ chan[v].buf \in Seq(Lines)
<1>1. view[v] \in View /\ chan[v] \in Chan /\ entry \in Entry
  BY DEF TypeOK
<1>2. view[v].out \in Seq(Lines) /\ chan[v].buf \in Seq(Lines)
  BY <1>1 DEF View, Chan
<1>3. QED
  BY <1>1, <1>2, LenProperties, BoundsAssumption DEF View, Entry

LEMMA Elsewhere ==
    ASSUME NEW w, StreamInv(w), view'[w] = view[w], chan'[w] = chan[w],
           entry'.lines = entry.lines, entry'.done = entry.done, w \in entry'.subs <=> w \in entry.subs
    PROVE  StreamInv(w)'
<1>1. Watching(w)' <=> Watching(w)
  BY DEF Watching
<1>2. Replayed(w)' = Replayed(w)
  BY DEF Replayed
<1>3. QED
  BY <1>1, <1>2 DEF StreamInv, Attached, Ordered, Whole

LEMMA InvStreams == Inv <=> TypeOK /\ ManagerInv /\ \A v \in Viewers : StreamInv(v)
BY DEF Inv, StreamInv

-----------------------------------------------------------------------------
(* Types.                                                                  *)

LEMMA TypeInit == Init => TypeOK
BY BoundsAssumption, EmptyLines
   DEF Init, TypeOK, Row, Statuses, Entry, NoEntry, Chan, NoChan, View, NoView, Sources

LEMMA TypeNext == ASSUME TypeOK, [Next]_vars PROVE TypeOK'
<1> USE BoundsAssumption
<1>1. CASE Log
  <2>1. entry \in Entry /\ entry' \in Entry /\ entry.lines + 1 \in Lines
    <3>1. entry \in Entry /\ entry.lines \in 0 .. MaxLines /\ entry.lines < MaxLines
      BY <1>1 DEF Log, TypeOK, Entry
    <3>2. entry.lines + 1 \in Lines /\ entry.lines + 1 \in 0 .. MaxLines
      BY <3>1 DEF Lines
    <3>3. entry' = [entry EXCEPT !.lines = entry.lines + 1]
      BY <1>1 DEF Log
    <3>4. QED
      BY <3>1, <3>2, <3>3 DEF Entry
  <2>2. chan' \in [Viewers -> Chan]
    <3>1. ASSUME NEW v \in Viewers PROVE [chan[v] EXCEPT !.buf = Append(@, entry.lines + 1)] \in Chan
      <4>1. chan[v] \in Chan /\ chan[v].buf \in Seq(Lines)
        BY StreamTypes
      <4>2. Append(chan[v].buf, entry.lines + 1) \in Seq(Lines)
        BY <2>1, <4>1, AppendLine
      <4>3. QED
        BY <4>1, <4>2 DEF Chan
    <3>2. QED
      BY <1>1, <3>1, StreamTypes DEF Log
  <2>3. view' \in [Viewers -> View]
    <3>1. ASSUME NEW v \in Viewers, NEW b \in BOOLEAN PROVE [view[v] EXCEPT !.lost = b] \in View
      BY StreamTypes DEF View
    <3>2. ASSUME NEW v \in Viewers PROVE (view[v].lost \/ (v \in entry.subs /\ Full(v))) \in BOOLEAN
      <4>1. view[v].lost \in BOOLEAN
        BY StreamTypes DEF View
      <4>2. (v \in entry.subs /\ Full(v)) \in BOOLEAN
        OBVIOUS
      <4>3. QED
        BY <4>1, <4>2
    <3>3. QED
      BY <1>1, <3>1, <3>2 DEF Log
  <2>4. QED
    BY <1>1, <2>1, <2>2, <2>3 DEF Log, TypeOK
<1>2. CASE FinalizeStatus \/ FinalizeLog \/ StatusByAnother
  BY <1>2 DEF FinalizeStatus, FinalizeLog, StatusByAnother, TypeOK, Row, Statuses, Entry
<1>3. CASE Complete
  BY <1>3 DEF Complete, TypeOK, Entry, Chan
<1>4. CASE Crash
  BY <1>4, EmptyLines DEF Crash, TypeOK, Entry, NoEntry, Chan, NoChan, View, NoView, Sources
<1>5. ASSUME NEW v \in Viewers, Open(v) PROVE TypeOK'
  <2>1. NoView \in View /\ row.log \in 0 .. MaxLines
    BY EmptyLines DEF TypeOK, View, NoView, Sources, Row
  <2>2. /\ [NoView EXCEPT !.pc = "subscribe"] \in View
        /\ [NoView EXCEPT !.pc = "replay", !.source = "row", !.have = row.log] \in View
    BY <2>1 DEF View, Sources
  <2>3. view' \in [Viewers -> View]
    BY <1>5, <2>2 DEF Open, TypeOK
  <2>4. QED
    BY <1>5, <2>3 DEF Open, TypeOK
<1>6. ASSUME NEW v \in Viewers, Subscribe(v) PROVE TypeOK'
  <2>1. view' \in [Viewers -> View]
    <3>1. entry.lines \in 0 .. MaxLines
      BY DEF TypeOK, Entry
    <3>2. PICK source \in Sources :
            view' = [view EXCEPT ![v].pc = "replay", ![v].have = entry.lines, ![v].source = source]
      BY <1>6 DEF Subscribe, Sources
    <3>3. view' = [view EXCEPT ![v] = [@ EXCEPT !.pc = "replay", !.have = entry.lines, !.source = source]]
      BY <3>2 DEF TypeOK
    <3>4. [view[v] EXCEPT !.pc = "replay", !.have = entry.lines, !.source = source] \in View
      BY <3>1, StreamTypes DEF View
    <3>5. QED
      BY <3>3, <3>4 DEF TypeOK
  <2>2. entry' \in Entry
    BY <1>6 DEF Subscribe, TypeOK, Entry
  <2>3. chan' \in [Viewers -> Chan]
    <3>1. [buf |-> <<>>, open |-> TRUE] \in Chan
      BY EmptyLines DEF Chan
    <3>2. QED
      BY <1>6, <3>1 DEF Subscribe, TypeOK
  <2>4. QED
    BY <1>6, <2>1, <2>2, <2>3 DEF Subscribe, TypeOK
<1>7. ASSUME NEW v \in Viewers, Replay(v) PROVE TypeOK'
  <2>1. CASE Len(view[v].out) < view[v].have
    <3>1. Len(view[v].out) + 1 \in Lines
      BY <2>1, StreamTypes DEF View, Lines
    <3>2. Append(view[v].out, Len(view[v].out) + 1) \in Seq(Lines)
      BY <3>1, StreamTypes, AppendLine
    <3>3. QED
      BY <1>7, <2>1, <3>2 DEF Replay, TypeOK, View
  <2>2. CASE ~(Len(view[v].out) < view[v].have)
    <3>1. PICK pc \in {"tail", "ended"} : view' = [view EXCEPT ![v].pc = pc]
      BY <1>7, <2>2 DEF Replay
    <3>2. view' \in [Viewers -> View]
      BY <3>1 DEF TypeOK, View
    <3>3. QED
      BY <1>7, <3>2 DEF Replay, TypeOK
  <2>3. QED
    BY <2>1, <2>2
<1>8. ASSUME NEW v \in Viewers, Receive(v) PROVE TypeOK'
  <2>1. chan[v].buf \in Seq(Lines) /\ chan[v].buf # <<>>
    BY <1>8, StreamTypes DEF Receive
  <2>2. Tail(chan[v].buf) \in Seq(Lines) /\ Head(chan[v].buf) \in Lines
    BY <2>1, TailLine
  <2>3. Append(view[v].out, Head(chan[v].buf)) \in Seq(Lines)
    BY <2>2, StreamTypes, AppendLine
  <2>4. QED
    BY <1>8, <2>2, <2>3 DEF Receive, TypeOK, View, Chan
<1>9. ASSUME NEW v \in Viewers, SeeClosed(v) \/ Disconnect(v) PROVE TypeOK'
  BY <1>9 DEF SeeClosed, Disconnect, TypeOK, View
<1>10. ASSUME NEW v \in Viewers, Unsubscribe(v) PROVE TypeOK'
  <2>1. NoView \in View /\ NoChan \in Chan
    BY EmptyLines DEF View, NoView, Sources, Chan, NoChan
  <2>2. view' \in [Viewers -> View] /\ chan' \in [Viewers -> Chan]
    BY <1>10, <2>1 DEF Unsubscribe, TypeOK
  <2>3. entry' \in Entry
    BY <1>10 DEF Unsubscribe, TypeOK, Entry
  <2>4. QED
    BY <1>10, <2>2, <2>3 DEF Unsubscribe, TypeOK
<1>11. CASE UNCHANGED vars
  BY <1>11 DEF vars, TypeOK
<1>12. QED
  BY <1>1, <1>2, <1>3, <1>4, <1>5, <1>6, <1>7, <1>8, <1>9, <1>10, <1>11 DEF Next, Creation, Stream

-----------------------------------------------------------------------------
(* The steps of the creation.                                              *)

LEMMA LogKeeps == ASSUME Inv, Log, NEW v \in Viewers PROVE StreamInv(v)'
<1>1. PICK n : n = entry.lines + 1
  OBVIOUS
<1>2. /\ entry.lines \in Nat /\ n \in Lines /\ n \in Nat /\ entry.lines <= n /\ n = entry.lines + 1
      /\ entry'.lines = n /\ entry'.subs = entry.subs /\ entry'.done = entry.done /\ ~entry.done
  <2>1. entry \in Entry /\ entry.lines \in 0 .. MaxLines /\ entry.lines < MaxLines
    BY DEF Log, Inv, TypeOK, Entry
  <2>2. ~entry.done
    BY DEF Inv, ManagerInv, Log
  <2>3. entry' = [entry EXCEPT !.lines = n]
    BY <1>1 DEF Log
  <2>4. entry'.lines = n /\ entry'.subs = entry.subs /\ entry'.done = entry.done
    BY <2>1, <2>3 DEF Entry
  <2>5. n \in Lines /\ n \in Nat /\ entry.lines <= n /\ entry.lines \in Nat
    BY <1>1, <2>1, BoundsAssumption DEF Lines
  <2>6. QED
    BY <1>1, <2>2, <2>4, <2>5
<1>3. /\ view[v] \in View /\ chan[v] \in Chan /\ view[v].have \in Nat
      /\ view[v].out \in Seq(Lines) /\ chan[v].buf \in Seq(Lines) /\ Len(chan[v].buf) \in Nat
  BY StreamTypes DEF Inv
<1>4. /\ view'[v] = [view[v] EXCEPT !.lost = view[v].lost \/ (v \in entry.subs /\ Full(v))]
      /\ chan'[v] = IF v \in entry.subs /\ ~Full(v) THEN [chan[v] EXCEPT !.buf = Append(@, n)] ELSE chan[v]
  BY <1>1 DEF Log
<1>5. /\ view'[v].pc = view[v].pc /\ view'[v].source = view[v].source
      /\ view'[v].have = view[v].have /\ view'[v].out = view[v].out
      /\ view'[v].lost <=> view[v].lost \/ (v \in entry.subs /\ Full(v))
  BY <1>3, <1>4 DEF View
<1>6. /\ chan'[v].open = chan[v].open
      /\ chan'[v].buf = IF v \in entry.subs /\ ~Full(v) THEN Append(chan[v].buf, n) ELSE chan[v].buf
  BY <1>3, <1>4 DEF Chan
<1>7. Attached(v) /\ Ordered(v) /\ Whole(v)
  BY DEF Inv
<1>8. (Watching(v)' <=> Watching(v)) /\ Replayed(v)' = Replayed(v)
  BY <1>5 DEF Watching, Replayed
<1>9. Attached(v)'
  BY <1>2, <1>5, <1>6, <1>7, <1>8 DEF Attached
<1>10. Below(chan[v].buf, n) /\ Below(chan[v].buf, entry.lines)
  BY <1>2, <1>3, <1>7, MoreLines DEF Ordered
<1>11. view[v].source \in {"buffer", "live"} => view[v].have <= n /\ Below(view[v].out, n) /\ view[v].have < n
  BY <1>2, <1>3, <1>7, MoreLines DEF Ordered
<1>12. CASE ~(v \in entry.subs /\ ~Full(v))
  <2>1. Ordered(v)'
    BY <1>2, <1>5, <1>6, <1>7, <1>8, <1>10, <1>11, <1>12 DEF Ordered
  <2>2. Watching(v) => view'[v].lost
    BY <1>2, <1>5, <1>7, <1>12 DEF Attached
  <2>3. QED
    BY <1>8, <1>9, <2>1, <2>2 DEF StreamInv, Whole
<1>13. CASE v \in entry.subs /\ ~Full(v)
  <2>1. chan'[v].buf = Append(chan[v].buf, n)
    BY <1>6, <1>13
  <2>2. Rising(Append(chan[v].buf, n))
    <3>1. \A i \in 1 .. Len(chan[v].buf) : chan[v].buf[i] < n
      <4>1. \A i \in 1 .. Len(chan[v].buf) : chan[v].buf[i] \in Nat
        BY <1>3, LinesNat, ElementOfSeq
      <4>2. QED
        BY <1>2, <1>10, <4>1 DEF Below
    <3>2. QED
      BY <1>2, <1>3, <1>7, <3>1, AppendRising DEF Ordered
  <2>3. Below(Append(chan[v].buf, n), n)
    BY <1>2, <1>3, <1>10, AppendBounds
  <2>4. Watching(v) => Above(Append(chan[v].buf, n), view[v].have) /\ Before(view[v].out, Append(chan[v].buf, n))
    <3>1. SUFFICES ASSUME Watching(v) PROVE Above(Append(chan[v].buf, n), view[v].have) /\ Before(view[v].out, Append(chan[v].buf, n))
      OBVIOUS
    <3>2. /\ view[v].have < n /\ Below(view[v].out, entry.lines) /\ Above(chan[v].buf, view[v].have)
          /\ Before(view[v].out, chan[v].buf)
      BY <1>7, <1>11, <3>1 DEF Ordered, Watching
    <3>3. Above(Append(chan[v].buf, n), view[v].have)
      BY <1>2, <1>3, <3>2, AppendBounds
    <3>4. entry.lines < n
      BY <1>2
    <3>5. Before(view[v].out, Append(chan[v].buf, n))
      BY <1>2, <1>3, <3>2, <3>4, AppendAfter
    <3>6. QED
      BY <3>3, <3>5
  <2>5. Ordered(v)'
    BY <1>2, <1>5, <1>7, <1>8, <1>11, <2>1, <2>2, <2>3, <2>4 DEF Ordered
  <2>6. Whole(v)'
    <3>1. SUFFICES ASSUME Watching(v), ~view[v].lost
                   PROVE  /\ Replayed(v) + Len(chan'[v].buf) = n /\ Counted(view[v].out)
                          /\ \A i \in 1 .. Len(chan'[v].buf) : chan'[v].buf[i] = Replayed(v) + i
      BY <1>2, <1>5, <1>8 DEF Whole
    <3>2. /\ Replayed(v) + Len(chan[v].buf) = entry.lines /\ Counted(view[v].out)
          /\ \A i \in 1 .. Len(chan[v].buf) : chan[v].buf[i] = Replayed(v) + i
      BY <1>7, <3>1 DEF Whole
    <3>3. Replayed(v) \in Nat
      BY <1>3, LenProperties DEF Replayed
    <3>4. /\ Len(chan'[v].buf) = Len(chan[v].buf) + 1
          /\ \A i \in 1 .. Len(chan[v].buf) : chan'[v].buf[i] = chan[v].buf[i]
          /\ chan'[v].buf[Len(chan[v].buf) + 1] = n
      BY <1>2, <1>3, <2>1, AppendProperties
    <3>5. Replayed(v) + Len(chan'[v].buf) = n
      BY <1>2, <1>3, <3>2, <3>3, <3>4
    <3>6. ASSUME NEW i \in 1 .. Len(chan'[v].buf) PROVE chan'[v].buf[i] = Replayed(v) + i
      <4>1. CASE i \in 1 .. Len(chan[v].buf)
        BY <3>2, <3>4, <4>1
      <4>2. CASE i = Len(chan[v].buf) + 1
        BY <1>2, <1>3, <3>2, <3>3, <3>4, <4>2
      <4>3. \A m \in Nat : 1 .. (m + 1) = (1 .. m) \cup {m + 1}
        OBVIOUS
      <4>4. QED
        BY <1>3, <3>4, <4>1, <4>2, <4>3
    <3>7. QED
      BY <3>2, <3>5, <3>6
  <2>7. QED
    BY <1>9, <2>5, <2>6 DEF StreamInv
<1>14. QED
  BY <1>12, <1>13

LEMMA CompleteKeeps == ASSUME Inv, Complete, NEW v \in Viewers PROVE StreamInv(v)'
<1>1. view' = view /\ entry'.lines = entry.lines /\ entry'.subs = {} /\ entry'.done
  BY DEF Complete, Inv, TypeOK, Entry
<1>2. chan'[v].buf = chan[v].buf /\ (v \in entry.subs => ~chan'[v].open) /\ (v \notin entry.subs => chan'[v] = chan[v])
  BY StreamTypes DEF Complete, Inv, Chan
<1>3. Attached(v) /\ Ordered(v) /\ Whole(v)
  BY DEF Inv
<1>4. (Watching(v)' <=> Watching(v)) /\ Replayed(v)' = Replayed(v)
  BY <1>1 DEF Watching, Replayed
<1>5. Attached(v)'
  BY <1>1, <1>2, <1>3, <1>4 DEF Attached
<1>6. Ordered(v)' /\ Whole(v)'
  BY <1>1, <1>2, <1>3, <1>4 DEF Ordered, Whole
<1>7. QED
  BY <1>5, <1>6 DEF StreamInv

-----------------------------------------------------------------------------
(* The steps of a stream.                                                  *)

LEMMA OpenKeeps == ASSUME Inv, NEW v \in Viewers, Open(v) PROVE StreamInv(v)'
<1>1. /\ entry' = entry /\ chan' = chan /\ view[v].pc = "off"
      /\ view'[v].pc \in {"subscribe", "replay"} /\ view'[v].out = <<>> /\ ~view'[v].lost
      /\ view'[v].source \in {"none", "row"} /\ view'[v].have \in Nat
      /\ view'[v].pc = "subscribe" => view'[v].source = "none"
  BY BoundsAssumption DEF Open, Inv, TypeOK, NoView, Row
<1>2. Attached(v) /\ Ordered(v) /\ v \notin entry.subs
  BY <1>1 DEF Inv, Attached
<1>3. ~Watching(v)'
  BY <1>1 DEF Watching
<1>4. QED
  BY <1>1, <1>2, <1>3, EmptyLines DEF StreamInv, Attached, Ordered, Whole

LEMMA SubscribeKeeps == ASSUME Inv, NEW v \in Viewers, Subscribe(v) PROVE StreamInv(v)'
<1>1. /\ view[v] \in View /\ view[v].pc = "subscribe" /\ view[v].out = <<>> /\ ~view[v].lost /\ v \notin entry.subs
      /\ Ordered(v) /\ entry.lines \in Nat /\ entry \in Entry /\ (entry.done => entry.subs = {})
  BY StreamTypes DEF Subscribe, Inv, Attached, ManagerInv
<1>2. /\ view'[v].pc = "replay" /\ view'[v].have = entry.lines /\ view'[v].out = <<>> /\ ~view'[v].lost
      /\ view'[v].source = IF entry.done THEN "buffer" ELSE "live"
  <2>1. view' = [view EXCEPT ![v] = [@ EXCEPT !.pc = "replay", !.have = entry.lines,
                                              !.source = IF entry.done THEN "buffer" ELSE "live"]]
    BY DEF Subscribe, Inv, TypeOK
  <2>2. view'[v] = [view[v] EXCEPT !.pc = "replay", !.have = entry.lines,
                                   !.source = IF entry.done THEN "buffer" ELSE "live"]
    BY <2>1 DEF Inv, TypeOK
  <2>3. QED
    BY <1>1, <2>2 DEF View
<1>3. CASE entry.done
  <2>1. entry' = entry /\ chan' = chan /\ view'[v].source = "buffer"
    BY <1>2, <1>3 DEF Subscribe
  <2>2. ~Watching(v)'
    BY <2>1 DEF Watching
  <2>3. QED
    BY <1>1, <1>2, <1>3, <2>1, <2>2, EmptyLines DEF StreamInv, Attached, Ordered, Whole
<1>4. CASE ~entry.done
  <2>1. /\ entry'.lines = entry.lines /\ ~entry'.done /\ v \in entry'.subs
        /\ chan'[v].buf = <<>> /\ chan'[v].open /\ view'[v].source = "live"
    BY <1>1, <1>2, <1>4 DEF Subscribe, Entry, Inv, TypeOK
  <2>2. Replayed(v)' = entry.lines
    BY <1>1, <1>2, EmptyLines DEF Replayed
  <2>3. Attached(v)'
    BY <1>2, <2>1 DEF Attached
  <2>4. Ordered(v)'
    BY <1>1, <1>2, <2>1, EmptyLines DEF Ordered
  <2>5. Whole(v)'
    BY <1>1, <1>2, <2>1, <2>2, EmptyLines DEF Whole
  <2>6. QED
    BY <2>3, <2>4, <2>5 DEF StreamInv
<1>5. QED
  BY <1>3, <1>4

LEMMA ReplayKeeps == ASSUME Inv, NEW v \in Viewers, Replay(v) PROVE StreamInv(v)'
<1>1. /\ view[v] \in View /\ view[v].pc = "replay" /\ entry' = entry /\ chan' = chan
      /\ entry.lines \in Nat /\ view[v].have \in Nat /\ Len(view[v].out) \in Nat
      /\ view[v].out \in Seq(Lines) /\ chan[v].buf \in Seq(Lines)
      /\ Attached(v) /\ Ordered(v) /\ Whole(v)
  BY StreamTypes DEF Replay, Inv
<1>2. CASE Len(view[v].out) < view[v].have
  <2>1. PICK n : n = Len(view[v].out) + 1
    OBVIOUS
  <2>2. n \in Nat /\ n \in Lines /\ n <= view[v].have /\ Len(view[v].out) + 1 = n
    BY <1>1, <1>2, <2>1, BoundsAssumption DEF View, Lines
  <2>3. /\ view'[v].pc = "replay" /\ view'[v].source = view[v].source /\ view'[v].have = view[v].have
        /\ view'[v].lost = view[v].lost /\ view'[v].out = Append(view[v].out, n)
    BY <1>1, <1>2, <2>1 DEF Replay, Inv, TypeOK, View
  <2>4. Len(view'[v].out) = n /\ Counted(view'[v].out) /\ Rising(view'[v].out)
    <3>1. Counted(view[v].out) /\ Rising(view[v].out)
      BY <1>1 DEF Ordered
    <3>2. \A i \in 1 .. Len(view[v].out) : view[v].out[i] < n
      BY <1>1, <2>2, <3>1 DEF Counted
    <3>3. Counted(Append(view[v].out, n)) /\ Rising(Append(view[v].out, n))
      BY <1>1, <2>2, <3>1, <3>2, AppendCounted, AppendRising
    <3>4. Len(Append(view[v].out, n)) = n
      BY <1>1, <2>2, AppendProperties
    <3>5. QED
      BY <2>3, <3>3, <3>4
  <2>5. (Watching(v)' <=> Watching(v)) /\ Replayed(v) = view[v].have /\ Replayed(v)' = view[v].have
    BY <1>1, <1>2, <2>2, <2>3, <2>4 DEF Watching, Replayed
  <2>6. Attached(v)'
    BY <1>1, <2>3, <2>5 DEF Attached
  <2>7. Ordered(v)'
    <3>1. view[v].source \in {"buffer", "live"} => Below(view'[v].out, entry.lines)
      <4>1. SUFFICES ASSUME view[v].source \in {"buffer", "live"} PROVE Below(Append(view[v].out, n), entry.lines)
        BY <2>3
      <4>2. view[v].have <= entry.lines /\ Below(view[v].out, entry.lines)
        BY <1>1, <4>1 DEF Ordered
      <4>3. n <= entry.lines
        BY <1>1, <2>2, <4>2
      <4>4. QED
        BY <1>1, <2>2, <4>2, <4>3, AppendBounds
    <3>2. Watching(v) => Before(view'[v].out, chan[v].buf)
      <4>1. SUFFICES ASSUME Watching(v) PROVE Before(Append(view[v].out, n), chan[v].buf)
        BY <2>3
      <4>2. Above(chan[v].buf, view[v].have) /\ Before(view[v].out, chan[v].buf)
        BY <1>1, <4>1 DEF Ordered
      <4>3. Above(chan[v].buf, n)
        <5>1. \A i \in 1 .. Len(chan[v].buf) : chan[v].buf[i] \in Nat
          BY <1>1, LinesNat, ElementOfSeq
        <5>2. QED
          BY <1>1, <2>2, <4>2, <5>1 DEF Above
      <4>4. QED
        BY <1>1, <2>2, <4>2, <4>3, AppendBefore
    <3>3. QED
      BY <1>1, <2>2, <2>3, <2>4, <2>5, <3>1, <3>2 DEF Ordered
  <2>8. Whole(v)'
    BY <1>1, <2>3, <2>4, <2>5 DEF Whole
  <2>9. QED
    BY <2>6, <2>7, <2>8 DEF StreamInv
<1>3. CASE ~(Len(view[v].out) < view[v].have)
  <2>1. /\ view'[v].pc = IF view[v].source = "live" THEN "tail" ELSE "ended"
        /\ view'[v].source = view[v].source /\ view'[v].have = view[v].have
        /\ view'[v].lost = view[v].lost /\ view'[v].out = view[v].out
    BY <1>1, <1>3 DEF Replay, Inv, TypeOK, View
  <2>2. Len(view[v].out) >= view[v].have
    BY <1>1, <1>3
  <2>3. (Watching(v)' <=> Watching(v)) /\ Replayed(v)' = Replayed(v)
    BY <1>1, <2>1 DEF Watching, Replayed
  <2>4. Attached(v)'
    BY <1>1, <2>1, <2>3 DEF Attached
  <2>5. Ordered(v)'
    BY <1>1, <2>1, <2>2, <2>3 DEF Ordered
  <2>6. Whole(v)'
    BY <1>1, <2>1, <2>3 DEF Whole
  <2>7. QED
    BY <2>4, <2>5, <2>6 DEF StreamInv
<1>4. QED
  BY <1>2, <1>3

LEMMA ReceiveKeeps == ASSUME Inv, NEW v \in Viewers, Receive(v) PROVE StreamInv(v)'
<1>1. /\ view[v] \in View /\ chan[v] \in Chan /\ view[v].pc = "tail" /\ view[v].source = "live" /\ entry' = entry
      /\ entry.lines \in Nat /\ view[v].have \in Nat /\ Len(view[v].out) \in Nat /\ Len(chan[v].buf) \in Nat
      /\ view[v].out \in Seq(Lines) /\ chan[v].buf \in Seq(Lines) /\ chan[v].buf # <<>>
      /\ Attached(v) /\ Ordered(v) /\ Whole(v)
  BY StreamTypes DEF Receive, Inv, Attached
<1>2. Watching(v)
  BY <1>1 DEF Watching
<1>3. PICK n, t : n = Head(chan[v].buf) /\ t = Tail(chan[v].buf)
  OBVIOUS
<1>4. /\ n \in Lines /\ n \in Nat /\ t \in Seq(Lines) /\ Len(chan[v].buf) = Len(t) + 1 /\ Len(t) \in Nat
      /\ n = chan[v].buf[1] /\ 1 \in 1 .. Len(chan[v].buf)
      /\ \A i \in 1 .. Len(t) : t[i] = chan[v].buf[i + 1] /\ i + 1 \in 1 .. Len(chan[v].buf)
  <2>1. n \in Lines /\ t \in Seq(Lines) /\ Len(t) = Len(chan[v].buf) - 1 /\ Len(chan[v].buf) > 0
    BY <1>1, <1>3, TailLine
  <2>2. \A i \in 1 .. Len(t) : t[i] = chan[v].buf[i + 1] /\ i + 1 \in 1 .. Len(chan[v].buf)
    BY <1>1, <1>3, TailLine
  <2>3. n = chan[v].buf[1]
    BY <1>1, <1>3, TailLine
  <2>4. QED
    BY <1>1, <2>1, <2>2, <2>3, LinesNat
<1>5. /\ view'[v].pc = "tail" /\ view'[v].source = "live" /\ view'[v].have = view[v].have
      /\ view'[v].lost = view[v].lost /\ view'[v].out = Append(view[v].out, n)
      /\ chan'[v].buf = t /\ chan'[v].open = chan[v].open
  BY <1>1, <1>3 DEF Receive, Inv, TypeOK, View, Chan
<1>6. Watching(v)'
  BY <1>5 DEF Watching
<1>7. Len(view'[v].out) = Len(view[v].out) + 1
  BY <1>1, <1>4, <1>5, AppendProperties
<1>8. Attached(v)'
  BY <1>1, <1>2, <1>5, <1>6 DEF Attached
<1>9. /\ Rising(view[v].out) /\ Rising(chan[v].buf) /\ Below(chan[v].buf, entry.lines)
      /\ Len(view[v].out) >= view[v].have /\ view[v].have <= entry.lines /\ Below(view[v].out, entry.lines)
      /\ Above(chan[v].buf, view[v].have) /\ Before(view[v].out, chan[v].buf)
  BY <1>1, <1>2 DEF Ordered
<1>10. \A i \in 1 .. Len(view[v].out) : view[v].out[i] < n
  BY <1>4, <1>9 DEF Before
<1>11. Rising(t) /\ Above(t, n)
  BY <1>1, <1>3, <1>9, TailRising DEF Above
<1>12. Below(t, entry.lines) /\ Above(t, view[v].have) /\ n <= entry.lines
  BY <1>1, <1>3, <1>9, TailBounds
<1>13. Ordered(v)'
  <2>1. Rising(Append(view[v].out, n)) /\ Below(Append(view[v].out, n), entry.lines)
    BY <1>1, <1>4, <1>9, <1>10, <1>12, AppendRising, AppendBounds
  <2>2. Before(view[v].out, t)
    BY <1>4, <1>9 DEF Before
  <2>3. Before(Append(view[v].out, n), t)
    BY <1>1, <1>4, <1>11, <2>2, AppendBefore
  <2>4. QED
    BY <1>1, <1>5, <1>6, <1>7, <1>9, <1>11, <1>12, <2>1, <2>3 DEF Ordered
<1>14. Whole(v)'
  <2>1. Replayed(v) = Len(view[v].out) /\ Replayed(v)' = Len(view[v].out) + 1
    BY <1>1, <1>5, <1>7, <1>9 DEF Replayed
  <2>2. SUFFICES ASSUME ~view[v].lost
                 PROVE  /\ Replayed(v)' + Len(t) = entry.lines /\ Counted(Append(view[v].out, n))
                        /\ \A i \in 1 .. Len(t) : t[i] = Replayed(v)' + i
    BY <1>1, <1>5 DEF Whole
  <2>3. /\ Replayed(v) + Len(chan[v].buf) = entry.lines /\ Counted(view[v].out)
        /\ \A i \in 1 .. Len(chan[v].buf) : chan[v].buf[i] = Replayed(v) + i
    BY <1>1, <1>2, <2>2 DEF Whole
  <2>4. Replayed(v)' + Len(t) = entry.lines
    <3>1. Len(view[v].out) + (Len(t) + 1) = entry.lines
      BY <1>4, <2>1, <2>3
    <3>2. \A a, b \in Nat : a + (b + 1) = (a + 1) + b
      OBVIOUS
    <3>3. (Len(view[v].out) + 1) + Len(t) = entry.lines
      <4>1. Len(view[v].out) \in Nat /\ Len(t) \in Nat
        BY <1>1, <1>4
      <4>2. QED
        BY <3>1, <3>2, <4>1
    <3>4. QED
      BY <2>1, <3>3
  <2>5. n = Len(view[v].out) + 1
    BY <1>4, <2>1, <2>3
  <2>6. Counted(Append(view[v].out, n))
    BY <1>1, <1>4, <2>3, <2>5, AppendCounted
  <2>7. ASSUME NEW i \in 1 .. Len(t) PROVE t[i] = Replayed(v)' + i
    <3>1. t[i] = Replayed(v) + (i + 1)
      BY <1>4, <2>3
    <3>2. \A a, b \in Nat : a + (b + 1) = (a + 1) + b
      OBVIOUS
    <3>3. Len(view[v].out) + (i + 1) = (Len(view[v].out) + 1) + i
      <4>1. Len(view[v].out) \in Nat /\ i \in Nat
        BY <1>1, <1>4, <2>7
      <4>2. QED
        BY <3>2, <4>1
    <3>4. QED
      BY <2>1, <3>1, <3>3
  <2>8. QED
    BY <2>4, <2>6, <2>7
<1>15. QED
  BY <1>8, <1>13, <1>14 DEF StreamInv

\* The stream is over, or its browser is gone.
LEMMA EndKeeps ==
    ASSUME Inv, NEW v \in Viewers, SeeClosed(v) \/ Disconnect(v) PROVE StreamInv(v)'
<1>1. /\ view[v] \in View /\ entry' = entry /\ chan' = chan /\ view[v].pc \in {"replay", "tail"}
      /\ Attached(v) /\ Ordered(v) /\ (SeeClosed(v) => ~chan[v].open)
  BY StreamTypes DEF SeeClosed, Disconnect, Inv
<1>2. /\ view'[v].pc = IF SeeClosed(v) THEN "ended" ELSE "left"
      /\ view'[v].source = view[v].source /\ view'[v].have = view[v].have
      /\ view'[v].lost = view[v].lost /\ view'[v].out = view[v].out
  BY <1>1 DEF SeeClosed, Disconnect, Inv, TypeOK, View
<1>3. ~Watching(v)'
  BY <1>2 DEF Watching
<1>4. QED
  BY <1>1, <1>2, <1>3 DEF StreamInv, Attached, Ordered, Whole

LEMMA FreshStream ==
    ASSUME NEW v, view'[v] = NoView, chan'[v] = NoChan, v \notin entry'.subs PROVE StreamInv(v)'
<1>1. ~Watching(v)'
  BY DEF Watching, NoView
<1>2. Attached(v)'
  BY <1>1 DEF Attached, NoView
<1>3. Ordered(v)'
  BY <1>1, EmptyLines DEF Ordered, NoView, NoChan
<1>4. QED
  BY <1>1, <1>2, <1>3 DEF StreamInv, Whole

LEMMA InvNext == ASSUME Inv, [Next]_vars PROVE Inv'
<1>1. TypeOK'
  BY TypeNext DEF Inv
<1>2. TypeOK /\ ManagerInv /\ \A v \in Viewers : StreamInv(v)
  BY InvStreams
<1>3. SUFFICES ManagerInv' /\ \A w \in Viewers : StreamInv(w)'
  BY <1>1 DEF Inv, StreamInv
<1>4. entry \in Entry
  BY <1>2 DEF TypeOK
<1>5. CASE Log
  <2>1. writer = "working" /\ ~entry'.done
    BY <1>2, <1>4, <1>5 DEF Log, ManagerInv, Entry
  <2>2. QED
    BY <1>5, <2>1, LogKeeps DEF ManagerInv
<1>6. CASE FinalizeStatus \/ FinalizeLog \/ StatusByAnother
  <2>1. entry' = entry /\ chan' = chan /\ view' = view /\ (writer # "gone" \/ writer' = writer)
    BY <1>6 DEF FinalizeStatus, FinalizeLog, StatusByAnother
  <2>2. QED
    BY <1>2, <2>1, Elsewhere DEF ManagerInv
<1>7. CASE Complete
  <2>1. ManagerInv'
    BY <1>4, <1>7 DEF Complete, ManagerInv, Entry
  <2>2. QED
    BY <1>7, <2>1, CompleteKeeps
<1>8. CASE Crash
  <2>1. ManagerInv'
    BY <1>8 DEF Crash, ManagerInv, NoEntry
  <2>2. \A w \in Viewers : view'[w] = NoView /\ chan'[w] = NoChan /\ w \notin entry'.subs
    BY <1>8 DEF Crash, NoEntry
  <2>3. QED
    BY <2>1, <2>2, FreshStream
<1>9. ASSUME NEW v \in Viewers, Open(v) \/ Stream(v) \/ Disconnect(v)
      PROVE  ManagerInv' /\ \A w \in Viewers : StreamInv(w)'
  <2>1. /\ entry'.lines = entry.lines /\ entry'.done = entry.done /\ writer' = writer
        /\ entry.done => entry'.subs = entry.subs \/ entry'.subs = entry.subs \ {v}
        /\ \A w \in Viewers \ {v} : /\ view'[w] = view[w] /\ chan'[w] = chan[w]
                                    /\ w \in entry'.subs <=> w \in entry.subs
    <3>1. CASE Subscribe(v)
      BY <1>2, <1>4, <3>1 DEF Subscribe, TypeOK, Entry
    <3>2. CASE Unsubscribe(v)
      BY <1>2, <1>4, <3>2 DEF Unsubscribe, TypeOK, Entry
    <3>3. CASE Open(v) \/ Replay(v) \/ Receive(v) \/ SeeClosed(v) \/ Disconnect(v)
      BY <1>2, <3>3 DEF Open, Replay, Receive, SeeClosed, Disconnect, TypeOK
    <3>4. QED
      BY <1>9, <3>1, <3>2, <3>3 DEF Stream
  <2>2. ManagerInv'
    BY <1>2, <2>1 DEF ManagerInv
  <2>3. \A w \in Viewers \ {v} : StreamInv(w)'
    BY <1>2, <2>1, Elsewhere
  <2>4. StreamInv(v)'
    <3>1. CASE Unsubscribe(v)
      <4>1. view'[v] = NoView /\ chan'[v] = NoChan /\ v \notin entry'.subs
        BY <1>2, <1>4, <3>1 DEF Unsubscribe, TypeOK, Entry
      <4>2. QED
        BY <4>1, FreshStream
    <3>2. QED
      BY <1>9, <3>1, OpenKeeps, SubscribeKeeps, ReplayKeeps, ReceiveKeeps, EndKeeps DEF Stream
  <2>5. QED
    BY <2>2, <2>3, <2>4
<1>10. CASE UNCHANGED vars
  BY <1>2, <1>10, Elsewhere DEF vars, ManagerInv
<1>11. QED
  BY <1>5, <1>6, <1>7, <1>8, <1>9, <1>10 DEF Next, Creation

-----------------------------------------------------------------------------
(* The invariants that the runs check.                                     *)

LEMMA SpecInv == Spec => []Inv
<1>1. Init => Inv
  <2>1. SUFFICES ASSUME Init PROVE ManagerInv /\ \A v \in Viewers : Attached(v) /\ Ordered(v) /\ Whole(v)
    BY TypeInit DEF Inv
  <2>2. ManagerInv
    BY <2>1 DEF Init, NoEntry, ManagerInv
  <2>3. ASSUME NEW v \in Viewers PROVE Attached(v) /\ Ordered(v) /\ Whole(v)
    <3>1. view[v] = NoView /\ chan[v] = NoChan /\ v \notin entry.subs
      BY <2>1 DEF Init, NoEntry
    <3>2. ~Watching(v)
      BY <3>1 DEF Watching, NoView
    <3>3. QED
      BY <3>1, <3>2, EmptyLines DEF Attached, Ordered, Whole, NoView, NoChan
  <2>4. QED
    BY <2>2, <2>3
<1>2. QED
  BY <1>1, InvNext, PTL DEF Spec

\* Every reachable state is well typed, whatever the capacity of a channel.
THEOREM TypeCorrect == Spec => []TypeOK
BY SpecInv, PTL DEF Inv

\* What a stream has sent, has to replay and finds in its channel is the whole
\* log so far, unless a line was dropped: Subscribe, which takes the lines and
\* adds the channel under one lock, leaves no gap and no overlap.
THEOREM NoneMissed == Spec => []NothingMissed
<1>1. Inv => NothingMissed
  BY DEF Inv, Whole, NothingMissed, Counted
<1>2. QED
  BY <1>1, SpecInv, PTL

\* The lines that arrive are in order, also after a drop.
THEOREM LinesInOrder == Spec => []InOrder
<1>1. ASSUME Inv, NEW v \in Viewers
      PROVE  /\ \A i \in 2 .. Len(view[v].out) : view[v].out[i - 1] < view[v].out[i]
             /\ \A i \in 2 .. Len(chan[v].buf) : chan[v].buf[i - 1] < chan[v].buf[i]
  <2>1. Rising(view[v].out) /\ Rising(chan[v].buf)
    BY <1>1 DEF Inv, Ordered
  <2>2. Len(view[v].out) \in Nat /\ Len(chan[v].buf) \in Nat
    BY <1>1, StreamTypes DEF Inv
  <2>3. \A m \in Nat : \A i \in 2 .. m : i \in 1 .. m /\ i - 1 \in 1 .. m /\ i - 1 < i
    OBVIOUS
  <2>4. QED
    BY <2>1, <2>2, <2>3 DEF Rising
<1>2. Inv => InOrder
  BY <1>1 DEF InOrder
<1>3. QED
  BY <1>2, SpecInv, PTL

\* Log never sends on a closed channel, and Complete leaves no stream behind
\* that waits for an open one.
THEOREM NoneLeftBehind == Spec => []SubscribersOpen
<1>1. Inv => SubscribersOpen
  <2>1. Inv => entry.subs \subseteq Viewers
    BY DEF Inv, TypeOK, Entry
  <2>2. QED
    BY <2>1 DEF Inv, Attached, SubscribersOpen
<1>2. QED
  BY <1>1, SpecInv, PTL

-----------------------------------------------------------------------------
(* The safety half of StreamEndsUncrashed.                                 *)

\* A stream that only the creation goroutine can move.
Waits(v) == view[v].pc = "tail" /\ chan[v].buf = <<>> /\ chan[v].open
WriterCompletes == writer = "gone" => entry.done \/ crashes > 0
WaitsForWriter == \A v \in Viewers : Waits(v) => writer # "gone" \/ crashes > 0

LEMMA CompletesNext == ASSUME Inv, WriterCompletes, [Next]_vars PROVE WriterCompletes'
<1>1. crashes \in Nat /\ entry \in Entry
  BY BoundsAssumption DEF Inv, TypeOK
<1>2. CASE Log \/ FinalizeStatus \/ FinalizeLog \/ StatusByAnother
  BY <1>1, <1>2 DEF Log, FinalizeStatus, FinalizeLog, StatusByAnother, WriterCompletes, Entry
<1>3. CASE Complete
  <2>1. entry'.done
    BY <1>1, <1>3 DEF Complete, Entry
  <2>2. QED
    BY <2>1 DEF WriterCompletes
<1>4. CASE Crash
  <2>1. crashes' = crashes + 1
    BY <1>4 DEF Crash
  <2>2. crashes' > 0
    BY <1>1, <2>1
  <2>3. QED
    BY <2>2 DEF WriterCompletes
<1>5. ASSUME NEW v \in Viewers, Open(v) \/ Stream(v) \/ Disconnect(v) PROVE WriterCompletes'
  <2>1. writer' = writer /\ crashes' = crashes /\ entry'.done = entry.done
    BY <1>1, <1>5 DEF Open, Stream, Disconnect, Subscribe, Replay, Receive, SeeClosed, Unsubscribe, Entry
  <2>2. QED
    BY <2>1 DEF WriterCompletes
<1>6. CASE UNCHANGED vars
  BY <1>6 DEF vars, WriterCompletes
<1>7. QED
  BY <1>2, <1>3, <1>4, <1>5, <1>6 DEF Next, Creation

\* No stream tails an open and empty channel that nobody will write to or close:
\* the goroutine of CreateAsync, which ends with Complete, is still there, unless
\* the server has crashed.
THEOREM StreamsAreServed == Spec => []WaitsForWriter
<1>1. Init => WriterCompletes
  BY DEF Init, WriterCompletes
<1>2. Inv /\ WriterCompletes => WaitsForWriter
  <2>1. SUFFICES ASSUME Inv, WriterCompletes, NEW v \in Viewers, Waits(v), writer = "gone"
                 PROVE  crashes > 0
    BY DEF WaitsForWriter
  <2>2. v \in entry.subs
    BY <2>1 DEF Inv, Attached, Waits, Watching
  <2>3. ~entry.done
    BY <2>1, <2>2 DEF Inv, ManagerInv
  <2>4. QED
    BY <2>1, <2>3 DEF WriterCompletes
<1>3. Inv /\ WriterCompletes /\ [Next]_vars => WriterCompletes'
  BY CompletesNext
<1>4. QED
  BY <1>1, <1>2, <1>3, SpecInv, PTL DEF Spec

-----------------------------------------------------------------------------
(* The refinement: what a viewer of LogStream is, has seen and has missed. *)

StateOf(v) ==
    IF ~Subscribed(v) \/ view[v].pc = "off" THEN "off" ELSE IF view[v].pc = "ended" THEN "told" ELSE "on"
LastSeen(v) == IF Subscribed(v) /\ view[v].out # <<>> THEN view[v].out[Len(view[v].out)] ELSE 0
AbsState == [v \in Viewers |-> StateOf(v)]
AbsSeen == [v \in Viewers |-> LastSeen(v)]
AbsSlow == [v \in Viewers |-> view[v].lost]

\* A stream that has sent every line up to the last one has seen that one.
LEMMA SeenCounted ==
    ASSUME TypeOK, NEW v \in Viewers, Counted(view[v].out), Subscribed(v)
    PROVE  LastSeen(v) = Len(view[v].out)
<1>1. view[v].out \in Seq(Lines) /\ Len(view[v].out) \in Nat
  BY StreamTypes
<1>2. CASE view[v].out = <<>>
  BY <1>2, EmptyLines DEF LastSeen
<1>3. CASE view[v].out # <<>>
  <2>1. Len(view[v].out) \in 1 .. Len(view[v].out)
    BY <1>1, <1>3, EmptySeq
  <2>2. QED
    BY <1>3, <2>1 DEF LastSeen, Counted
<1>4. QED
  BY <1>2, <1>3

\* Nothing that the viewers could see has changed.
LEMMA Stutter ==
    ASSUME entry'.lines = entry.lines, entry'.done = entry.done, AbsState' = AbsState, AbsSeen' = AbsSeen, AbsSlow' = AbsSlow
    PROVE  UNCHANGED Promise!vars
BY DEF Promise!vars, AbsState, AbsSeen, AbsSlow, StateOf, LastSeen, Subscribed

Same(w) == StateOf(w)' = StateOf(w) /\ LastSeen(w)' = LastSeen(w) /\ (view'[w].lost <=> view[w].lost)
LEMMA AbsSame ==
    ASSUME NEW w, view'[w] = view[w] PROVE Same(w)
BY DEF Same, StateOf, LastSeen, Subscribed

LEMMA LostSame ==
    ASSUME TypeOK, TypeOK', NEW w \in Viewers, view'[w].lost <=> view[w].lost
    PROVE  view'[w].lost = view[w].lost
BY DEF TypeOK, View

\* A step of one stream in terms of its viewer.
LEMMA StepStutter ==
    ASSUME TypeOK, TypeOK', entry'.lines = entry.lines, entry'.done = entry.done, \A w \in Viewers : Same(w)
    PROVE  UNCHANGED Promise!vars
<1>1. AbsState' = AbsState /\ AbsSeen' = AbsSeen
  BY DEF AbsState, AbsSeen, Same
<1>2. AbsSlow' = AbsSlow
  BY LostSame DEF Same, AbsSlow
<1>3. QED
  BY <1>1, <1>2, Stutter

LEMMA StepWatch ==
    ASSUME TypeOK, TypeOK', NEW v \in Viewers, entry'.lines = entry.lines, entry'.done = entry.done,
           \A w \in Viewers \ {v} : Same(w),
           StateOf(v) = "off", StateOf(v)' = "on", LastSeen(v)' = LastSeen(v), view'[v].lost <=> view[v].lost
    PROVE  Promise!Watch(v)
<1>1. AbsState[v] = "off" /\ AbsState' = [AbsState EXCEPT ![v] = "on"] /\ AbsSeen' = AbsSeen
  BY DEF AbsState, AbsSeen, Same
<1>2. AbsSlow' = AbsSlow
  BY LostSame DEF Same, AbsSlow
<1>3. QED
  BY <1>1, <1>2 DEF Promise!Watch, AbsState, AbsSeen, AbsSlow, StateOf, LastSeen, Subscribed

LEMMA StepSee ==
    ASSUME TypeOK, TypeOK', NEW v \in Viewers, NEW n, entry'.lines = entry.lines, entry'.done = entry.done,
           \A w \in Viewers \ {v} : Same(w),
           StateOf(v) = "on", StateOf(v)' = "on", view'[v].lost <=> view[v].lost,
           n \in LastSeen(v) + 1 .. entry.lines, ~view[v].lost => n = LastSeen(v) + 1, LastSeen(v)' = n
    PROVE  Promise!See(v)
<1>1. AbsState[v] = "on" /\ AbsState' = AbsState /\ AbsSeen' = [AbsSeen EXCEPT ![v] = n] /\ AbsSeen[v] = LastSeen(v)
  BY DEF AbsState, AbsSeen, Same
<1>2. AbsSlow' = AbsSlow /\ AbsSlow[v] = view[v].lost
  BY LostSame DEF Same, AbsSlow
<1>3. n \in AbsSeen[v] + 1 .. entry.lines /\ (~AbsSlow[v] => n = AbsSeen[v] + 1)
  BY <1>1, <1>2
<1>4. QED
  BY <1>1, <1>2, <1>3 DEF Promise!See, AbsState, AbsSeen, AbsSlow, StateOf, LastSeen, Subscribed

LEMMA StepTold ==
    ASSUME TypeOK, TypeOK', NEW v \in Viewers, entry'.lines = entry.lines, entry'.done = entry.done, entry.done,
           \A w \in Viewers \ {v} : Same(w),
           StateOf(v) = "on", StateOf(v)' = "told", view'[v].lost <=> view[v].lost,
           ~view[v].lost => LastSeen(v) = entry.lines, LastSeen(v)' = LastSeen(v)
    PROVE  Promise!BeTold(v)
<1>1. AbsState[v] = "on" /\ AbsState' = [AbsState EXCEPT ![v] = "told"] /\ AbsSeen' = AbsSeen /\ AbsSeen[v] = LastSeen(v)
  BY DEF AbsState, AbsSeen, Same
<1>2. AbsSlow' = AbsSlow /\ AbsSlow[v] = view[v].lost
  BY LostSame DEF Same, AbsSlow
<1>3. ~AbsSlow[v] => AbsSeen[v] = entry.lines
  BY <1>1, <1>2
<1>4. QED
  BY <1>1, <1>2, <1>3 DEF Promise!BeTold, AbsState, AbsSeen, AbsSlow, StateOf, LastSeen, Subscribed

LEMMA StepLeave ==
    ASSUME TypeOK, TypeOK', NEW v \in Viewers, entry'.lines = entry.lines, entry'.done = entry.done,
           \A w \in Viewers \ {v} : Same(w),
           StateOf(v) # "off", StateOf(v)' = "off", LastSeen(v)' = 0, ~view'[v].lost
    PROVE  Promise!Leave(v)
<1>1. /\ AbsState[v] # "off" /\ AbsState' = [AbsState EXCEPT ![v] = "off"]
      /\ AbsSeen' = [AbsSeen EXCEPT ![v] = 0]
  BY DEF AbsState, AbsSeen, Same
<1>2. AbsSlow' = [AbsSlow EXCEPT ![v] = FALSE]
  <2>1. \A w \in Viewers \ {v} : view'[w].lost = view[w].lost
    BY LostSame DEF Same
  <2>2. view'[v].lost = FALSE
    BY DEF TypeOK, View
  <2>3. QED
    BY <2>1, <2>2 DEF AbsSlow
<1>3. QED
  BY <1>1, <1>2 DEF Promise!Leave, AbsState, AbsSeen, AbsSlow, StateOf, LastSeen, Subscribed

LEMMA AbsInit == Init => Promise!Init
BY DEF Init, NoEntry, NoView, Promise!Init, Subscribed

LEMMA AbsLog == ASSUME Inv, Log PROVE Promise!AddLine
<1>1. /\ entry.lines < MaxLines /\ entry'.lines = entry.lines + 1 /\ entry'.done = entry.done /\ ~entry.done
  <2>1. entry \in Entry /\ writer = "working" /\ entry' = [entry EXCEPT !.lines = entry.lines + 1]
    BY DEF Inv, TypeOK, Log
  <2>2. QED
    BY <2>1 DEF Log, Inv, ManagerInv, Entry
<1>2. TypeOK'
  BY TypeNext DEF Inv, Next, Creation
<1>3. ASSUME NEW v \in Viewers
      PROVE  /\ StateOf(v)' = StateOf(v) /\ LastSeen(v)' = LastSeen(v)
             /\ view'[v].lost \in BOOLEAN
             /\ view'[v].lost # view[v].lost => view'[v].lost /\ StateOf(v) = "on"
  <2>1. /\ view[v] \in View /\ view[v].lost \in BOOLEAN /\ view'[v].lost \in BOOLEAN
    BY <1>2, StreamTypes DEF Inv, TypeOK, View
  <2>2. /\ view'[v].pc = view[v].pc /\ view'[v].source = view[v].source /\ view'[v].out = view[v].out
        /\ view'[v].lost <=> view[v].lost \/ (v \in entry.subs /\ Full(v))
    <3>1. view'[v] = [view[v] EXCEPT !.lost = view[v].lost \/ (v \in entry.subs /\ Full(v))]
      BY DEF Log
    <3>2. QED
      BY <2>1, <3>1 DEF View
  <2>3. v \in entry.subs => StateOf(v) = "on"
    BY DEF Inv, Attached, StateOf, Subscribed
  <2>4. QED
    BY <2>1, <2>2, <2>3 DEF StateOf, LastSeen, Subscribed
<1>4. AbsState' = AbsState /\ AbsSeen' = AbsSeen
  BY <1>3 DEF AbsState, AbsSeen
<1>5. AbsSlow' \in [Viewers -> BOOLEAN] /\ \A v \in Viewers : AbsSlow'[v] # AbsSlow[v] => AbsSlow'[v] /\ AbsState[v] = "on"
  BY <1>3 DEF AbsSlow, AbsState
<1>6. QED
  BY <1>1, <1>4, <1>5 DEF Promise!AddLine, AbsState, AbsSeen, AbsSlow, StateOf, LastSeen, Subscribed

LEMMA AbsComplete == ASSUME Inv, Complete PROVE Promise!Finish
<1>1. ~entry.done /\ entry'.done = TRUE /\ entry'.lines = entry.lines /\ view' = view
  BY DEF Inv, ManagerInv, Complete, TypeOK, Entry
<1>2. AbsState' = AbsState /\ AbsSeen' = AbsSeen /\ AbsSlow' = AbsSlow
  BY <1>1 DEF AbsState, AbsSeen, AbsSlow, StateOf, LastSeen, Subscribed
<1>3. QED
  BY <1>1, <1>2 DEF Promise!Finish, AbsState, AbsSeen, AbsSlow, StateOf, LastSeen, Subscribed

LEMMA Unseen ==
    ASSUME NEW v
    PROVE  /\ ~Subscribed(v) => StateOf(v) = "off" /\ LastSeen(v) = 0
           /\ ~Subscribed(v)' => StateOf(v)' = "off" /\ LastSeen(v)' = 0
<1>1. ASSUME ~Subscribed(v) PROVE StateOf(v) = "off" /\ LastSeen(v) = 0
  <2>1. StateOf(v) = "off"
    BY <1>1 DEF StateOf
  <2>2. LastSeen(v) = 0
    BY <1>1 DEF LastSeen
  <2>3. QED
    BY <2>1, <2>2
<1>2. ASSUME ~Subscribed(v)' PROVE StateOf(v)' = "off" /\ LastSeen(v)' = 0
  <2>1. StateOf(v)' = "off"
    BY <1>2 DEF StateOf
  <2>2. LastSeen(v)' = 0
    BY <1>2 DEF LastSeen
  <2>3. QED
    BY <2>1, <2>2
<1>3. QED
  BY <1>1, <1>2

LEMMA AbsCrash == ASSUME Crash PROVE Promise!Restart
<1>1. entry'.lines = 0 /\ entry'.done = FALSE /\ \A v \in Viewers : view'[v] = NoView
  BY DEF Crash, NoEntry
<1>2. /\ AbsState' = [v \in Viewers |-> "off"] /\ AbsSeen' = [v \in Viewers |-> 0]
      /\ AbsSlow' = [v \in Viewers |-> FALSE]
  <2>1. ASSUME NEW v \in Viewers PROVE StateOf(v)' = "off" /\ LastSeen(v)' = 0 /\ view'[v].lost = FALSE
    <3>1. ~Subscribed(v)' /\ view'[v].lost = FALSE
      BY <1>1 DEF Subscribed, NoView
    <3>2. QED
      BY <3>1, Unseen
  <2>2. QED
    BY <2>1 DEF AbsState, AbsSeen, AbsSlow
<1>3. QED
  BY <1>1, <1>2 DEF Promise!Restart, AbsState, AbsSeen, AbsSlow, StateOf, LastSeen, Subscribed

Quietly == UNCHANGED Promise!vars

LEMMA AbsStream ==
    ASSUME Inv, Inv', NEW v \in Viewers, Open(v) \/ Stream(v) \/ Disconnect(v)
    PROVE  Quietly \/ Promise!Watch(v) \/ Promise!See(v) \/ Promise!BeTold(v) \/ Promise!Leave(v)
<1>1. TypeOK /\ TypeOK' /\ Attached(v) /\ Ordered(v) /\ Whole(v) /\ entry \in Entry /\ view[v] \in View
  BY DEF Inv, TypeOK
<1>2. /\ entry'.lines = entry.lines /\ entry'.done = entry.done
      /\ \A w \in Viewers \ {v} : view'[w] = view[w]
  BY <1>1 DEF Open, Stream, Subscribe, Replay, Receive, SeeClosed, Unsubscribe, Disconnect, TypeOK, Entry
<1>3. \A w \in Viewers \ {v} : Same(w)
  BY <1>2, AbsSame
<1>4. ASSUME Same(v) PROVE Quietly
  BY <1>1, <1>2, <1>3, <1>4, StepStutter DEF Quietly
<1>5. CASE Open(v)
  <2>1. Same(v)
    <3>1. view[v].pc = "off" /\ view[v].source = "none" /\ view[v].lost = FALSE
      BY <1>1, <1>5 DEF Open, Attached, View
    <3>2. view'[v].source \in {"none", "row"} /\ view'[v].lost = FALSE
      BY <1>5 DEF Open, Inv, TypeOK, NoView
    <3>3. ~Subscribed(v) /\ ~Subscribed(v)'
      BY <3>1, <3>2 DEF Subscribed
    <3>4. QED
      BY <3>1, <3>2, <3>3, Unseen DEF Same
  <2>2. QED
    BY <1>4, <2>1
<1>6. CASE Subscribe(v)
  <2>1. view[v].pc = "subscribe" /\ view[v].source = "none" /\ view[v].out = <<>>
    BY <1>1, <1>6 DEF Subscribe, Attached
  <2>2. /\ view'[v].pc = "replay" /\ view'[v].source \in {"buffer", "live"} /\ view'[v].out = <<>>
        /\ view'[v].lost = view[v].lost
    BY <1>1, <1>6, <2>1 DEF Subscribe, TypeOK, View
  <2>3. StateOf(v) = "off" /\ StateOf(v)' = "on" /\ LastSeen(v)' = LastSeen(v)
    BY <2>1, <2>2 DEF StateOf, LastSeen, Subscribed
  <2>4. QED
    BY <1>1, <1>2, <1>3, <2>2, <2>3, StepWatch
<1>7. CASE Replay(v)
  <2>1. view[v].pc = "replay"
    BY <1>7 DEF Replay
  <2>2. CASE ~Subscribed(v)
    <3>1. view'[v].source = view[v].source /\ view'[v].lost = view[v].lost
      BY <1>1, <1>7 DEF Replay, TypeOK, View
    <3>2. Same(v)
      <4>1. ~Subscribed(v)'
        BY <2>2, <3>1 DEF Subscribed
      <4>2. QED
        BY <2>2, <3>1, <4>1, Unseen DEF Same
    <3>3. QED
      BY <1>4, <3>2
  <2>3. CASE Subscribed(v) /\ Len(view[v].out) < view[v].have
    <3>1. PICK n : n = Len(view[v].out) + 1
      OBVIOUS
    <3>2. /\ view'[v].pc = "replay" /\ view'[v].source = view[v].source /\ view'[v].lost = view[v].lost
          /\ view'[v].out = Append(view[v].out, n)
      BY <1>1, <1>7, <2>3, <3>1 DEF Replay, TypeOK, View
    <3>3. Counted(view[v].out) /\ Counted(view'[v].out) /\ view[v].have <= entry.lines
      BY <1>1, <2>1, <2>3, <3>2 DEF Ordered, Inv, Subscribed
    <3>4. LastSeen(v) = Len(view[v].out)
      BY <1>1, <2>3, <3>3, SeenCounted
    <3>5. Len(view[v].out) \in Nat /\ view[v].have \in Nat /\ entry.lines \in Nat /\ view[v].out \in Seq(Lines)
      BY <1>1, StreamTypes
    <3>6. n \in Lines /\ n \in LastSeen(v) + 1 .. entry.lines
      BY <1>1, <2>3, <3>1, <3>3, <3>4, <3>5, BoundsAssumption DEF View, Lines
    <3>7. LastSeen(v)' = n
      <4>1. /\ Append(view[v].out, n) # <<>> /\ Len(Append(view[v].out, n)) = n
            /\ Append(view[v].out, n)[Len(view[v].out) + 1] = n
        BY <3>1, <3>5, <3>6, AppendProperties
      <4>2. QED
        BY <2>3, <3>1, <3>2, <4>1 DEF LastSeen, Subscribed
    <3>8. StateOf(v) = "on" /\ StateOf(v)' = "on"
      BY <2>1, <2>3, <3>2 DEF StateOf, Subscribed
    <3>9. n = LastSeen(v) + 1
      BY <3>1, <3>4
    <3>10. QED
      BY <1>1, <1>2, <1>3, <3>2, <3>6, <3>7, <3>8, <3>9, StepSee
  <2>4. CASE Subscribed(v) /\ ~(Len(view[v].out) < view[v].have)
    <3>1. /\ view'[v].pc = IF view[v].source = "live" THEN "tail" ELSE "ended"
          /\ view'[v].source = view[v].source /\ view'[v].lost = view[v].lost /\ view'[v].out = view[v].out
      BY <1>1, <1>7, <2>4 DEF Replay, TypeOK, View
    <3>2. CASE view[v].source = "live"
      <4>1. Same(v)
        BY <2>1, <3>1, <3>2 DEF Same, StateOf, LastSeen, Subscribed
      <4>2. QED
        BY <1>4, <4>1
    <3>3. CASE view[v].source = "buffer"
      <4>1. entry.done /\ view[v].have = entry.lines /\ Counted(view[v].out) /\ Len(view[v].out) <= view[v].have
        BY <1>1, <2>1, <3>3 DEF Attached, Ordered
      <4>2. LastSeen(v) = entry.lines
        <5>1. Len(view[v].out) \in Nat /\ view[v].have \in Nat
          BY <1>1, StreamTypes
        <5>2. Len(view[v].out) = entry.lines
          BY <2>4, <4>1, <5>1
        <5>3. QED
          BY <1>1, <2>4, <4>1, <5>2, SeenCounted
      <4>3. StateOf(v) = "on" /\ StateOf(v)' = "told" /\ LastSeen(v)' = LastSeen(v)
        BY <2>1, <3>1, <3>3 DEF StateOf, LastSeen, Subscribed
      <4>4. QED
        BY <1>1, <1>2, <1>3, <3>1, <4>1, <4>2, <4>3, StepTold
    <3>4. QED
      BY <2>4, <3>2, <3>3 DEF Subscribed
  <2>5. QED
    BY <2>2, <2>3, <2>4
<1>8. CASE Receive(v)
  <2>1. /\ view[v].pc = "tail" /\ view[v].source = "live" /\ chan[v].buf # <<>> /\ Watching(v)
    BY <1>1, <1>8 DEF Receive, Attached, Watching
  <2>2. PICK n : n = Head(chan[v].buf)
    OBVIOUS
  <2>3. /\ view'[v].pc = "tail" /\ view'[v].source = "live" /\ view'[v].lost = view[v].lost
        /\ view'[v].out = Append(view[v].out, n)
    BY <1>1, <1>8, <2>1, <2>2 DEF Receive, TypeOK, View
  <2>4. /\ view[v].out \in Seq(Lines) /\ chan[v].buf \in Seq(Lines) /\ Len(view[v].out) \in Nat
        /\ entry.lines \in Nat /\ view[v].have \in Nat
    BY <1>1, StreamTypes
  <2>5. n \in Lines /\ n \in Nat /\ n = chan[v].buf[1] /\ 1 \in 1 .. Len(chan[v].buf)
    <3>1. n \in Lines /\ n = chan[v].buf[1] /\ Len(chan[v].buf) \in Nat /\ Len(chan[v].buf) > 0
      BY <2>1, <2>2, <2>4, TailLine
    <3>2. QED
      BY <3>1, LinesNat
  <2>6. n <= entry.lines /\ Len(view[v].out) >= view[v].have
    BY <1>1, <2>1, <2>5 DEF Ordered, Below
  <2>7. LastSeen(v) \in Nat /\ LastSeen(v) < n
    <3>1. CASE view[v].out = <<>>
      BY <2>5, <3>1, LinesNat DEF LastSeen
    <3>2. CASE view[v].out # <<>>
      <4>1. Len(view[v].out) \in 1 .. Len(view[v].out)
        BY <2>4, <3>2, EmptySeq
      <4>2. LastSeen(v) = view[v].out[Len(view[v].out)] /\ view[v].out[Len(view[v].out)] \in Nat
        BY <2>1, <2>4, <3>2, <4>1, ElementOfSeq, LinesNat DEF LastSeen, Subscribed
      <4>3. view[v].out[Len(view[v].out)] < chan[v].buf[1]
        BY <1>1, <2>1, <2>5, <4>1 DEF Ordered, Before
      <4>4. QED
        BY <2>5, <4>2, <4>3
    <3>3. QED
      BY <3>1, <3>2
  <2>8. ~view[v].lost => n = LastSeen(v) + 1
    <3>1. SUFFICES ASSUME ~view[v].lost PROVE n = LastSeen(v) + 1
      OBVIOUS
    <3>2. Counted(view[v].out) /\ n = Replayed(v) + 1
      BY <1>1, <2>1, <2>5, <3>1 DEF Whole
    <3>3. LastSeen(v) = Len(view[v].out)
      BY <1>1, <2>1, <3>2, SeenCounted DEF Subscribed
    <3>4. Replayed(v) = Len(view[v].out)
      BY <2>4, <2>6 DEF Replayed
    <3>5. QED
      BY <3>2, <3>3, <3>4
  <2>9. LastSeen(v)' = n
    <3>1. /\ Append(view[v].out, n) # <<>> /\ Len(Append(view[v].out, n)) = Len(view[v].out) + 1
          /\ Append(view[v].out, n)[Len(view[v].out) + 1] = n
      <4>1. view[v].out \in Seq(Lines) /\ n \in Lines
        BY <2>4, <2>5
      <4>2. QED
        BY <4>1, AppendProperties
    <3>2. QED
      BY <2>3, <3>1 DEF LastSeen, Subscribed
  <2>10. StateOf(v) = "on" /\ StateOf(v)' = "on"
    BY <2>1, <2>3 DEF StateOf, Subscribed
  <2>11. n \in LastSeen(v) + 1 .. entry.lines
    BY <2>4, <2>5, <2>6, <2>7
  <2>12. QED
    BY <1>1, <1>2, <1>3, <2>3, <2>8, <2>9, <2>10, <2>11, StepSee
<1>9. CASE SeeClosed(v)
  <2>1. /\ view[v].pc = "tail" /\ view[v].source = "live" /\ chan[v].buf = <<>> /\ Watching(v) /\ entry.done
    BY <1>1, <1>9 DEF SeeClosed, Attached, Watching
  <2>2. /\ view'[v].pc = "ended" /\ view'[v].source = "live" /\ view'[v].lost = view[v].lost
        /\ view'[v].out = view[v].out
    BY <1>1, <1>9, <2>1 DEF SeeClosed, TypeOK, View
  <2>3. ASSUME ~view[v].lost PROVE LastSeen(v) = entry.lines
    <3>1. Counted(view[v].out) /\ Replayed(v) + 0 = entry.lines
      BY <1>1, <2>1, <2>3, EmptyLines DEF Whole
    <3>2. LastSeen(v) = Len(view[v].out)
      BY <1>1, <2>1, <3>1, SeenCounted DEF Subscribed
    <3>3. Len(view[v].out) \in Nat /\ view[v].have \in Nat /\ Len(view[v].out) >= view[v].have
      BY <1>1, <2>1, StreamTypes DEF Ordered
    <3>4. QED
      BY <3>1, <3>2, <3>3 DEF Replayed
  <2>4. StateOf(v) = "on" /\ StateOf(v)' = "told" /\ LastSeen(v)' = LastSeen(v)
    BY <2>1, <2>2 DEF StateOf, LastSeen, Subscribed
  <2>5. QED
    BY <1>1, <1>2, <1>3, <2>1, <2>2, <2>3, <2>4, StepTold
<1>10. CASE Disconnect(v)
  <2>1. Same(v)
    BY <1>1, <1>10 DEF Disconnect, Same, StateOf, LastSeen, Subscribed, TypeOK, View
  <2>2. QED
    BY <1>4, <2>1
<1>11. CASE Unsubscribe(v)
  <2>1. view[v].pc \in {"ended", "left"} /\ view'[v] = NoView
    BY <1>11 DEF Unsubscribe, Inv, TypeOK
  <2>2. StateOf(v)' = "off" /\ LastSeen(v)' = 0 /\ ~view'[v].lost
    BY <2>1 DEF NoView, StateOf, LastSeen, Subscribed
  <2>3. CASE Subscribed(v)
    <3>1. StateOf(v) # "off"
      BY <2>1, <2>3 DEF StateOf
    <3>2. QED
      BY <1>1, <1>2, <1>3, <2>2, <3>1, StepLeave
  <2>4. CASE ~Subscribed(v)
    <3>1. StateOf(v) = "off" /\ LastSeen(v) = 0 /\ ~view[v].lost
      <4>1. ~view[v].lost
        BY <1>1, <2>4 DEF Attached, Subscribed
      <4>2. QED
        BY <2>4, <4>1, Unseen
    <3>2. QED
      BY <1>4, <2>2, <3>1 DEF Same
  <2>5. QED
    BY <2>3, <2>4
<1>12. QED
  BY <1>5, <1>6, <1>7, <1>8, <1>9, <1>10, <1>11 DEF Stream

\* The manager under its mutex, the channels that drop and close, and the
\* handlers that replay and tail implement LogStream: each step is one of its
\* steps or leaves what viewers see unchanged.
THEOREM Implements == Spec => KeepsPromise
<1>1. Inv /\ Inv' /\ [Next]_vars => [Promise!Next]_(Promise!vars)
  <2>1. SUFFICES ASSUME Inv, Inv', [Next]_vars PROVE Promise!Next \/ Quietly
    BY DEF Quietly
  <2>2. CASE Log
    BY <2>1, <2>2, AbsLog DEF Promise!Next
  <2>3. CASE FinalizeStatus \/ FinalizeLog \/ StatusByAnother \/ UNCHANGED vars
    <3>1. entry' = entry /\ view' = view
      BY <2>3 DEF FinalizeStatus, FinalizeLog, StatusByAnother, vars
    <3>2. QED
      BY <2>1, <3>1, AbsSame, StepStutter DEF Quietly, Inv
  <2>4. CASE Complete
    BY <2>1, <2>4, AbsComplete DEF Promise!Next
  <2>5. CASE Crash
    BY <2>5, AbsCrash DEF Promise!Next
  <2>6. ASSUME NEW v \in Viewers, Open(v) \/ Stream(v) \/ Disconnect(v) PROVE Promise!Next \/ Quietly
    BY <2>1, <2>6, AbsStream DEF Promise!Next
  <2>7. QED
    BY <2>1, <2>2, <2>3, <2>4, <2>5, <2>6 DEF Next, Creation
<1>2. QED
  BY <1>1, AbsInit, SpecInv, PTL DEF Spec, Promise!Spec, KeepsPromise
=============================================================================
