------------------------------ MODULE FrameReader ------------------------------
(***************************************************************************)
(* readEvents, the reader of an event stream over fetch.  The server's     *)
(* frames reach it in chunks that respect no boundary: not of a frame, not *)
(* of a line, not even the one between the CR and the LF of a line ending. *)
(*                                                                         *)
(* A symbol of the wire is a CR, an LF, a comment, the text of an event    *)
(* line, or one half of the JSON on a data line.                           *)
(***************************************************************************)
EXTENDS Naturals, Sequences, FiniteSets

CONSTANTS
    Event,      \* events the server sends
    Eols,       \* line endings a server may use, one of them throughout
    MaxFrames   \* bound: frames sent, keepalives included

CR == <<"CR">>
LF == <<"LF">>

ASSUME ReaderAssumption ==
    /\ "ping" \notin Event
    /\ Eols # {} /\ Eols \subseteq {<<CR, LF>>, <<LF>>, <<CR>>}
    /\ MaxFrames \in Nat

VARIABLES
    eol,      \* the server's line ending
    frames,   \* what it has sent: events and "ping"
    stream,   \* the symbols of these
    ends,     \* where in the stream each of them ends
    arrived,  \* how much of the stream the reader has been given
    buffer,   \* symbols the reader has and has not used
    events,   \* events yielded
    reading   \* the reader: open, ended or broken

readVars == <<eol, frames, stream, ends, arrived, buffer, events, reading>>

Halves(e) == <<<<"open", e>>, <<"close", e>>>>

\* What sse_starlette makes of an event, and its keepalive.
Encoded(f) ==
    IF f = "ping" THEN <<<<"comment">>>> \o eol \o eol
    ELSE <<<<"event", f>>>> \o eol \o Halves(f) \o eol \o eol

-------------------------------------------------------------------------------

At(s, i, t) == i + Len(t) - 1 <= Len(s) /\ SubSeq(s, i, i + Len(t) - 1) = t

\* FRAME_BOUNDARY: a pair of equal line endings.
Pairs == {<<CR, LF, CR, LF>>, <<LF, LF>>, <<CR, CR>>}
Boundaries(s) == {i \in 1..Len(s) : \E t \in Pairs : At(s, i, t)}
First(S) == CHOOSE i \in S : \A j \in S : i <= j
Last(S)  == CHOOSE i \in S : \A j \in S : j <= i
BoundaryLength(s, i) == IF At(s, i, <<CR, LF, CR, LF>>) THEN 4 ELSE 2

\* parseFrame: the last event line names the event, the data lines make its
\* data, and a frame without any is no event.  Every symbol says which line it
\* is of, so that the lines need no cutting.
Symbols(frame, kinds) == {i \in 1..Len(frame) : frame[i][1] \in kinds}
Only(frame, places) ==
    LET nth(m) == CHOOSE i \in places : Cardinality({j \in places : j < i}) = m - 1
    IN  [m \in 1..Cardinality(places) |-> frame[nth(m)]]
DataOf(frame) == Only(frame, Symbols(frame, {"open", "close"}))
NameOf(frame) ==
    LET lines == Symbols(frame, {"event"})
    IN  IF lines = {} THEN "message" ELSE frame[Last(lines)][2]
Parsed(frame) ==
    IF DataOf(frame) = <<>> THEN <<>>
    ELSE <<[event |-> NameOf(frame), data |-> DataOf(frame)]>>

\* A mistake the code could have made in the definition below: line endings
\* made uniform chunk by chunk.
NormalisedPerChunk(s, chunk) ==
    s \o SelectSeq([i \in 1..Len(chunk) |->
                      IF chunk[i] = CR /\ i < Len(chunk) /\ chunk[i + 1] = LF
                      THEN <<>> ELSE chunk[i]], LAMBDA c : c # <<>>)

\* buffer += value.
Accumulated(s, chunk) == s \o chunk

-------------------------------------------------------------------------------

Send(f) ==
    /\ Len(frames) < MaxFrames
    /\ frames' = Append(frames, f)
    /\ stream' = stream \o Encoded(f)
    /\ ends' = Append(ends, Len(stream) + Len(Encoded(f)))
    /\ UNCHANGED <<eol, arrived, buffer, events, reading>>

\* reader.read, once the loop over the buffer has come to its end.
Read ==
    /\ reading = "open" /\ Boundaries(buffer) = {}
    /\ \E n \in (arrived + 1)..Len(stream) :
        /\ buffer' = Accumulated(buffer, SubSeq(stream, arrived + 1, n))
        /\ arrived' = n
    /\ UNCHANGED <<eol, frames, stream, ends, events, reading>>

\* One turn of that loop, and the yield.
Extract ==
    /\ reading = "open" /\ Boundaries(buffer) # {}
    /\ LET i == First(Boundaries(buffer)) IN
       /\ events' = events \o Parsed(SubSeq(buffer, 1, i - 1))
       /\ buffer' = SubSeq(buffer, i + BoundaryLength(buffer, i), Len(buffer))
    /\ UNCHANGED <<eol, frames, stream, ends, arrived, reading>>

\* The body ends, wherever the server or something on the way closed it: what
\* is left is read as a frame.
Ends ==
    /\ reading = "open" /\ Boundaries(buffer) = {}
    /\ events' = events \o Parsed(buffer)
    /\ buffer' = <<>>
    /\ reading' = "ended"
    /\ UNCHANGED <<eol, frames, stream, ends, arrived>>

\* The read throws, or the consumer returns at a yield.
Broken ==
    /\ reading = "open"
    /\ reading' = "broken"
    /\ UNCHANGED <<eol, frames, stream, ends, arrived, buffer, events>>

ReadInit ==
    /\ eol \in Eols
    /\ frames = <<>> /\ stream = <<>> /\ ends = <<>> /\ arrived = 0
    /\ buffer = <<>> /\ events = <<>>
    /\ reading = "open"

ReadNext == (\E f \in Event \cup {"ping"} : Send(f)) \/ Read \/ Extract \/ Ends \/ Broken

ReadSpec == ReadInit /\ [][ReadNext]_readVars

-------------------------------------------------------------------------------

\* The events among the first n frames, by their numbers.
Sent(n) == {m \in 1..n : frames[m] # "ping"}
Intact(e, f) == e = [event |-> f, data |-> Halves(f)]
Torn(e, f)   == e = [event |-> f, data |-> <<Halves(f)[1]>>]
WhollyArrived == {n \in 1..Len(frames) : ends[n] <= arrived}

\* However the stream was cut into chunks, the events that came out are the
\* events that went in, in their order; and of a stream that was cut short at
\* most the last event is damaged, which its JSON betrays.
InOrder ==
    \A n \in 1..Len(events) : \E m \in Sent(Len(frames)) :
        /\ Cardinality(Sent(m)) = n
        /\ \/ Intact(events[n], frames[m])
           \/ /\ Torn(events[n], frames[m])
              /\ n = Len(events) /\ reading = "ended" /\ arrived < Len(stream)

\* Besides, one is held back only until its frame is complete, and never for
\* the frame after it.
ReadInStep ==
    /\ InOrder
    /\ reading = "open" /\ Boundaries(buffer) = {} =>
        Len(events) = Cardinality(Sent(Cardinality(WhollyArrived)))

-------------------------------------------------------------------------------
(* The inductive invariant behind ReadInStep.                                *)

Symbol ==
    {CR, LF, <<"comment">>} \cup ({"event", "open", "close"} \X Event)

\* The stream is its frames, one after the other.
StartOf(n) == IF n = 1 THEN 0 ELSE ends[n - 1]
FramesInv ==
    /\ eol \in Eols
    /\ frames \in Seq(Event \cup {"ping"})
    /\ stream \in Seq(Symbol)
    /\ ends \in Seq(Nat) /\ Len(ends) = Len(frames)
    /\ Len(stream) = StartOf(Len(frames) + 1)
    /\ \A n \in 1..Len(frames) :
        /\ ends[n] = StartOf(n) + Len(Encoded(frames[n]))
        /\ \A i \in 1..Len(Encoded(frames[n])) : stream[StartOf(n) + i] = Encoded(frames[n])[i]
    /\ \A m, n \in 1..Len(frames) : m < n => ends[m] < ends[n]

\* The reader has done with the first k frames, and with nothing of the next.
HasRead(k) ==
    /\ StartOf(k + 1) <= arrived
    /\ buffer = SubSeq(stream, StartOf(k + 1) + 1, arrived)
    /\ Len(events) = Cardinality(Sent(k))

ReadInv ==
    /\ FramesInv
    /\ arrived \in 0..Len(stream)
    /\ events \in Seq([event : Event, data : Seq(Symbol)])
    /\ InOrder
    /\ reading # "ended" => \E k \in 0..Len(frames) : HasRead(k)
================================================================================
