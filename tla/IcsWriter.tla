------------------------------- MODULE IcsWriter -------------------------------
(***************************************************************************)
(* build_ics, the hand-written iCalendar object: text is escaped, content  *)
(* lines are folded at a number of octets on a character boundary, and     *)
(* everything ends in CRLF.  A client undoes it the way RFC 5545 says.     *)
(*                                                                         *)
(* A character is a symbol with a width in octets; the name of a property, *)
(* with its colon, is one symbol.  The client is handed each symbol as it  *)
(* is written: what it reads depends on their order, not on the time.      *)
(***************************************************************************)
EXTENDS Naturals, Sequences, FiniteSets

CONSTANTS
    Letter,       \* characters of a text, besides the ones named below
    WidthOf,      \* their widths in UTF-8
    Octets,       \* ICS_FOLD_OCTETS
    Invitation    \* events to render: title, description, organiser, guests

Special == {"BS", "SEMI", "COMMA", "CR", "LF", "SP"}
Char  == Letter \cup Special

ASSUME IcsAssumption ==
    /\ Letter \cap Special = {} /\ "n" \in Letter
    /\ WidthOf \in [Letter -> 1..4]
    /\ Octets \in Nat /\ Octets >= 5
    /\ Invitation \subseteq [title : Seq(Char), description : Seq(Char),
                             organiser : Seq(Char), guests : Seq(Seq(Char))]

VARIABLES
    invitation,   \* the event
    lines,        \* its content lines, and
    line, place,  \* the line and the character that _fold has come to
    octets,       \* what it has counted of the piece it is in, and
    limit,        \* what that piece may hold
    wire,         \* symbols on their way to the client
    client        \* what the client has made of those before

icsVars == <<invitation, lines, line, place, octets, limit, wire, client>>

Width(c) == IF c \in Letter THEN WidthOf[c] ELSE 1
EndOfLine == <<"CR", "LF">>

\* len(line.encode("utf-8")): the octets of a line, counted.
OctetsOf(s) == Cardinality({p \in (1..Len(s)) \X (1..4) : p[2] <= Width(s[p[1]])})

-------------------------------------------------------------------------------

\* str.replace, of a text that does not overlap itself.
Replaced(s, t, by) ==
    LET upto[n \in 0..Len(s)] ==
            IF n = 0 THEN <<>>
            ELSE IF n >= Len(t) /\ SubSeq(s, n - Len(t) + 1, n) = t
                 THEN upto[n - Len(t)] \o by
                 ELSE Append(upto[n - 1], s[n])
    IN  upto[Len(s)]

NewLines(s) == Replaced(Replaced(Replaced(s, EndOfLine, <<"BS", "n">>),
                               <<"LF">>, <<"BS", "n">>), <<"CR">>, <<"BS", "n">>)
Stops(s)  == Replaced(Replaced(s, <<"SEMI">>, <<"BS", "SEMI">>), <<"COMMA">>, <<"BS", "COMMA">>)

\* A mistake the code could have made in the definition below: the backslash
\* last, which escapes the escapes.
EscapedLate(s) == Replaced(NewLines(Stops(s)), <<"BS">>, <<"BS", "BS">>)

Escape(s) == NewLines(Stops(Replaced(s, <<"BS">>, <<"BS", "BS">>)))

\* The properties of an event, those of fixed content taken together, and the
\* lines of the object.
ContentLine(name, text) == [name |-> name, text |-> text]
Optional(name, text) == IF text = <<>> THEN <<>> ELSE <<ContentLine(name, text)>>
Entries(i) ==
    <<ContentLine("BEGIN", <<>>), ContentLine("SUMMARY", i.title)>>
    \o Optional("DESCRIPTION", i.description) \o Optional("ORGANIZER", i.organiser)
    \o [n \in 1..Len(i.guests) |-> ContentLine("ATTENDEE", i.guests[n])]
    \o <<ContentLine("END", <<>>)>>

Lines(i) == [n \in 1..Len(Entries(i)) |-> <<Entries(i)[n].name>> \o Escape(Entries(i)[n].text)]

-------------------------------------------------------------------------------

Writing == line <= Len(lines) /\ wire = <<>>

\* _fold, one character: the space that begins a continuation counts, and a line
\* that fits as it is has none.
Put ==
    /\ Writing /\ place < Len(lines[line])
    /\ LET c == lines[line][place + 1] IN
       IF octets + Width(c) > limit /\ OctetsOf(lines[line]) > Octets
       THEN /\ wire' = EndOfLine \o <<"SP", c>>
            /\ octets' = Width(c)
            /\ limit' = Octets - 1
       ELSE /\ wire' = <<c>>
            /\ octets' = octets + Width(c)
            /\ UNCHANGED limit
    /\ place' = place + 1
    /\ UNCHANGED <<invitation, lines, line, client>>

EndLine ==
    /\ Writing /\ place = Len(lines[line])
    /\ wire' = EndOfLine
    /\ line' = line + 1 /\ place' = 0 /\ octets' = 0 /\ limit' = Octets
    /\ UNCHANGED <<invitation, lines, client>>

\* The client: a backslash escapes what follows it, CRLF ends a line, unless a
\* space follows, and what begins a line is a name.
Client(m, f, e, o) == [mode |-> m, found |-> f, escaped |-> e, octets |-> o]

Longer(f, c) == [f EXCEPT ![Len(f)] = ContentLine(@.name, Append(@.text, c))]

Understood(cl, c) ==
    LET o == cl.octets + Width(c) IN
    IF ~cl.escaped /\ c = "BS" THEN Client("text", cl.found, TRUE, o)
    ELSE Client("text", Longer(cl.found, IF cl.escaped /\ c = "n" THEN "LF" ELSE c), FALSE, o)

Handed(cl, c) ==
    CASE cl.mode = "text" /\ c # "CR" -> Understood(cl, c)
      [] cl.mode = "text" /\ c = "CR" -> Client("cr", cl.found, cl.escaped, cl.octets)
      [] cl.mode = "cr" ->
            Client(IF c = "LF" THEN "eol" ELSE "lost", cl.found, cl.escaped, cl.octets)
      [] cl.mode = "eol" /\ c = "SP" /\ cl.found # <<>> ->
            Client("text", cl.found, cl.escaped, Width(c))
      [] cl.mode = "eol" /\ ~(c = "SP" /\ cl.found # <<>>) ->
            Client("text", Append(cl.found, ContentLine(c, <<>>)), FALSE, Width(c))
      [] OTHER -> cl

Receive ==
    /\ wire # <<>>
    /\ client' = Handed(client, Head(wire))
    /\ wire' = Tail(wire)
    /\ UNCHANGED <<invitation, lines, line, place, octets, limit>>

IcsInit ==
    /\ invitation \in Invitation
    /\ lines = Lines(invitation)
    /\ line = 1 /\ place = 0 /\ octets = 0 /\ limit = Octets
    /\ wire = <<>>
    /\ client = Client("eol", <<>>, FALSE, 0)

IcsNext == Put \/ EndLine \/ Receive

IcsSpec == IcsInit /\ [][IcsNext]_icsVars

-------------------------------------------------------------------------------

\* A line break is a line break, however it was typed.
Typed(s) == Replaced(Replaced(s, EndOfLine, <<"LF">>), <<"CR">>, <<"LF">>)

\* A client never meets a line longer than the standard allows, and in the end
\* it has every property, and of the texts what was put in.  (An ORGANIZER's or
\* an ATTENDEE's text is a CN parameter, which no client unescapes.)
ClientReadsBack ==
    /\ client.octets <= Octets
    /\ line > Len(lines) /\ wire = <<>> =>
        /\ client.mode = "eol" /\ Len(client.found) = Len(Entries(invitation))
        /\ \A n \in 1..Len(client.found) :
            /\ client.found[n].name = Entries(invitation)[n].name
            /\ client.found[n].name \in {"SUMMARY", "DESCRIPTION"} =>
                   client.found[n].text = Typed(Entries(invitation)[n].text)
================================================================================
