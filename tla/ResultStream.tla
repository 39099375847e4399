---------------------------- MODULE ResultStream ----------------------------
(***************************************************************************)
(* What one FIFO carries: the request thread writes each line of its       *)
(* command's output with the NUL that ends it, a cancelled thread may stop *)
(* in the middle of a line, and the console then adds a marker line.  The  *)
(* client reads up to a newline and tells markers from output, first by    *)
(* the number of characters read, then by comparing (c_getResult_FIFO).    *)
(*                                                                         *)
(* The FIFO holds pieces, not characters: how long a piece is, whether it  *)
(* ends in a newline, and what it belongs to.  Both ends have opened the   *)
(* same FIFO (that they may open different ones is a matter of Session),   *)
(* and no command prints a marker itself.  The client may die (Ctrl-C).    *)
(***************************************************************************)
EXTENDS Integers, Sequences, FiniteSetsExt, SequencesExt

CONSTANTS LineLength,   \* lengths of output lines, newline included
          MaxLines,     \* bound: lines of output
          MAXLINE       \* size of the buffer readLine fills

\* strlen() of READ_INTERRUPT and of READ_SHUTDOWN.
InterruptLen == 32
ShutdownLen == 31

ASSUME LengthAssumption == LineLength \subseteq Nat \ {0} /\ MaxLines \in Nat
ASSUME BufferAssumption == MAXLINE \in Nat /\ MAXLINE > InterruptLen + 1

VARIABLES fifo,      \* the pieces in the FIFO
          server,    \* "run", "killed", "closed", or "SIGPIPE"
          asked,     \* the marker the console will send, "" for none
          written,   \* lengths of the lines written so far, in order
          partial,   \* the last line written has no newline
          stopped,   \* why the client has stopped reading, "" before it has
          shown,     \* the numbers of the lines the client has displayed
          cut        \* those among them it has displayed only the beginning of

vars == <<fifo, server, asked, written, partial, stopped, shown, cut>>

Init ==
    /\ fifo = <<>>
    /\ server = "run"
    /\ asked = ""
    /\ written = <<>>
    /\ partial = FALSE
    /\ stopped = ""
    /\ shown = <<>>
    /\ cut = {}

Piece(n, nl, what, line) == [n |-> n, nl |-> nl, what |-> what, line |-> line]

NUL == Piece(1, FALSE, "NUL", 0)
Newline == Piece(1, TRUE, "newline", 0)

-----------------------------------------------------------------------------
(* The server's side.                                                      *)

Number == Len(written) + 1

\* One turn of the getline loop; only the last line may lack its newline.
WriteLine(n, nl) ==
    /\ server = "run" /\ stopped = ""
    /\ Len(written) < MaxLines /\ ~partial
    /\ fifo' = fifo \o <<Piece(n, nl, "text", Number), NUL>>
    /\ written' = Append(written, n)
    /\ partial' = ~nl
    /\ UNCHANGED <<server, asked, stopped, shown, cut>>

\* The command has ended: pclose, close.
Close ==
    /\ server = "run"
    /\ server' = "closed"
    /\ UNCHANGED <<fifo, asked, written, partial, stopped, shown, cut>>

\* Faulty variant: the option is lost on the way to the marker.
Cancel_NoOption(mark) ==
    /\ server = "run"
    /\ server' = "killed"
    /\ asked' = ""
    /\ UNCHANGED <<fifo, written, partial, stopped, shown, cut>>

\* cancelClient stops the thread at getline.
Cancel(mark) ==
    /\ server = "run"
    /\ server' = "killed"
    /\ asked' = mark
    /\ UNCHANGED <<fifo, written, partial, stopped, shown, cut>>

\* cancelClient stops the thread in write, n characters into a line.
CancelWrite(mark, n, nl) ==
    /\ server = "run" /\ stopped = ""
    /\ Len(written) < MaxLines /\ ~partial
    /\ fifo' = Append(fifo, Piece(n, nl, "text", Number))
    /\ written' = Append(written, n)
    /\ server' = "killed"
    /\ asked' = mark
    /\ partial' = ~nl
    /\ UNCHANGED <<stopped, shown, cut>>

\* Faulty variant: the marker does not start with a newline.
SendMarker_Bare ==
    /\ server = "killed" /\ stopped = ""
    /\ fifo' = Append(fifo, Piece(IF asked = "INTERRUPT" THEN InterruptLen ELSE ShutdownLen,
                                  TRUE, asked, 0))
    /\ server' = "closed"
    /\ UNCHANGED <<asked, written, partial, stopped, shown, cut>>

SendMarker ==
    /\ server = "killed" /\ stopped = ""
    /\ fifo' = fifo \o <<Newline, Piece(IF asked = "INTERRUPT" THEN InterruptLen ELSE ShutdownLen,
                                       TRUE, asked, 0)>>
    /\ server' = "closed"
    /\ UNCHANGED <<asked, written, partial, stopped, shown, cut>>

\* A write without a reader; nobody handles the signal.
WriteFails ==
    /\ server \in {"run", "killed"} /\ stopped # ""
    /\ server' = "SIGPIPE"
    /\ UNCHANGED <<fifo, asked, written, partial, stopped, shown, cut>>

-----------------------------------------------------------------------------
(* The client's side.                                                      *)

\* What readLine takes from the FIFO: up to a newline, or up to the end of
\* file.
Newlines == {i \in 1..Len(fifo) : fifo[i].nl}
Upto == IF Newlines = {} THEN Len(fifo) ELSE Min(Newlines)
Taken == SubSeq(fifo, 1, Upto)
Ready == Newlines # {} \/ (server \in {"closed", "SIGPIPE"} /\ fifo # <<>>)

\* The characters of the first k pieces taken; the buffer holds no more than
\* MAXLINE - 1.
chars[k \in 0..Len(Taken)] == IF k = 0 THEN 0 ELSE chars[k - 1] + Taken[k].n

Size == Min({chars[Len(Taken)], MAXLINE - 1})

\* strcmp finds the marker: it was read with nothing before it.
Matches(mark) == Len(Taken) = 1 /\ Taken[1].what = mark

\* The numbers of the lines of output among them.
lines[k \in 0..Len(Taken)] ==
    IF k = 0 THEN <<>>
    ELSE IF Taken[k].what = "text" THEN Append(lines[k - 1], Taken[k].line)
    ELSE lines[k - 1]

TextLines == lines[Len(Taken)]

\* Those that did not find room in the buffer to their end.
CutLines == {Taken[k].line : k \in {i \in 1..Len(Taken) : /\ Taken[i].what = "text"
                                                        /\ chars[i] > MAXLINE - 1}}

Display ==
    /\ Size \notin {InterruptLen, ShutdownLen}
    /\ shown' = shown \o TextLines
    /\ cut' = cut \cup CutLines
    /\ UNCHANGED stopped

\* Faulty variant: the sizes are compared with >=, not with =.
CompareInterrupt_AtLeast ==
    /\ Size >= InterruptLen
    /\ stopped' = IF Matches("INTERRUPT") THEN "INTERRUPT" ELSE ""
    /\ UNCHANGED <<shown, cut>>

\* A line of the marker's size that is not the marker is passed over.
CompareInterrupt ==
    /\ Size = InterruptLen
    /\ stopped' = IF Matches("INTERRUPT") THEN "INTERRUPT" ELSE ""
    /\ UNCHANGED <<shown, cut>>

\* The comparison governs CLIENT_SHUTDOWN only: reading stops at any line of
\* this size.
CompareShutdown ==
    /\ Size = ShutdownLen
    /\ stopped' = IF Matches("SHUTDOWN") THEN "SHUTDOWN" ELSE "length"
    /\ UNCHANGED <<shown, cut>>

ReadLine ==
    /\ stopped = "" /\ Ready
    /\ fifo' = SubSeq(fifo, Upto + 1, Len(fifo))
    /\ Display \/ CompareInterrupt \/ CompareShutdown
    /\ UNCHANGED <<server, asked, written, partial>>

\* Faulty variant: an empty FIFO counts as a closed one.
ReadEOF_Empty ==
    /\ stopped = "" /\ fifo = <<>>
    /\ stopped' = "EOF"
    /\ UNCHANGED <<fifo, server, asked, written, partial, shown, cut>>

ReadEOF ==
    /\ stopped = "" /\ fifo = <<>> /\ server \in {"closed", "SIGPIPE"}
    /\ stopped' = "EOF"
    /\ UNCHANGED <<fifo, server, asked, written, partial, shown, cut>>

\* Ctrl-C, a signal, or its terminal closed.
Die ==
    /\ stopped = ""
    /\ stopped' = "died"
    /\ UNCHANGED <<fifo, server, asked, written, partial, shown, cut>>

-----------------------------------------------------------------------------
Marker == {"INTERRUPT", "SHUTDOWN"}

Output ==
    \/ \E n \in LineLength, nl \in BOOLEAN : WriteLine(n, nl)
    \/ Close \/ WriteFails

Console ==
    \/ \E mark \in Marker : Cancel(mark) \/ \E n \in LineLength, nl \in BOOLEAN : CancelWrite(mark, n, nl)
    \/ SendMarker

Result == ReadLine \/ ReadEOF

Next == Output \/ Console \/ Result \/ Die

Spec == Init /\ [][Next]_vars

\* The client reads on as long as it lives, and cancelClient sends what it has decided to send.
FairSpec == Spec /\ WF_vars(Result) /\ WF_vars(SendMarker)

-----------------------------------------------------------------------------
(* Properties.                                                             *)

TypeOK ==
    /\ fifo \in Seq([n : Nat, nl : BOOLEAN, what : {"text", "NUL", "newline"} \cup Marker,
                     line : 0..MaxLines])
    /\ server \in {"run", "killed", "closed", "SIGPIPE"}
    /\ asked \in Marker \cup {""}
    /\ written \in Seq(LineLength) /\ Len(written) <= MaxLines
    /\ partial \in BOOLEAN
    /\ stopped \in Marker \cup {"", "EOF", "length", "died"}
    /\ shown \in Seq(1..MaxLines)
    /\ cut \in SUBSET (1..MaxLines)

\* As long as its client lives the server is only killed by SIGPIPE after the
\* client has taken a line of output for a shutdown marker: reading never ends
\* for another reason before the thread and the console have written all.
SigpipeNeedsMisreading == server = "SIGPIPE" => stopped \in {"length", "died"}

\* A client that was not misled and lives has displayed the output in order
\* and without a gap, but for lines whose size comes within the NULs and the
\* newline added to them of that of the interrupt marker; and of no line that
\* fits the buffer, behind the NUL of the line before, is the end missing.
OnlyMarkerSizedLinesAreLost ==
    /\ \A i \in 1..Len(shown) - 1 : shown[i] < shown[i + 1]
    /\ stopped \in Marker \cup {"EOF"} =>
          \A k \in 1..Len(written) :
              (\E i \in 1..Len(shown) : shown[i] = k) \/ written[k] \in 29..InterruptLen
    /\ \A k \in cut : written[k] > MAXLINE - 2

\* However a cancelled thread left the stream, in the middle of a line or
\* after a NUL, its client, if it lives, recognises the marker and stops for
\* that reason, or has stopped before at a line of the shutdown marker's size.
CancelledClientStops ==
    \A mark \in Marker :
        (server = "killed" /\ asked = mark) ~> stopped \in {mark, "length", "died"}

=============================================================================
