------------------------- MODULE ResultStreamProof --------------------------
(***************************************************************************)
(* Proofs about ResultStream, for lines of any lengths and any number of   *)
(* them.  While its client lives SIGPIPE only ends the server after the    *)
(* client has mistaken a line of output for a shutdown marker; and a       *)
(* client that has not made that mistake has displayed every line but      *)
(* those that come close to the size of the interrupt marker, to the end   *)
(* if the line fits the buffer.                                            *)
(***************************************************************************)
EXTENDS ResultStream, Lemmas

\* The piece of a command's output, or what the server adds to it.
Plain == [n : Nat, nl : BOOLEAN, what : {"text", "NUL", "newline"}, line : Nat]

\* As long as the server has not sent the marker there is none in the FIFO,
\* and only its death or a line of the wrong length can have stopped the client.
NoMarkerYet ==
    server \in {"run", "killed"} => fifo \in Seq(Plain) /\ stopped \in {"", "length", "died"}

IInv == written \in Seq(Nat) /\ NoMarkerYet /\ SigpipeNeedsMisreading

-----------------------------------------------------------------------------
\* readLine takes at least one piece, if there is one, and at most all.
LEMMA UptoIsPosition ==
    ASSUME NEW S, fifo \in Seq(S), Len(fifo) # 0
    PROVE  Upto \in 1..Len(fifo)
<1>1. CASE Newlines = {}
  BY <1>1 DEF Upto
<1>2. CASE Newlines # {}
  <2>1. Newlines \subseteq 1..Len(fifo) /\ Newlines \subseteq Nat
    BY DEF Newlines
  <2> QED
    BY <1>2, <2>1, MinIsLeast DEF Upto
<1> QED
  BY <1>1, <1>2

-----------------------------------------------------------------------------
\* Nothing has been written at first.
LEMMA Initiation == Init => IInv
<1>1. <<>> \in Seq(Plain) /\ <<>> \in Seq(Nat)
  OBVIOUS
<1> QED
  BY <1>1, Zenon DEF Init, IInv, NoMarkerYet, SigpipeNeedsMisreading

\* A line that is read leaves plain pieces behind, and none of them is taken
\* for a marker by comparison.
LEMMA ReadLineKeeps == IInv /\ ReadLine => IInv'
<1> SUFFICES ASSUME IInv, ReadLine PROVE IInv'
  OBVIOUS
<1>1. written' \in Seq(Nat) /\ server' = server /\ stopped = ""
  BY DEF IInv, ReadLine
<1>2. SigpipeNeedsMisreading'
  BY <1>1 DEF IInv, SigpipeNeedsMisreading
<1>3. ASSUME server \in {"run", "killed"}
      PROVE  fifo' \in Seq(Plain) /\ stopped' \in {"", "length", "died"}
  <2>1. fifo \in Seq(Plain)
    BY <1>3 DEF IInv, NoMarkerYet
  <2>2. Len(fifo) # 0
    <3>1. Newlines # {}
      BY <1>3 DEF ReadLine, Ready
    <3> QED
      BY <2>1, <3>1 DEF Newlines
  <2>3. Upto \in 1..Len(fifo)
    BY <2>1, <2>2, UptoIsPosition
  <2>4. fifo' \in Seq(Plain)
    <3>1. SubSeq(fifo, Upto + 1, Len(fifo)) \in Seq(Plain)
      BY <2>1, <2>3
    <3> QED
      BY <3>1, Zenon DEF ReadLine
  <2>5. Taken[1] = fifo[1] /\ fifo[1] \in Plain
    BY <2>1, <2>3 DEF Taken
  <2>6. ~Matches("INTERRUPT") /\ ~Matches("SHUTDOWN")
    BY <2>5 DEF Matches, Plain
  <2>7. stopped' \in {"", "length", "died"}
    BY <1>1, <2>6 DEF ReadLine, Display, CompareInterrupt, CompareShutdown
  <2> QED
    BY <2>4, <2>7
<1> QED
  BY <1>1, <1>2, <1>3 DEF IInv, NoMarkerYet

\* What one turn of the getline loop adds to the FIFO is plain.
LEMMA PlainPieces ==
    ASSUME written \in Seq(Nat), NEW n \in LineLength, NEW nl \in BOOLEAN
    PROVE  /\ n \in Nat
           /\ Piece(n, nl, "text", Number) \in Plain
           /\ <<Piece(n, nl, "text", Number), NUL>> \in Seq(Plain)
<1>1. n \in Nat
  BY LengthAssumption
<1>2. Len(written) \in Nat
  BY LenProperties
<1>3. Number \in Nat
  BY <1>2 DEF Number
<1>4. Piece(n, nl, "text", Number) \in Plain /\ NUL \in Plain
  BY <1>1, <1>3 DEF Piece, NUL, Plain
<1> QED
  BY <1>1, <1>4

\* Only SendMarker puts a marker into the FIFO, and with it closes the FIFO.
LEMMA Invariance == IInv /\ [Next]_vars => IInv'
<1> SUFFICES ASSUME IInv, [Next]_vars PROVE IInv'
  OBVIOUS
<1> USE DEF IInv, NoMarkerYet, SigpipeNeedsMisreading
<1>1. ASSUME NEW n \in LineLength, NEW nl \in BOOLEAN, WriteLine(n, nl) PROVE IInv'
  <2>1. n \in Nat /\ <<Piece(n, nl, "text", Number), NUL>> \in Seq(Plain)
    BY PlainPieces
  <2>2. fifo \in Seq(Plain) /\ written \in Seq(Nat)
    BY <1>1 DEF WriteLine
  <2>3. fifo' \in Seq(Plain) /\ written' \in Seq(Nat)
    BY <1>1, <2>1, <2>2, ConcatProperties, AppendProperties, Zenon DEF WriteLine
  <2> QED
    BY <1>1, <2>3 DEF WriteLine
<1>2. ASSUME NEW mark \in Marker, NEW n \in LineLength, NEW nl \in BOOLEAN,
             CancelWrite(mark, n, nl)
      PROVE  IInv'
  <2>1. n \in Nat /\ Piece(n, nl, "text", Number) \in Plain
    BY PlainPieces
  <2>2. fifo \in Seq(Plain) /\ written \in Seq(Nat)
    BY <1>2 DEF CancelWrite
  <2>3. fifo' \in Seq(Plain) /\ written' \in Seq(Nat)
    BY <1>2, <2>1, <2>2, AppendProperties, Zenon DEF CancelWrite
  <2> QED
    BY <1>2, <2>3 DEF CancelWrite
<1>3. CASE Close
  BY <1>3 DEF Close
<1>4. ASSUME NEW mark \in Marker, Cancel(mark) PROVE IInv'
  BY <1>4 DEF Cancel
<1>5. CASE SendMarker
  BY <1>5 DEF SendMarker
<1>6. CASE WriteFails
  BY <1>6 DEF WriteFails
<1>7. CASE ReadLine
  BY <1>7, ReadLineKeeps
<1>8. CASE ReadEOF
  BY <1>8 DEF ReadEOF
<1>9. CASE Die
  BY <1>9 DEF Die
<1>10. CASE UNCHANGED vars
  BY <1>10 DEF vars
<1> QED
  BY <1>1, <1>2, <1>3, <1>4, <1>5, <1>6, <1>7, <1>8, <1>9, <1>10
  DEF Next, Output, Console, Result

\* Whatever the command prints, a server whose client lives dies of SIGPIPE
\* only when that client has taken a line of output for a shutdown marker.
THEOREM SigpipeNeedsMisread == Spec => []SigpipeNeedsMisreading
<1>1. IInv => SigpipeNeedsMisreading
  BY DEF IInv
<1> QED
  BY Initiation, Invariance, <1>1, PTL DEF Spec

-----------------------------------------------------------------------------
(* Which lines are lost.                                                   *)

\* A piece in the FIFO.
AnyPiece == [n : Nat, nl : BOOLEAN, what : {"text", "NUL", "newline"} \cup Marker,
             line : 0..MaxLines]

\* What may stand behind a piece in the FIFO.
After(what) ==
    CASE what = "text" -> {"NUL", "newline"}
      [] what = "NUL" -> {"text", "newline"}
      [] what = "newline" -> Marker
      [] OTHER -> {}

\* The text in the FIFO is that of the lines written, in order, and only the
\* last one can be cut short; NULs and the newline before a marker are single
\* characters.
Described(i) ==
    /\ fifo[i].what = "text" =>
          /\ fifo[i].line \in 1..Len(written)
          /\ fifo[i].n = written[fifo[i].line]
          /\ fifo[i].nl \/ (partial /\ fifo[i].line = Len(written))
    /\ fifo[i].what \in {"NUL", "newline"} => fifo[i].n = 1
    /\ fifo[i].what = "NUL" => ~fifo[i].nl
    /\ fifo[i].what \in Marker \cup {"newline"} => fifo[i].nl

InOrder ==
    /\ \A i \in 1..Len(fifo) - 1 : fifo[i + 1].what \in After(fifo[i].what)
    /\ \A i, j \in 1..Len(fifo) :
          i < j /\ fifo[i].what = "text" /\ fifo[j].what = "text" => fifo[i].line < fifo[j].line

\* Before the marker there are only lines and NULs, and while the thread is at
\* getline every line has its NUL.
BeforeMarker ==
    /\ server \in {"run", "killed"} => \A i \in 1..Len(fifo) : fifo[i].what \in {"text", "NUL"}
    /\ server = "run" /\ fifo # <<>> => fifo[Len(fifo)].what = "NUL"
    /\ server = "killed" => asked \in Marker

\* A line of output is shown, lost for its size, or still to come.
Told(k) ==
    \/ \E i \in 1..Len(shown) : shown[i] = k
    \/ written[k] \in 29..InterruptLen
    \/ \E i \in 1..Len(fifo) : fifo[i].what = "text" /\ fifo[i].line = k

ShownInOrder ==
    /\ \A i \in 1..Len(shown) : shown[i] <= Len(written)
    /\ \A i \in 1..Len(shown) - 1 : shown[i] < shown[i + 1]
    /\ \A i \in 1..Len(shown), j \in 1..Len(fifo) :
          fifo[j].what = "text" => shown[i] < fifo[j].line

NothingForgotten ==
    /\ stopped # "length" => \A k \in 1..Len(written) : Told(k)
    /\ stopped \in Marker \cup {"EOF"} => fifo = <<>>

\* What is shown only in part did not fit the buffer.
CutOnlyLong == \A k \in cut : k \in 1..Len(written) /\ written[k] > MAXLINE - 2

StreamInv ==
    /\ TypeOK
    /\ \A i \in 1..Len(fifo) : Described(i)
    /\ InOrder /\ BeforeMarker /\ ShownInOrder /\ NothingForgotten

-----------------------------------------------------------------------------
(* What readLine takes.                                                    *)

\* The types of the elements of the sequences.
LEMMA StreamFacts ==
    ASSUME TypeOK
    PROVE  /\ Len(fifo) \in Nat
           /\ \A i \in 1..Len(fifo) :
                /\ fifo[i].n \in Nat
                /\ fifo[i].what \in {"text", "NUL", "newline", "INTERRUPT", "SHUTDOWN"}
                /\ fifo[i].line \in Nat
           /\ Len(written) \in Nat /\ Len(written) <= MaxLines
           /\ \A k \in 1..Len(written) : written[k] \in Nat
           /\ Len(shown) \in Nat
           /\ \A i \in 1..Len(shown) : shown[i] \in Nat
<1>1. fifo \in Seq(AnyPiece) /\ written \in Seq(LineLength) /\ shown \in Seq(1..MaxLines)
  BY DEF TypeOK, AnyPiece
<1>2. \A i \in 1..Len(fifo) : fifo[i] \in AnyPiece
  <2> QED
    BY <1>1, ElementOfSeq
<1>3. \A k \in 1..Len(written) : written[k] \in LineLength
  BY <1>1, ElementOfSeq
<1>4. \A i \in 1..Len(shown) : shown[i] \in 1..MaxLines
  BY <1>1, ElementOfSeq
<1>5. Len(fifo) \in Nat /\ Len(written) \in Nat /\ Len(shown) \in Nat
  BY <1>1, LenProperties
<1>6. LineLength \subseteq Nat /\ MaxLines \in Nat
  BY LengthAssumption
<1>7. Len(written) <= MaxLines
  BY DEF TypeOK
<1>8. \A i \in 1..Len(fifo) :
        /\ fifo[i].n \in Nat
        /\ fifo[i].what \in {"text", "NUL", "newline", "INTERRUPT", "SHUTDOWN"}
        /\ fifo[i].line \in Nat
  BY <1>2, <1>6 DEF Marker, AnyPiece
<1>9. \A k \in 1..Len(written) : written[k] \in Nat
  BY <1>3, <1>6
<1>10. \A i \in 1..Len(shown) : shown[i] \in Nat
  BY <1>4, <1>6
<1> QED
  BY <1>5, <1>7, <1>8, <1>9, <1>10

\* Pieces are taken from the front, up to the first newline.
LEMMA TakenFacts ==
    ASSUME TypeOK, Ready
    PROVE  /\ Upto \in 1..Len(fifo)
           /\ Len(Taken) = Upto
           /\ \A i \in 1..Upto : Taken[i] = fifo[i]
           /\ \A i \in 1..Upto - 1 : ~fifo[i].nl
<1>1. fifo \in Seq(AnyPiece) /\ Len(fifo) \in Nat
  BY LenProperties DEF TypeOK, AnyPiece
<1>2. Len(fifo) # 0
  BY <1>1 DEF Ready, Newlines
<1>3. Upto \in 1..Len(fifo)
  BY <1>1, <1>2, UptoIsPosition
<1>4. Len(Taken) = Upto /\ \A i \in 1..Upto : Taken[i] = fifo[i]
  BY <1>1, <1>3 DEF Taken
<1>5. ASSUME NEW i \in 1..Upto - 1 PROVE ~fifo[i].nl
  <2> SUFFICES ASSUME fifo[i].nl PROVE FALSE
    OBVIOUS
  <2>1. i \in Newlines /\ i < Upto
    BY <1>1, <1>3 DEF Newlines
  <2>2. Newlines \subseteq Nat /\ Newlines # {}
    BY <2>1 DEF Newlines
  <2>3. Upto = Min(Newlines)
    BY <2>2 DEF Upto
  <2>4. Upto <= i
    BY <2>1, <2>2, <2>3, MinIsLeast
  <2> QED
    BY <1>3, <2>1, <2>4
<1> QED
  BY <1>3, <1>4, <1>5

\* With a piece of text readLine takes no other text and no marker, at most
\* one piece before it and at most two after it, of one character each.
LEMMA OneTextTaken ==
    ASSUME StreamInv, Upto \in 1..Len(fifo), \A i \in 1..Upto - 1 : ~fifo[i].nl,
           NEW t \in 1..Upto, fifo[t].what = "text"
    PROVE  /\ t <= 2 /\ Upto <= t + 2
           /\ \A i \in 1..Upto : i # t => fifo[i].n = 1 /\ fifo[i].what # "text"
<1>1. /\ Len(fifo) \in Nat /\ Len(written) \in Nat
      /\ \A i \in 1..Len(fifo) :
           /\ fifo[i].what \in {"text", "NUL", "newline", "INTERRUPT", "SHUTDOWN"}
           /\ fifo[i].line \in Nat
  BY StreamFacts DEF StreamInv
<1>2. \A i \in 1..Len(fifo) : Described(i)
  BY DEF StreamInv
<1>3. \A i \in 1..Len(fifo) - 1 : fifo[i + 1].what \in After(fifo[i].what)
  BY DEF StreamInv, InOrder
<1>4. \A i, j \in 1..Len(fifo) :
          i < j /\ fifo[i].what = "text" /\ fifo[j].what = "text" => fifo[i].line < fifo[j].line
  BY DEF StreamInv, InOrder
<1>5. ASSUME NEW i \in 1..Upto, NEW j \in 1..Upto, i < j,
             fifo[i].what = "text", fifo[j].what = "text"
      PROVE  FALSE
  <2>1. i \in 1..Upto - 1 /\ i \in 1..Len(fifo) /\ j \in 1..Len(fifo)
    BY <1>1, <1>5
  <2>2. ~fifo[i].nl
    BY <2>1
  <2>3. fifo[i].line = Len(written)
    BY <1>2, <1>5, <2>1, <2>2 DEF Described
  <2>4. fifo[j].line \in 1..Len(written)
    BY <1>2, <1>5, <2>1 DEF Described
  <2>5. fifo[i].line < fifo[j].line
    BY <1>4, <1>5, <2>1
  <2> QED
    BY <1>1, <2>3, <2>4, <2>5
<1>6. \A i \in 1..Upto : i # t => fifo[i].what # "text"
  BY <1>1, <1>5
<1>7. \A i \in 1..Upto - 1 : i # t => fifo[i].what = "NUL"
  <2> SUFFICES ASSUME NEW i \in 1..Upto - 1, i # t PROVE fifo[i].what = "NUL"
    OBVIOUS
  <2>1. i \in 1..Upto /\ i \in 1..Len(fifo) /\ ~fifo[i].nl
    BY <1>1
  <2>2. fifo[i].what \notin Marker \cup {"newline"}
    BY <1>2, <2>1 DEF Described
  <2>3. fifo[i].what # "text"
    BY <1>6, <2>1
  <2> QED
    BY <1>1, <2>1, <2>2, <2>3 DEF Marker
<1>8. \A i \in 1..Upto - 2 : ~(fifo[i].what = "NUL" /\ fifo[i + 1].what = "NUL")
  BY <1>1, <1>3 DEF After
<1>9. t <= 2
  <2> SUFFICES ASSUME t > 2 PROVE FALSE
    BY <1>1
  <2>1. 1 \in 1..Upto - 1 /\ 2 \in 1..Upto - 1 /\ 1 \in 1..Upto - 2
    BY <1>1
  <2>2. fifo[1].what = "NUL" /\ fifo[2].what = "NUL"
    BY <1>7, <2>1
  <2> QED
    BY <1>8, <2>1, <2>2
<1>10. Upto <= t + 2
  <2> SUFFICES ASSUME Upto > t + 2 PROVE FALSE
    BY <1>1
  <2>1. t + 1 \in 1..Upto - 1 /\ t + 2 \in 1..Upto - 1 /\ t + 1 \in 1..Upto - 2
    BY <1>1
  <2>2. fifo[t + 1].what = "NUL" /\ fifo[t + 2].what = "NUL"
    BY <1>7, <2>1
  <2> QED
    BY <1>8, <2>1, <2>2
<1>11. ASSUME NEW i \in 1..Upto, i # t PROVE fifo[i].n = 1
  <2>1. CASE i \in 1..Upto - 1
    <3>1. fifo[i].what = "NUL" /\ i \in 1..Len(fifo)
      BY <1>1, <1>7, <1>11, <2>1
    <3> QED
      BY <1>2, <3>1 DEF Described
  <2>2. CASE i \notin 1..Upto - 1
    <3>1. i = Upto /\ i - 1 \in 1..Upto - 1 /\ i - 1 \in 1..Len(fifo) - 1
      BY <1>1, <1>11, <2>2
    <3>2. fifo[i - 1].what \in {"text", "NUL"}
      BY <1>7, <3>1
    <3>3. fifo[i].what \in After(fifo[i - 1].what)
      BY <1>1, <1>3, <3>1
    <3>4. fifo[i].what \in {"text", "NUL", "newline"}
      BY <3>2, <3>3 DEF After
    <3>5. fifo[i].what \in {"NUL", "newline"}
      BY <1>6, <1>11, <3>4
    <3> QED
      BY <1>2, <1>1, <3>1, <3>5 DEF Described
  <2> QED
    BY <2>1, <2>2
<1> QED
  BY <1>6, <1>9, <1>10, <1>11

-----------------------------------------------------------------------------
(* What readLine makes of it.                                              *)

\* A function that is defined from its previous value is determined by it.
LEMMA SameSteps ==
    ASSUME NEW N \in Nat, NEW f, NEW g, f[0] = g[0],
           \A k \in 1..N : f[k - 1] = g[k - 1] => f[k] = g[k]
    PROVE  f[N] = g[N]
<1> DEFINE Differ == {k \in 0..N : f[k] # g[k]}
<1> SUFFICES ASSUME Differ # {} PROVE FALSE
  OBVIOUS
<1>1. PICK m \in Differ : \A y \in Differ : m <= y
  <2>1. Differ \subseteq Nat
    OBVIOUS
  <2> HIDE DEF Differ
  <2> QED
    BY <2>1, LeastElement
<1>2. m \in 1..N /\ f[m] # g[m]
  OBVIOUS
<1>3. m - 1 \in 0..N /\ m - 1 \notin Differ
  BY <1>1, <1>2
<1> QED
  BY <1>2, <1>3

\* The characters before the text, with it, and behind it.
LEMMA SizeOfText ==
    ASSUME StreamInv, Upto \in 1..Len(fifo), Len(Taken) = Upto,
           \A i \in 1..Upto : Taken[i] = fifo[i], \A i \in 1..Upto - 1 : ~fifo[i].nl,
           NEW t \in 1..Upto, fifo[t].what = "text"
    PROVE  /\ chars[Len(Taken)] = fifo[t].n + Upto - 1
           /\ chars[t] = fifo[t].n + t - 1
<1> DEFINE L == fifo[t].n
           N == Upto
           Step(f) == [k \in 0..N |-> IF k = 0 THEN 0 ELSE f[k - 1] + Taken[k].n]
           sum == [k \in 0..N |-> IF k < t THEN k ELSE k - 1 + L]
<1>1. N \in Nat /\ L \in Nat /\ t \in 1..N
  <2>1. Len(fifo) \in Nat /\ \A i \in 1..Len(fifo) : fifo[i].n \in Nat
    BY StreamFacts DEF StreamInv
  <2> QED
    BY <2>1
<1>2. \A k \in 1..N : Taken[k].n = IF k = t THEN L ELSE 1
  BY OneTextTaken
<1>3. chars = CHOOSE f : f = Step(f)
  BY DEF chars
<1> HIDE DEF N, L
<1>4. sum = Step(sum)
  <2>1. \A k \in 0..N : sum[k] = IF k = 0 THEN 0 ELSE sum[k - 1] + Taken[k].n
    BY <1>1, <1>2
  <2> QED
    BY <2>1
<1>5. chars = Step(chars)
  <2> HIDE DEF Step, sum
  <2> QED
    BY <1>3, <1>4
<1>6. \A k \in 0..N : chars[k] = IF k = 0 THEN 0 ELSE chars[k - 1] + Taken[k].n
  <2> SUFFICES ASSUME NEW k \in 0..N
               PROVE  chars[k] = IF k = 0 THEN 0 ELSE chars[k - 1] + Taken[k].n
    OBVIOUS
  <2>1. chars[k] = Step(chars)[k]
    BY <1>5
  <2> QED
    BY <2>1
<1>7. \A k \in 0..N : sum[k] = IF k = 0 THEN 0 ELSE sum[k - 1] + Taken[k].n
  BY <1>1, <1>2
<1>8. chars[N] = sum[N] /\ chars[t] = sum[t]
  <2> HIDE DEF sum
  <2>1. chars[0] = sum[0]
    BY <1>1, <1>6, <1>7
  <2>2. \A k \in 1..N : chars[k - 1] = sum[k - 1] => chars[k] = sum[k]
    BY <1>1, <1>6, <1>7
  <2>3. t \in Nat /\ \A k \in 1..t : k \in 1..N
    BY <1>1
  <2> QED
    BY <1>1, <2>1, <2>2, <2>3, SameSteps
<1>9. sum[N] = N - 1 + L /\ sum[t] = t - 1 + L
  BY <1>1
<1> QED
  BY <1>1, <1>8, <1>9 DEF N, L

\* A line of the size of the interrupt marker that has text in it holds a line
\* of output of that size or up to three characters shorter.
LEMMA MarkerSized ==
    ASSUME StreamInv, Ready, Size = InterruptLen,
           NEW t \in 1..Upto, fifo[t].what = "text"
    PROVE  fifo[t].n \in 29..InterruptLen
<1>1. /\ Upto \in 1..Len(fifo)
      /\ Len(Taken) = Upto
      /\ \A i \in 1..Upto : Taken[i] = fifo[i]
      /\ \A i \in 1..Upto - 1 : ~fifo[i].nl
  BY TakenFacts DEF StreamInv
<1>2. chars[Len(Taken)] = fifo[t].n + Upto - 1
  BY <1>1, SizeOfText
<1>3. t <= 2 /\ Upto <= t + 2
  BY <1>1, OneTextTaken
<1>4. Len(fifo) \in Nat /\ fifo[t].n \in Nat
  BY <1>1, StreamFacts DEF StreamInv
<1>5. chars[Len(Taken)] \in Nat /\ MAXLINE \in Nat /\ MAXLINE > 33
  BY <1>1, <1>2, <1>4, BufferAssumption DEF InterruptLen
<1>6. Size \in {chars[Len(Taken)], MAXLINE - 1}
  <2>1. {chars[Len(Taken)], MAXLINE - 1} \subseteq Nat
    BY <1>5
  <2> QED
    BY <2>1, MinIsLeast DEF Size
<1>7. chars[Len(Taken)] = 32
  BY <1>5, <1>6 DEF InterruptLen
<1> QED
  BY <1>1, <1>2, <1>3, <1>4, <1>7 DEF InterruptLen

\* A line that did not find room to its end does not fit the buffer, behind at
\* most one NUL.
LEMMA CutLinesAreLong ==
    ASSUME StreamInv, Ready, NEW k \in CutLines
    PROVE  /\ k \in 1..Len(written) /\ k \in 1..MaxLines
           /\ written[k] > MAXLINE - 2
<1>1. /\ Upto \in 1..Len(fifo)
      /\ Len(Taken) = Upto
      /\ \A i \in 1..Upto : Taken[i] = fifo[i]
      /\ \A i \in 1..Upto - 1 : ~fifo[i].nl
  BY TakenFacts DEF StreamInv
<1>2. /\ Len(fifo) \in Nat /\ \A i \in 1..Len(fifo) : fifo[i].n \in Nat
      /\ Len(written) \in Nat /\ Len(written) <= MaxLines
      /\ MaxLines \in Nat /\ MAXLINE \in Nat
  BY StreamFacts, LengthAssumption, BufferAssumption DEF StreamInv
<1>3. PICK t \in 1..Len(Taken) : Taken[t].what = "text" /\ chars[t] > MAXLINE - 1
                                 /\ k = Taken[t].line
  BY DEF CutLines
<1>4. t \in 1..Upto /\ t \in 1..Len(fifo) /\ fifo[t].what = "text" /\ k = fifo[t].line
  BY <1>1, <1>2, <1>3
<1>5. chars[t] = fifo[t].n + t - 1 /\ t <= 2
  BY <1>1, <1>4, SizeOfText, OneTextTaken
<1>6. k \in 1..Len(written) /\ fifo[t].n = written[k]
  BY <1>4 DEF StreamInv, Described
<1>7. fifo[t].n > MAXLINE - 2
  BY ONLY <1>2, <1>3, <1>4, <1>5
<1> QED
  BY ONLY <1>2, <1>6, <1>7

\* TextLines is the number of the line that was taken, if there is one.
LEMMA TextLinesTaken ==
    ASSUME StreamInv, Ready
    PROVE  \/ TextLines = <<>> /\ \A i \in 1..Upto : fifo[i].what # "text"
           \/ \E t \in 1..Upto : /\ fifo[t].what = "text"
                                 /\ TextLines = <<fifo[t].line>>
                                 /\ \A i \in 1..Upto : fifo[i].what = "text" => i = t
<1> DEFINE N == Upto
           IsText(i) == fifo[i].what = "text"
           Step(f) == [k \in 0..N |-> IF k = 0 THEN <<>>
                                      ELSE IF IsText(k) THEN Append(f[k - 1], fifo[k].line)
                                      ELSE f[k - 1]]
<1>1. /\ N \in 1..Len(fifo)
      /\ Len(Taken) = N
      /\ \A i \in 1..N : Taken[i] = fifo[i]
      /\ \A i \in 1..N - 1 : ~fifo[i].nl
  BY TakenFacts DEF StreamInv
<1>2. N \in Nat
  <2>1. Len(fifo) \in Nat
    BY StreamFacts DEF StreamInv
  <2> QED
    BY <1>1, <2>1
<1>3. lines = CHOOSE f : f = Step(f)
  <2>1. \A f : Step(f) = [k \in 0..Len(Taken) |->
                 IF k = 0 THEN <<>>
                 ELSE IF Taken[k].what = "text" THEN Append(f[k - 1], Taken[k].line)
                 ELSE f[k - 1]]
    BY <1>1
  <2> QED
    BY <2>1 DEF lines
<1>4. ASSUME NEW g, g = Step(g)
      PROVE  lines[N] = g[N]
  <2>1. lines = Step(lines)
    <3> HIDE DEF Step
    <3> QED
      BY <1>3, <1>4
  <2>2. ASSUME NEW f, f = Step(f), NEW k \in 0..N
        PROVE  f[k] = IF k = 0 THEN <<>>
                      ELSE IF IsText(k) THEN Append(f[k - 1], fifo[k].line) ELSE f[k - 1]
    <3>1. f[k] = Step(f)[k]
      BY <2>2
    <3> QED
      BY <3>1
  <2> HIDE DEF Step, IsText
  <2>3. lines[0] = g[0]
    <3>1. 0 \in 0..N
      BY <1>2
    <3> QED
      BY <1>4, <2>1, <2>2, <3>1
  <2>4. ASSUME NEW k \in 1..N, lines[k - 1] = g[k - 1]
        PROVE  lines[k] = g[k]
    <3>1. k \in 0..N /\ k # 0
      BY <1>2
    <3>2. lines[k] = IF IsText(k) THEN Append(lines[k - 1], fifo[k].line) ELSE lines[k - 1]
      BY <2>1, <2>2, <3>1
    <3>3. g[k] = IF IsText(k) THEN Append(g[k - 1], fifo[k].line) ELSE g[k - 1]
      BY <1>4, <2>2, <3>1
    <3> QED
      BY <2>4, <3>2, <3>3
  <2> HIDE DEF N
  <2> QED
    BY <1>2, <2>3, <2>4, SameSteps
<1>5. TextLines = lines[N]
  BY <1>1 DEF TextLines
<1>6. CASE \A i \in 1..N : ~IsText(i)
  <2> DEFINE none == [k \in 0..N |-> <<>>]
  <2>1. none = Step(none)
    <3> HIDE DEF IsText, N
    <3>1. \A k \in 0..N : <<>> = IF k = 0 THEN <<>>
                                 ELSE IF IsText(k) THEN Append(none[k - 1], fifo[k].line)
                                 ELSE none[k - 1]
      BY <1>2, <1>6
    <3> QED
      BY <3>1
  <2>2. none[N] = <<>>
    BY <1>2
  <2> HIDE DEF Step, none
  <2>3. lines[N] = none[N]
    BY <1>4, <2>1
  <2> QED
    BY <1>5, <1>6, <2>2, <2>3
<1>7. CASE \E t \in 1..N : IsText(t)
  <2>1. PICK t \in 1..N : IsText(t)
    BY <1>7
  <2>2. \A i \in 1..N : IsText(i) => i = t
    BY <1>1, <2>1, OneTextTaken
  <2> DEFINE one == [k \in 0..N |-> IF k < t THEN <<>> ELSE <<fifo[t].line>>]
  <2>3. one = Step(one)
    <3> HIDE DEF IsText, N
    <3>1. ASSUME NEW k \in 0..N
          PROVE  one[k] = IF k = 0 THEN <<>>
                          ELSE IF IsText(k) THEN Append(one[k - 1], fifo[k].line)
                          ELSE one[k - 1]
      <4>1. CASE k = 0
        BY <1>2, <4>1
      <4>2. CASE k # 0 /\ k # t
        <5>1. k \in 1..N /\ ~IsText(k) /\ k - 1 \in 0..N
          BY <1>2, <2>2, <4>2
        <5>2. (k < t) <=> (k - 1 < t)
          BY <1>2, <4>2
        <5> QED
          BY <4>2, <5>1, <5>2
      <4>3. CASE k = t
        <5>1. k # 0 /\ IsText(k) /\ k - 1 \in 0..N /\ k - 1 < t /\ ~(k < t)
          BY <1>2, <2>1, <4>3
        <5>2. one[k - 1] = <<>> /\ one[k] = <<fifo[t].line>>
          BY <5>1
        <5>3. Append(<<>>, fifo[t].line) = <<fifo[t].line>>
          OBVIOUS
        <5> QED
          BY <4>3, <5>1, <5>2, <5>3
      <4> QED
        BY <4>1, <4>2, <4>3
    <3> QED
      BY <3>1
  <2>4. one[N] = <<fifo[t].line>>
    BY <1>2
  <2> HIDE DEF Step, one
  <2>5. lines[N] = one[N]
    BY <1>4, <2>3
  <2>6. TextLines = <<fifo[t].line>>
    BY <1>5, <2>4, <2>5
  <2> QED
    BY <2>1, <2>2, <2>6
<1> QED
  BY <1>6, <1>7

-----------------------------------------------------------------------------
(* One line read.                                                          *)

\* When the comparison finds the marker, that was all there was.
LEMMA MarkerIsLast ==
    ASSUME StreamInv, Ready, NEW mark \in Marker, Matches(mark)
    PROVE  Upto = Len(fifo) /\ \A i \in 1..Upto : fifo[i].what # "text"
<1>1. Upto \in 1..Len(fifo) /\ Len(Taken) = Upto /\ \A i \in 1..Upto : Taken[i] = fifo[i]
  BY TakenFacts DEF StreamInv
<1>2. Upto = 1 /\ fifo[1].what = mark
  BY <1>1 DEF Matches
<1>3. Len(fifo) \in Nat
  BY StreamFacts DEF StreamInv
<1>4. Len(fifo) - 1 >= 1 => fifo[2].what \in After(fifo[1].what)
  BY <1>3 DEF StreamInv, InOrder
<1>5. After(fifo[1].what) = {} /\ fifo[1].what # "text"
  BY <1>2 DEF After, Marker
<1> QED
  BY <1>1, <1>2, <1>3, <1>4, <1>5

\* What is left in the FIFO.
LEMMA RestFacts ==
    ASSUME TypeOK, ReadLine
    PROVE  /\ Upto \in 1..Len(fifo) /\ Len(fifo) \in Nat
           /\ fifo' \in Seq(AnyPiece)
           /\ Len(fifo') = Len(fifo) - Upto
           /\ \A i \in 1..Len(fifo') : Upto + i \in 1..Len(fifo) /\ fifo'[i] = fifo[Upto + i]
<1>1. fifo \in Seq(AnyPiece) /\ Len(fifo) \in Nat /\ Upto \in 1..Len(fifo)
  BY StreamFacts, TakenFacts DEF TypeOK, ReadLine, AnyPiece
<1> DEFINE rest == SubSeq(fifo, Upto + 1, Len(fifo))
<1>2. \A i \in 1..Len(fifo) : fifo[i] \in AnyPiece
  BY <1>1, ElementOfSeq
<1>3. /\ rest \in Seq(AnyPiece)
      /\ Len(rest) = Len(fifo) - Upto
      /\ \A i \in 1..Len(fifo) - Upto : rest[i] = fifo[Upto + i]
  <2>1. Upto + 1 \in Int /\ Len(fifo) \in Int /\ \A i \in Upto + 1..Len(fifo) : fifo[i] \in AnyPiece
    BY <1>1, <1>2
  <2>2. /\ rest \in Seq(AnyPiece)
        /\ Len(rest) = IF Upto + 1 <= Len(fifo) THEN Len(fifo) - (Upto + 1) + 1 ELSE 0
        /\ \A i \in 1..Len(fifo) - (Upto + 1) + 1 : rest[i] = fifo[Upto + 1 + i - 1]
    BY <2>1, SubSeqProperties
  <2> HIDE DEF rest
  <2> QED
    BY <1>1, <2>2
<1>4. fifo' = rest
  BY DEF ReadLine
<1> HIDE DEF rest
<1>5. Len(fifo') = Len(fifo) - Upto /\ \A i \in 1..Len(fifo') : fifo'[i] = fifo[Upto + i]
  BY <1>3, <1>4
<1>6. \A i \in 1..Len(fifo') : Upto + i \in 1..Len(fifo)
  BY <1>1, <1>5
<1>7. fifo' \in Seq(AnyPiece)
  BY <1>3, <1>4
<1> QED
  BY <1>1, <1>5, <1>6, <1>7

\* What is left stands in the order it stood in.
LEMMA ReadLineKeepsOrder ==
    ASSUME StreamInv, ReadLine
    PROVE  (\A i \in 1..Len(fifo) : Described(i))' /\ InOrder' /\ BeforeMarker'
<1>1. /\ Upto \in 1..Len(fifo) /\ Len(fifo) \in Nat
      /\ Len(fifo') = Len(fifo) - Upto
      /\ \A i \in 1..Len(fifo') : Upto + i \in 1..Len(fifo) /\ fifo'[i] = fifo[Upto + i]
  BY RestFacts DEF StreamInv
<1>2. UNCHANGED <<server, asked, written, partial>>
  BY DEF ReadLine
<1>3. ASSUME NEW i \in 1..Len(fifo') PROVE Described(i)'
  <2>1. Upto + i \in 1..Len(fifo) /\ fifo'[i] = fifo[Upto + i]
    BY <1>1
  <2>2. Described(Upto + i)
    BY <2>1 DEF StreamInv
  <2> QED
    BY <1>2, <2>1, <2>2 DEF Described
<1>4. InOrder'
  <2>1. ASSUME NEW i \in 1..Len(fifo') - 1
        PROVE  fifo'[i + 1].what \in After(fifo'[i].what)
    <3>1. i \in 1..Len(fifo') /\ i + 1 \in 1..Len(fifo')
      BY <1>1
    <3>2. fifo'[i] = fifo[Upto + i] /\ fifo'[i + 1] = fifo[Upto + i + 1]
          /\ Upto + i \in 1..Len(fifo) - 1
      BY <1>1, <3>1
    <3> QED
      BY <3>2 DEF StreamInv, InOrder
  <2>2. ASSUME NEW i \in 1..Len(fifo'), NEW j \in 1..Len(fifo'),
               i < j, fifo'[i].what = "text", fifo'[j].what = "text"
        PROVE  fifo'[i].line < fifo'[j].line
    <3>1. /\ fifo'[i] = fifo[Upto + i] /\ fifo'[j] = fifo[Upto + j]
          /\ Upto + i \in 1..Len(fifo) /\ Upto + j \in 1..Len(fifo) /\ Upto + i < Upto + j
      BY <1>1, <2>2
    <3> QED
      BY <2>2, <3>1 DEF StreamInv, InOrder
  <2> QED
    BY <2>1, <2>2 DEF InOrder, After, Marker
<1>5. BeforeMarker'
  <2>1. server \in {"run", "killed"} => \A i \in 1..Len(fifo') : fifo'[i].what \in {"text", "NUL"}
    BY <1>1 DEF StreamInv, BeforeMarker
  <2>2. ASSUME server = "run", fifo' # <<>> PROVE fifo'[Len(fifo')].what = "NUL"
    <3>1. Len(fifo') # 0
      <4>1. fifo' \in Seq(AnyPiece)
        BY RestFacts DEF StreamInv
      <4> QED
        BY <2>2, <4>1, EmptySeq
    <3>2. fifo'[Len(fifo')] = fifo[Len(fifo)] /\ fifo # <<>>
      BY <1>1, <3>1
    <3> QED
      BY <2>2, <3>2 DEF StreamInv, BeforeMarker
  <2>3. server = "killed" => asked \in Marker
    BY DEF StreamInv, BeforeMarker
  <2> QED
    BY <1>2, <2>1, <2>2, <2>3 DEF BeforeMarker, Marker
<1> QED
  BY <1>3, <1>4, <1>5

\* A line keeps its place: what was shown stays shown, and what was in the
\* FIFO is still there unless it has been taken.
LEMMA StillTold ==
    ASSUME StreamInv, ReadLine, NEW k \in 1..Len(written), Told(k),
           Len(shown') \in Nat, Len(shown') >= Len(shown),
           \A i \in 1..Len(shown) : shown'[i] = shown[i],
           \A t \in 1..Upto : fifo[t].what = "text" /\ fifo[t].line = k =>
               \/ \E i \in 1..Len(shown') : shown'[i] = k
               \/ written[k] \in 29..InterruptLen
    PROVE  Told(k)'
<1>1. /\ Upto \in 1..Len(fifo) /\ Len(fifo) \in Nat
      /\ Len(fifo') = Len(fifo) - Upto
      /\ \A i \in 1..Len(fifo') : Upto + i \in 1..Len(fifo) /\ fifo'[i] = fifo[Upto + i]
  BY RestFacts DEF StreamInv
<1>2. written' = written
  BY DEF ReadLine
<1>3. CASE \E i \in 1..Len(shown) : shown[i] = k
  <2>1. PICK i \in 1..Len(shown) : shown[i] = k
    BY <1>3
  <2>2. Len(shown) \in Nat
    BY StreamFacts DEF StreamInv
  <2>3. i \in 1..Len(shown') /\ shown'[i] = k
    BY <2>1, <2>2
  <2> QED
    BY <2>3 DEF Told
<1>4. CASE written[k] \in 29..InterruptLen
  BY <1>2, <1>4 DEF Told
<1>5. CASE \E i \in 1..Len(fifo) : fifo[i].what = "text" /\ fifo[i].line = k
  <2>1. PICK j \in 1..Len(fifo) : fifo[j].what = "text" /\ fifo[j].line = k
    BY <1>5
  <2>2. CASE j \in 1..Upto
    BY <1>2, <2>1, <2>2 DEF Told
  <2>3. CASE j \notin 1..Upto
    <3>1. j - Upto \in 1..Len(fifo') /\ Upto + (j - Upto) = j
      BY <1>1, <2>3
    <3>2. fifo'[j - Upto] = fifo[j]
      BY <1>1, <3>1
    <3> QED
      BY <2>1, <3>1, <3>2 DEF Told
  <2> QED
    BY <2>2, <2>3
<1> QED
  BY <1>3, <1>4, <1>5 DEF Told

\* The client displays the line of output it has taken, if there is one, and
\* reads on.
LEMMA DisplayKeeps ==
    ASSUME StreamInv, ReadLine, Display
    PROVE  TypeOK' /\ ShownInOrder' /\ NothingForgotten'
<1>1. /\ Upto \in 1..Len(fifo) /\ Len(fifo) \in Nat
      /\ fifo' \in Seq(AnyPiece)
      /\ Len(fifo') = Len(fifo) - Upto
      /\ \A i \in 1..Len(fifo') : Upto + i \in 1..Len(fifo) /\ fifo'[i] = fifo[Upto + i]
  BY RestFacts DEF StreamInv
<1>2. /\ UNCHANGED <<server, asked, written, partial>>
      /\ stopped' = "" /\ stopped = "" /\ shown' = shown \o TextLines /\ Ready
      /\ cut' = cut \cup CutLines
  BY DEF ReadLine, Display
<1>3. /\ Len(written) \in Nat /\ Len(written) <= MaxLines /\ MaxLines \in Nat
      /\ Len(shown) \in Nat /\ shown \in Seq(1..MaxLines)
      /\ \A i \in 1..Len(shown) : shown[i] \in Nat
  BY StreamFacts, LengthAssumption DEF StreamInv, TypeOK
<1>4. \A k \in 1..Len(written) : Told(k)
  BY <1>2 DEF StreamInv, NothingForgotten
<1>5. /\ \A i \in 1..Len(shown) : shown[i] <= Len(written)
      /\ \A i \in 1..Len(shown) - 1 : shown[i] < shown[i + 1]
      /\ \A i \in 1..Len(shown), j \in 1..Len(fifo) :
            fifo[j].what = "text" => shown[i] < fifo[j].line
  BY DEF StreamInv, ShownInOrder
<1>6. ASSUME shown' \in Seq(1..MaxLines) PROVE TypeOK'
  <2>1. CutLines \subseteq 1..MaxLines
    BY <1>2, CutLinesAreLong
  <2>2. cut' \in SUBSET (1..MaxLines)
    BY <1>2, <2>1 DEF StreamInv, TypeOK
  <2> QED
    BY <1>1, <1>2, <1>6, <2>2, Zenon DEF StreamInv, TypeOK, AnyPiece
<1>7. CASE TextLines = <<>> /\ \A i \in 1..Upto : fifo[i].what # "text"
  <2>1. shown' = shown
    BY <1>2, <1>3, <1>7, ConcatEmptySeq
  <2>2. TypeOK'
    BY <1>3, <1>6, <2>1
  <2>3. ShownInOrder'
    BY <1>1, <1>2, <1>5, <2>1 DEF ShownInOrder
  <2>4. ASSUME NEW k \in 1..Len(written) PROVE Told(k)'
    BY <1>3, <1>4, <1>7, <2>1, StillTold
  <2> QED
    BY <1>2, <2>2, <2>3, <2>4 DEF NothingForgotten, Marker
<1>8. ASSUME NEW t \in 1..Upto, fifo[t].what = "text", TextLines = <<fifo[t].line>>,
             \A i \in 1..Upto : fifo[i].what = "text" => i = t
      PROVE  TypeOK' /\ ShownInOrder' /\ NothingForgotten'
  <2> DEFINE l == fifo[t].line
  <2>0. t \in 1..Len(fifo)
    BY <1>1
  <2>1. l \in 1..Len(written) /\ l \in 1..MaxLines
    BY <1>3, <1>8, <2>0 DEF StreamInv, Described
  <2>2. \A i \in 1..Len(shown) : shown[i] < l
    BY <1>5, <1>8, <2>0
  <2>3. \A j \in 1..Len(fifo') : fifo'[j].what = "text" => l < fifo'[j].line
    <3> SUFFICES ASSUME NEW j \in 1..Len(fifo'), fifo'[j].what = "text" PROVE l < fifo'[j].line
      OBVIOUS
    <3>1. Upto + j \in 1..Len(fifo) /\ fifo'[j] = fifo[Upto + j] /\ t < Upto + j
      BY <1>1
    <3> QED
      BY <1>8, <2>0, <3>1 DEF StreamInv, InOrder
  <2> HIDE DEF l
  <2>4. /\ shown' \in Seq(1..MaxLines)
        /\ Len(shown') = Len(shown) + 1
        /\ \A i \in 1..Len(shown) : shown'[i] = shown[i]
        /\ shown'[Len(shown) + 1] = l
    <3>1. shown' = Append(shown, l)
      <4>1. shown' = shown \o <<l>>
        BY <1>2, <1>8 DEF l
      <4> QED
        BY <1>3, <2>1, <4>1, AppendIsConcat
    <3> QED
      BY <1>3, <2>1, <3>1, AppendProperties
  <2>5. \A i \in 1..Len(shown') : IF i = Len(shown) + 1 THEN shown'[i] = l
                                  ELSE i \in 1..Len(shown) /\ shown'[i] = shown[i]
    BY <1>3, <2>4
  <2>6. ShownInOrder'
    <3>1. \A i \in 1..Len(shown') : shown'[i] <= Len(written)
      BY <1>3, <1>5, <2>1, <2>5
    <3>2. ASSUME NEW i \in 1..Len(shown') - 1 PROVE shown'[i] < shown'[i + 1]
      <4>1. i \in 1..Len(shown) /\ shown'[i] = shown[i]
        BY <1>3, <2>4
      <4>2. CASE i = Len(shown)
        BY <2>2, <2>4, <4>1, <4>2
      <4>3. CASE i # Len(shown)
        <5>1. i \in 1..Len(shown) - 1 /\ i + 1 \in 1..Len(shown)
          BY <1>3, <4>1, <4>3
        <5> QED
          BY <1>5, <2>4, <4>1, <5>1
      <4> QED
        BY <4>2, <4>3
    <3>3. ASSUME NEW i \in 1..Len(shown'), NEW j \in 1..Len(fifo'), fifo'[j].what = "text"
          PROVE  shown'[i] < fifo'[j].line
      <4>1. CASE i = Len(shown) + 1
        BY <2>3, <2>5, <3>3, <4>1
      <4>2. CASE i # Len(shown) + 1
        <5>1. i \in 1..Len(shown) /\ shown'[i] = shown[i]
          BY <2>5, <4>2
        <5>2. Upto + j \in 1..Len(fifo) /\ fifo'[j] = fifo[Upto + j]
          BY <1>1
        <5> QED
          BY <1>5, <3>3, <5>1, <5>2
      <4> QED
        BY <4>1, <4>2
    <3> QED
      BY <1>2, <3>1, <3>2, <3>3 DEF ShownInOrder
  <2>7. ASSUME NEW k \in 1..Len(written) PROVE Told(k)'
    <3>1. ASSUME NEW u \in 1..Upto, fifo[u].what = "text", fifo[u].line = k
          PROVE  \E i \in 1..Len(shown') : shown'[i] = k
      <4>1. u = t /\ l = k
        BY <1>8, <3>1 DEF l
      <4>2. Len(shown) + 1 \in 1..Len(shown')
        BY <1>3, <2>4
      <4> QED
        BY <2>4, <4>1, <4>2
    <3>2. Len(shown') \in Nat /\ Len(shown') >= Len(shown)
      BY <1>3, <2>4
    <3> QED
      BY <1>4, <2>4, <3>1, <3>2, StillTold
  <2> QED
    BY <1>2, <1>6, <2>4, <2>6, <2>7 DEF NothingForgotten, Marker
<1>9. \/ TextLines = <<>> /\ \A i \in 1..Upto : fifo[i].what # "text"
      \/ \E t \in 1..Upto : /\ fifo[t].what = "text"
                            /\ TextLines = <<fifo[t].line>>
                            /\ \A i \in 1..Upto : fifo[i].what = "text" => i = t
  BY <1>2, TextLinesTaken
<1> QED
  BY <1>7, <1>8, <1>9

\* A line of a marker's size is the marker, or output that is lost.
LEMMA CompareKeeps ==
    ASSUME StreamInv, ReadLine, CompareInterrupt \/ CompareShutdown
    PROVE  TypeOK' /\ ShownInOrder' /\ NothingForgotten'
<1>1. /\ Upto \in 1..Len(fifo) /\ Len(fifo) \in Nat
      /\ fifo' \in Seq(AnyPiece)
      /\ Len(fifo') = Len(fifo) - Upto
      /\ \A i \in 1..Len(fifo') : Upto + i \in 1..Len(fifo) /\ fifo'[i] = fifo[Upto + i]
  BY RestFacts DEF StreamInv
<1>2. UNCHANGED <<server, asked, written, partial, shown, cut>> /\ stopped = "" /\ Ready
  BY DEF ReadLine, CompareInterrupt, CompareShutdown
<1>3. stopped' \in Marker \cup {"", "length"}
  BY DEF CompareInterrupt, CompareShutdown, Marker
<1>4. TypeOK'
  <2>1. stopped' \in Marker \cup {"", "EOF", "length", "died"}
    BY <1>3
  <2> QED
    BY <1>1, <1>2, <2>1, Zenon DEF StreamInv, TypeOK, AnyPiece
<1>5. ShownInOrder'
  BY <1>1, <1>2 DEF StreamInv, ShownInOrder
<1>6. ASSUME stopped' \in Marker
      PROVE  Len(fifo') = 0 /\ \A i \in 1..Upto : fifo[i].what # "text"
  <2>1. PICK mark \in Marker : Matches(mark)
    BY <1>6 DEF CompareInterrupt, CompareShutdown, Marker
  <2>2. Upto = Len(fifo) /\ \A i \in 1..Upto : fifo[i].what # "text"
    BY <1>2, <2>1, MarkerIsLast
  <2> QED
    BY <1>1, <2>2
<1>7. ASSUME stopped' # "length", NEW k \in 1..Len(written)
      PROVE  Told(k)'
  <2>1. Told(k)
    BY <1>2 DEF StreamInv, NothingForgotten
  <2>2. Len(shown) \in Nat
    BY StreamFacts DEF StreamInv
  <2>3. ASSUME NEW t \in 1..Upto, fifo[t].what = "text", fifo[t].line = k
        PROVE  written[k] \in 29..InterruptLen
    <3>1. stopped' \notin Marker
      BY <1>6, <2>3
    <3>2. Size = InterruptLen
      BY <1>7, <3>1 DEF CompareInterrupt, CompareShutdown, Marker
    <3>3. fifo[t].n \in 29..InterruptLen
      BY <1>2, <2>3, <3>2, MarkerSized
    <3>4. fifo[t].n = written[k]
      BY <1>1, <2>3 DEF StreamInv, Described
    <3> QED
      BY <3>3, <3>4
  <2>4. /\ Len(shown') \in Nat /\ Len(shown') >= Len(shown)
        /\ \A i \in 1..Len(shown) : shown'[i] = shown[i]
    <3>1. shown' = shown
      BY <1>2
    <3> QED
      BY ONLY <2>2, <3>1
  <2> QED
    BY <2>1, <2>3, <2>4, StillTold
<1>8. ASSUME stopped' \in Marker PROVE fifo' = <<>>
  <2> QED
    BY <1>1, <1>6, <1>8, EmptySeq
<1>9. stopped' # "EOF"
  BY <1>3 DEF Marker
<1>10. NothingForgotten'
  BY <1>2, <1>7, <1>8, <1>9 DEF NothingForgotten, Marker
<1> QED
  BY <1>4, <1>5, <1>10

-----------------------------------------------------------------------------
(* The other steps.                                                        *)

\* At first there is nothing to read and nothing to show.
LEMMA StreamInitiation == Init => StreamInv
<1> SUFFICES ASSUME Init PROVE StreamInv
  OBVIOUS
<1>1. fifo = <<>> /\ written = <<>> /\ shown = <<>> /\ cut = {}
      /\ Len(fifo) = 0 /\ Len(written) = 0 /\ Len(shown) = 0
  BY DEF Init
<1>2. server = "run" /\ asked = "" /\ stopped = "" /\ partial = FALSE
  BY DEF Init
<1>3. TypeOK
  <2>1. MaxLines \in Nat
    BY LengthAssumption
  <2>2. Len(written) <= MaxLines
    BY ONLY <1>1, <2>1
  <2>3. \A S : <<>> \in Seq(S)
    OBVIOUS
  <2>4. /\ server \in {"run", "killed", "closed", "SIGPIPE"}
        /\ asked \in Marker \cup {""}
        /\ stopped \in Marker \cup {"", "EOF", "length", "died"}
    BY <1>2
  <2>5. cut \in SUBSET (1..MaxLines)
    BY <1>1
  <2> QED
    BY <1>1, <1>2, <2>2, <2>3, <2>4, <2>5, Zenon DEF TypeOK
<1>4. \A i \in 1..Len(fifo) : Described(i)
  BY <1>1
<1>5. InOrder
  BY <1>1 DEF InOrder
<1>6. \A i \in 1..0 : FALSE
  OBVIOUS
<1>7. BeforeMarker
  <2>1. server # "killed"
    BY <1>2
  <2> QED
    BY <1>6, <1>1, <2>1, Zenon DEF BeforeMarker
<1>8. ShownInOrder
  BY <1>1 DEF ShownInOrder
<1>9. NothingForgotten
  BY <1>6, <1>1, Zenon DEF NothingForgotten
<1> QED
  BY <1>3, <1>4, <1>5, <1>7, <1>8, <1>9 DEF StreamInv

\* Steps that neither write nor read.
LEMMA NothingMoved ==
    ASSUME StreamInv, UNCHANGED <<fifo, written, partial, shown, cut>>,
           server' \in {"run", "killed", "closed", "SIGPIPE"},
           server' = "run" => server = "run",
           server' = "killed" => server \in {"run", "killed"} /\ asked' \in Marker,
           asked' \in Marker \cup {""},
           stopped' \in {stopped, "EOF", "died"},
           stopped = "length" => stopped' = "length",
           stopped' = "EOF" => fifo = <<>>
    PROVE  StreamInv'
<1>1. TypeOK'
  <2>1. stopped' \in Marker \cup {"", "EOF", "length", "died"}
    BY DEF StreamInv, TypeOK
  <2> QED
    BY <2>1, Zenon DEF StreamInv, TypeOK
<1>2. (\A i \in 1..Len(fifo) : Described(i))'
  BY DEF StreamInv, Described
<1>3. InOrder'
  BY DEF StreamInv, InOrder
<1>4. BeforeMarker'
  BY DEF StreamInv, BeforeMarker
<1>5. ShownInOrder'
  BY DEF StreamInv, ShownInOrder
<1>6. NothingForgotten'
  <2>1. ASSUME NEW k \in 1..Len(written), Told(k) PROVE Told(k)'
    BY <2>1 DEF Told
  <2>2. stopped' # "length" => stopped # "length"
    OBVIOUS
  <2>3. stopped' # "length" => \A k \in 1..Len(written) : Told(k)'
    BY <2>1, <2>2 DEF StreamInv, NothingForgotten
  <2>4. stopped' \in Marker \cup {"EOF"} => fifo' = <<>>
    <3>1. "died" \notin Marker \cup {"EOF"}
      BY DEF Marker
    <3>2. stopped \in Marker \cup {"EOF"} => fifo = <<>>
      BY DEF StreamInv, NothingForgotten
    <3> QED
      BY ONLY <3>1, <3>2, fifo' = fifo, stopped' \in {stopped, "EOF", "died"},
              stopped' = "EOF" => fifo = <<>>
  <2> QED
    BY <2>3, <2>4 DEF NothingForgotten, Marker
<1> QED
  BY <1>1, <1>2, <1>3, <1>4, <1>5, <1>6 DEF StreamInv

\* Pieces put behind the others: what is in the FIFO stays where it is.
LEMMA Behind ==
    ASSUME TypeOK, NEW S, fifo \in Seq(S), NEW p \in S, NEW q \in S,
           fifo' = fifo \o <<p, q>>
    PROVE  /\ fifo' \in Seq(S)
           /\ Len(fifo') = Len(fifo) + 2
           /\ \A i \in 1..Len(fifo) : fifo'[i] = fifo[i]
           /\ fifo'[Len(fifo) + 1] = p
           /\ fifo'[Len(fifo) + 2] = q
<1>1. <<p, q>> \in Seq(S) /\ Len(<<p, q>>) = 2 /\ <<p, q>>[1] = p /\ <<p, q>>[2] = q
  OBVIOUS
<1>2. Len(fifo) \in Nat
  BY LenProperties
<1> DEFINE add == <<p, q>>
<1> HIDE DEF add
<1>3. /\ fifo \o add \in Seq(S)
      /\ Len(fifo \o add) = Len(fifo) + Len(add)
      /\ \A i \in 1..Len(fifo) + Len(add) :
           (fifo \o add)[i] = IF i <= Len(fifo) THEN fifo[i] ELSE add[i - Len(fifo)]
  BY <1>1, ConcatProperties DEF add
<1>4. fifo' = fifo \o add /\ add \in Seq(S) /\ Len(add) = 2 /\ add[1] = p /\ add[2] = q
  BY <1>1 DEF add
<1> QED
  BY <1>2, <1>3, <1>4

\* A line written when the last one was complete, with its NUL or, if the
\* thread is cancelled in write, without.
LEMMA TextAdded ==
    ASSUME StreamInv, server = "run", ~partial,
           stopped \notin Marker \cup {"EOF", "length", "died"},
           NEW n \in LineLength, NEW m \in {1, 2}, NEW p, NEW q,
           Len(written') = Len(written) + 1, written'[Len(written) + 1] = n,
           \A k \in 1..Len(written) : written'[k] = written[k],
           stopped' = stopped, shown' = shown, TypeOK',
           Len(fifo') = Len(fifo) + m, \A i \in 1..Len(fifo) : fifo'[i] = fifo[i],
           fifo'[Len(fifo) + 1] = p, m = 2 => fifo'[Len(fifo) + 2] = q,
           p.n = n, p.what = "text", p.line = Len(written) + 1, p.nl \/ partial',
           q.n = 1, q.what = "NUL", ~q.nl,
           server' = "run" => m = 2, server' = "killed" => asked' \in Marker
    PROVE  StreamInv'
<1>1. /\ Len(fifo) \in Nat
      /\ \A i \in 1..Len(fifo) :
            /\ fifo[i].what \in {"text", "NUL", "newline", "INTERRUPT", "SHUTDOWN"}
            /\ fifo[i].line \in Nat
      /\ Len(written) \in Nat /\ Len(written) <= MaxLines
      /\ \A k \in 1..Len(written) : written[k] \in Nat
      /\ Len(shown) \in Nat
      /\ \A i \in 1..Len(shown) : shown[i] \in Nat
  BY StreamFacts DEF StreamInv
<1>2. n \in Nat /\ MaxLines \in Nat
  BY LengthAssumption
<1>3. ASSUME NEW i \in 1..Len(fifo')
      PROVE  \/ i \in 1..Len(fifo) /\ fifo'[i] = fifo[i]
             \/ i = Len(fifo) + 1 /\ fifo'[i] = p
             \/ i = Len(fifo) + 2 /\ fifo'[i] = q /\ m = 2
  BY <1>1
<1>4. \A i \in 1..Len(fifo) : Described(i)
  BY DEF StreamInv
<1>5. ASSUME NEW i \in 1..Len(fifo') PROVE Described(i)'
  <2>1. CASE i \in 1..Len(fifo) /\ fifo'[i] = fifo[i]
    <3>1. fifo[i].what = "text" =>
             /\ fifo[i].line \in 1..Len(written)
             /\ fifo[i].n = written[fifo[i].line]
             /\ fifo[i].nl
      BY <1>4, <2>1 DEF Described
    <3>2. fifo[i].what = "text" =>
             /\ fifo[i].line \in 1..Len(written')
             /\ fifo[i].n = written'[fifo[i].line]
      BY <1>1, <3>1
    <3> QED
      BY <1>4, <2>1, <3>1, <3>2 DEF Described, Marker
  <2>2. CASE i = Len(fifo) + 1 /\ fifo'[i] = p
    <3>1. p.line \in 1..Len(written') /\ p.n = written'[p.line] /\ p.line = Len(written')
      BY <1>1
    <3>2. p.nl \/ partial'
      OBVIOUS
    <3>3. p.what \notin Marker \cup {"newline", "NUL"}
      BY DEF Marker
    <3> QED
      BY <2>2, <3>1, <3>2, <3>3 DEF Described, Marker
  <2>3. CASE i = Len(fifo) + 2 /\ fifo'[i] = q /\ m = 2
    <3>1. q.what \notin Marker \cup {"newline", "text"}
      BY <2>3 DEF Marker
    <3> QED
      BY <2>3, <3>1 DEF Described, Marker
  <2> QED
    BY <1>3, <2>1, <2>2, <2>3
<1>6. \A i \in 1..Len(fifo) : fifo[i].what = "text" => fifo[i].line \in 1..Len(written)
  BY <1>4 DEF Described
<1>7. InOrder'
  <2>1. ASSUME NEW i \in 1..Len(fifo') - 1
        PROVE  fifo'[i + 1].what \in After(fifo'[i].what)
    <3>1. CASE i \in 1..Len(fifo) - 1
      <4>1. i \in 1..Len(fifo) /\ i + 1 \in 1..Len(fifo)
        BY <1>1, <3>1
      <4>2. fifo'[i] = fifo[i] /\ fifo'[i + 1] = fifo[i + 1]
        BY <4>1
      <4> QED
        BY <3>1, <4>2 DEF StreamInv, InOrder
    <3>2. CASE i = Len(fifo)
      <4>1. fifo'[i] = fifo[i] /\ fifo'[i + 1] = p /\ fifo # <<>>
        BY <1>1, <3>2
      <4>2. fifo[i].what = "NUL"
        BY <3>2, <4>1 DEF StreamInv, BeforeMarker
      <4> QED
        BY <4>1, <4>2 DEF After
    <3>3. CASE i = Len(fifo) + 1
      <4>1. m = 2 /\ fifo'[i] = p /\ fifo'[i + 1] = q
        BY <1>1, <3>3
      <4> QED
        BY <4>1 DEF After
    <3> QED
      BY <1>1, <3>1, <3>2, <3>3
  <2>2. ASSUME NEW i \in 1..Len(fifo'), NEW j \in 1..Len(fifo'),
               i < j, fifo'[i].what = "text", fifo'[j].what = "text"
        PROVE  fifo'[i].line < fifo'[j].line
    <3>1. i \in 1..Len(fifo) /\ fifo'[i] = fifo[i]
      BY <1>1, <1>3, <2>2
    <3>2. CASE j \in 1..Len(fifo)
      BY <2>2, <3>1, <3>2 DEF StreamInv, InOrder
    <3>3. CASE j \notin 1..Len(fifo)
      <4>1. fifo'[j] = p
        BY <1>3, <2>2, <3>3
      <4>2. fifo[i].line \in 1..Len(written)
        BY <1>6, <2>2, <3>1
      <4> QED
        BY <1>1, <3>1, <4>1, <4>2
    <3> QED
      BY <3>2, <3>3
  <2> QED
    BY <2>1, <2>2 DEF InOrder, After, Marker
<1>8. BeforeMarker'
  <2>1. ASSUME NEW i \in 1..Len(fifo') PROVE fifo'[i].what \in {"text", "NUL"}
    BY <1>3 DEF StreamInv, BeforeMarker
  <2>2. server' = "run" => fifo'[Len(fifo')].what = "NUL"
    OBVIOUS
  <2>3. server' = "killed" => asked' \in Marker
    OBVIOUS
  <2> QED
    BY <2>1, <2>2, <2>3 DEF BeforeMarker, Marker
<1>9. ShownInOrder'
  <2>1. shown' = shown
    OBVIOUS
  <2>2. /\ \A i \in 1..Len(shown) : shown[i] <= Len(written)
        /\ \A i \in 1..Len(shown) - 1 : shown[i] < shown[i + 1]
        /\ \A i \in 1..Len(shown), j \in 1..Len(fifo) :
              fifo[j].what = "text" => shown[i] < fifo[j].line
    BY DEF StreamInv, ShownInOrder
  <2>3. \A i \in 1..Len(shown) : shown[i] <= Len(written') /\ shown[i] < Len(written) + 1
    BY <1>1, <2>2
  <2>4. ASSUME NEW i \in 1..Len(shown), NEW j \in 1..Len(fifo'), fifo'[j].what = "text"
        PROVE  shown[i] < fifo'[j].line
    BY <1>3, <2>2, <2>3, <2>4
  <2> QED
    BY <2>1, <2>2, <2>3, <2>4 DEF ShownInOrder
<1>10. NothingForgotten'
  <2>1. ASSUME NEW k \in 1..Len(written') PROVE Told(k)'
    <3>1. CASE k \in 1..Len(written)
      <4>1. Told(k)
        BY <3>1 DEF StreamInv, NothingForgotten
      <4>2. shown' = shown /\ written'[k] = written[k]
        BY <3>1
      <4>3. \A i \in 1..Len(fifo) : i \in 1..Len(fifo') /\ fifo'[i] = fifo[i]
        BY <1>1
      <4> QED
        BY <4>1, <4>2, <4>3 DEF Told
    <3>2. CASE k = Len(written) + 1
      <4>1. Len(fifo) + 1 \in 1..Len(fifo') /\ fifo'[Len(fifo) + 1] = p
        BY <1>1
      <4> QED
        BY <3>2, <4>1 DEF Told
    <3> QED
      BY <1>1, <3>1, <3>2
  <2>2. stopped' \notin Marker \cup {"EOF"}
    BY DEF Marker
  <2> QED
    BY <2>1, <2>2 DEF NothingForgotten, Marker
<1> QED
  BY <1>5, <1>7, <1>8, <1>9, <1>10 DEF StreamInv

\* The newline and the marker, behind whatever the cancelled thread has left.
LEMMA MarkerAdded ==
    ASSUME StreamInv, server = "killed", server' = "closed",
           stopped \notin Marker \cup {"EOF", "length", "died"},
           written' = written, partial' = partial, stopped' = stopped, shown' = shown, TypeOK',
           NEW p, NEW q,
           Len(fifo') = Len(fifo) + 2, \A i \in 1..Len(fifo) : fifo'[i] = fifo[i],
           fifo'[Len(fifo) + 1] = p, fifo'[Len(fifo) + 2] = q,
           p.n = 1, p.what = "newline", p.nl, q.what \in Marker, q.nl
    PROVE  StreamInv'
<1>1. /\ Len(fifo) \in Nat
      /\ \A i \in 1..Len(fifo) : fifo[i].line \in Nat
      /\ Len(written) \in Nat
  BY StreamFacts DEF StreamInv
<1>2. \A i \in 1..Len(fifo) : fifo[i].what \in {"text", "NUL"} /\ Described(i)
  BY DEF StreamInv, BeforeMarker
<1>3. ASSUME NEW i \in 1..Len(fifo')
      PROVE  \/ i \in 1..Len(fifo) /\ fifo'[i] = fifo[i]
             \/ i = Len(fifo) + 1 /\ fifo'[i] = p
             \/ i = Len(fifo) + 2 /\ fifo'[i] = q
  BY <1>1
<1>4. q.what \notin {"text", "NUL", "newline"}
  BY DEF Marker
<1>5. ASSUME NEW i \in 1..Len(fifo') PROVE Described(i)'
  <2>1. CASE i \in 1..Len(fifo) /\ fifo'[i] = fifo[i]
    BY <1>2, <2>1 DEF Described
  <2>2. CASE i = Len(fifo) + 1 /\ fifo'[i] = p
    BY <2>2 DEF Described
  <2>3. CASE i = Len(fifo) + 2 /\ fifo'[i] = q
    BY <1>4, <2>3 DEF Described
  <2> QED
    BY <1>3, <2>1, <2>2, <2>3
<1>6. ASSUME NEW i \in 1..Len(fifo'), fifo'[i].what = "text"
      PROVE  i \in 1..Len(fifo) /\ fifo'[i] = fifo[i]
  BY <1>3, <1>4, <1>6
<1>7. InOrder'
  <2>1. ASSUME NEW i \in 1..Len(fifo') - 1
        PROVE  fifo'[i + 1].what \in After(fifo'[i].what)
    <3>1. CASE i \in 1..Len(fifo) - 1
      <4>1. i \in 1..Len(fifo) /\ i + 1 \in 1..Len(fifo)
        BY <1>1, <3>1
      <4>2. fifo'[i] = fifo[i] /\ fifo'[i + 1] = fifo[i + 1]
        BY <4>1
      <4> QED
        BY <3>1, <4>2 DEF StreamInv, InOrder
    <3>2. CASE i = Len(fifo)
      <4>1. i \in 1..Len(fifo) /\ fifo'[i] = fifo[i] /\ fifo'[i + 1] = p
        BY <1>1, <3>2
      <4>2. fifo[i].what \in {"text", "NUL"}
        BY <1>2, <4>1
      <4> QED
        BY <4>1, <4>2 DEF After
    <3>3. CASE i = Len(fifo) + 1
      <4>1. fifo'[i] = p /\ fifo'[i + 1] = q
        BY <1>1, <3>3
      <4> QED
        BY <4>1 DEF After
    <3> QED
      BY <1>1, <3>1, <3>2, <3>3
  <2>2. ASSUME NEW i \in 1..Len(fifo'), NEW j \in 1..Len(fifo'),
               i < j, fifo'[i].what = "text", fifo'[j].what = "text"
        PROVE  fifo'[i].line < fifo'[j].line
    <3>1. i \in 1..Len(fifo) /\ fifo'[i] = fifo[i] /\ j \in 1..Len(fifo) /\ fifo'[j] = fifo[j]
      BY <1>6, <2>2
    <3> QED
      BY <2>2, <3>1 DEF StreamInv, InOrder
  <2> QED
    BY <2>1, <2>2 DEF InOrder, After, Marker
<1>8. BeforeMarker'
  BY DEF BeforeMarker
<1>9. ShownInOrder'
  <2>1. ASSUME NEW i \in 1..Len(shown), NEW j \in 1..Len(fifo'), fifo'[j].what = "text"
        PROVE  shown[i] < fifo'[j].line
    <3>1. j \in 1..Len(fifo) /\ fifo'[j] = fifo[j]
      BY <1>6, <2>1
    <3> QED
      BY <2>1, <3>1 DEF StreamInv, ShownInOrder
  <2> QED
    BY <2>1 DEF StreamInv, ShownInOrder
<1>10. NothingForgotten'
  <2>1. ASSUME NEW k \in 1..Len(written) PROVE Told(k)'
    <3>1. Told(k)
      BY DEF StreamInv, NothingForgotten
    <3>2. \A i \in 1..Len(fifo) : i \in 1..Len(fifo') /\ fifo'[i] = fifo[i]
      BY <1>1
    <3> QED
      BY <3>1, <3>2 DEF Told
  <2> QED
    BY <2>1 DEF NothingForgotten, Marker
<1> QED
  BY <1>5, <1>7, <1>8, <1>9, <1>10 DEF StreamInv

\* What WriteLine and CancelWrite write.
LEMMA TextPiece ==
    ASSUME TypeOK, NEW n \in LineLength, NEW nl \in BOOLEAN, Len(written) < MaxLines
    PROVE  /\ Piece(n, nl, "text", Number) \in AnyPiece
           /\ Piece(n, nl, "text", Number).n = n
           /\ Piece(n, nl, "text", Number).what = "text"
           /\ Piece(n, nl, "text", Number).line = Len(written) + 1
           /\ Piece(n, nl, "text", Number).nl <=> nl
<1>1. n \in Nat /\ Len(written) \in Nat /\ MaxLines \in Nat
  BY StreamFacts, LengthAssumption
<1>2. Number = Len(written) + 1
  BY DEF Number
<1>3. Number \in 0..MaxLines
  BY <1>1, <1>2
<1>4. Piece(n, nl, "text", Number) \in AnyPiece
  BY ONLY <1>1, <1>3, nl \in BOOLEAN DEF Piece, AnyPiece
<1>5. Piece(n, nl, "text", Number).nl = nl
  BY Zenon DEF Piece
<1> QED
  BY <1>2, <1>4, <1>5 DEF Piece

\* What is written behind it.
LEMMA SinglePieces ==
    /\ NUL \in AnyPiece /\ NUL.n = 1 /\ NUL.what = "NUL" /\ ~NUL.nl
    /\ Newline \in AnyPiece /\ Newline.n = 1 /\ Newline.what = "newline" /\ Newline.nl
<1>1. MaxLines \in Nat
  BY LengthAssumption
<1>2. 0 \in 0..MaxLines
  BY <1>1
<1>3. NUL \in AnyPiece /\ Newline \in AnyPiece
  BY <1>2 DEF NUL, Newline, Piece, AnyPiece
<1>4. ~NUL.nl /\ Newline.nl
  BY DEF NUL, Newline, Piece
<1>5. NUL.n = 1 /\ NUL.what = "NUL" /\ Newline.n = 1 /\ Newline.what = "newline"
  BY DEF NUL, Newline, Piece
<1> QED
  BY <1>3, <1>4, <1>5

\* One line more has been written.
LEMMA OneLineMore ==
    ASSUME TypeOK, NEW n \in LineLength, written' = Append(written, n), Len(written) < MaxLines
    PROVE  /\ written' \in Seq(LineLength) /\ Len(written') <= MaxLines
           /\ Len(written') = Len(written) + 1 /\ written'[Len(written) + 1] = n
           /\ \A k \in 1..Len(written) : written'[k] = written[k]
<1>1. written \in Seq(LineLength)
  BY DEF TypeOK
<1>2. Len(written) \in Nat /\ MaxLines \in Nat
  BY StreamFacts, LengthAssumption
<1>3. /\ written' \in Seq(LineLength)
      /\ Len(written') = Len(written) + 1 /\ written'[Len(written) + 1] = n
      /\ \A k \in 1..Len(written) : written'[k] = written[k]
  BY ONLY <1>1, n \in LineLength, written' = Append(written, n), AppendProperties
<1>4. Len(written') <= MaxLines
  BY ONLY <1>2, <1>3, Len(written) < MaxLines
<1> QED
  BY <1>3, <1>4

\* Every step keeps the stream as it should be.
LEMMA StreamInvariance == StreamInv /\ [Next]_vars => StreamInv'
<1> SUFFICES ASSUME StreamInv, [Next]_vars PROVE StreamInv'
  OBVIOUS
<1>1. TypeOK /\ fifo \in Seq(AnyPiece)
  BY DEF StreamInv, TypeOK, AnyPiece
<1>2. /\ TypeOK /\ server \in {"run", "killed", "closed", "SIGPIPE"} /\ asked \in Marker \cup {""}
      /\ stopped \in Marker \cup {"", "EOF", "length", "died"}
  BY DEF StreamInv, TypeOK, AnyPiece
<1>3. stopped = "" => stopped \notin Marker \cup {"EOF", "length", "died"}
  BY DEF Marker
<1>4. server = "killed" => asked \in Marker
  BY DEF StreamInv, BeforeMarker
<1>5. ASSUME fifo' \in Seq(AnyPiece), written' \in Seq(LineLength), Len(written') <= MaxLines,
             server' \in {"run", "killed", "closed", "SIGPIPE"}, asked' \in Marker \cup {""},
             partial' \in BOOLEAN, UNCHANGED <<stopped, shown, cut>>
      PROVE  TypeOK'
  BY <1>5, Zenon DEF StreamInv, TypeOK, AnyPiece
<1>6. ASSUME NEW n \in LineLength, NEW nl \in BOOLEAN, WriteLine(n, nl) PROVE StreamInv'
  <2> DEFINE p == Piece(n, nl, "text", Number)
  <2>1. /\ server = "run" /\ ~partial /\ stopped = "" /\ Len(written) < MaxLines
        /\ fifo' = fifo \o <<p, NUL>> /\ written' = Append(written, n) /\ partial' = ~nl
        /\ server' = server /\ asked' = asked /\ stopped' = stopped /\ shown' = shown
        /\ cut' = cut
    BY <1>6 DEF WriteLine
  <2>2. /\ p \in AnyPiece /\ p.n = n /\ p.what = "text" /\ p.line = Len(written) + 1
        /\ p.nl <=> nl
    BY <1>2, <2>1, TextPiece
  <2> HIDE DEF p
  <2>3. NUL \in AnyPiece /\ NUL.n = 1 /\ NUL.what = "NUL" /\ ~NUL.nl
    BY SinglePieces
  <2>4. /\ fifo' \in Seq(AnyPiece) /\ Len(fifo') = Len(fifo) + 2
        /\ \A i \in 1..Len(fifo) : fifo'[i] = fifo[i]
        /\ fifo'[Len(fifo) + 1] = p /\ fifo'[Len(fifo) + 2] = NUL
    <3>1. fifo' = fifo \o <<p, NUL>>
      BY <2>1
    <3>2. p \in AnyPiece /\ NUL \in AnyPiece
      BY <2>2, <2>3
    <3> QED
      BY ONLY <1>1, <3>1, <3>2, Behind
  <2>5. /\ written' \in Seq(LineLength) /\ Len(written') <= MaxLines
        /\ Len(written') = Len(written) + 1 /\ written'[Len(written) + 1] = n
        /\ \A k \in 1..Len(written) : written'[k] = written[k]
    BY <1>2, <2>1, OneLineMore
  <2>6. TypeOK'
    BY <1>2, <1>5, <2>1, <2>4, <2>5, Zenon
  <2>7. p.nl \/ partial'
    BY <2>1, <2>2, Zenon
  <2>8. /\ stopped \notin Marker \cup {"EOF", "length", "died"}
        /\ server' = "run" => 2 = 2
        /\ server' = "killed" => asked' \in Marker
    BY <1>3, <1>4, <2>1, Zenon
  <2> QED
    BY <2>1, <2>2, <2>3, <2>4, <2>5, <2>6, <2>7, <2>8, TextAdded, Zenon
<1>7. ASSUME NEW mark \in Marker, NEW n \in LineLength, NEW nl \in BOOLEAN,
             CancelWrite(mark, n, nl)
      PROVE  StreamInv'
  <2> DEFINE p == Piece(n, nl, "text", Number)
  <2>1. /\ server = "run" /\ ~partial /\ stopped = "" /\ Len(written) < MaxLines
        /\ fifo' = Append(fifo, p) /\ written' = Append(written, n) /\ partial' = ~nl
        /\ server' = "killed" /\ asked' = mark /\ stopped' = stopped /\ shown' = shown
        /\ cut' = cut
    BY <1>7 DEF CancelWrite
  <2>2. /\ p \in AnyPiece /\ p.n = n /\ p.what = "text" /\ p.line = Len(written) + 1
        /\ p.nl <=> nl
    BY <1>2, <2>1, TextPiece
  <2> HIDE DEF p
  <2>3. NUL.n = 1 /\ NUL.what = "NUL" /\ ~NUL.nl
    BY SinglePieces
  <2>4. /\ fifo' \in Seq(AnyPiece) /\ Len(fifo') = Len(fifo) + 1
        /\ \A i \in 1..Len(fifo) : fifo'[i] = fifo[i]
        /\ fifo'[Len(fifo) + 1] = p
    <3>1. fifo' = Append(fifo, p)
      BY <2>1
    <3>2. p \in AnyPiece
      BY <2>2
    <3> QED
      BY ONLY <1>1, <3>1, <3>2, AppendProperties
  <2>5. /\ written' \in Seq(LineLength) /\ Len(written') <= MaxLines
        /\ Len(written') = Len(written) + 1 /\ written'[Len(written) + 1] = n
        /\ \A k \in 1..Len(written) : written'[k] = written[k]
    BY <1>2, <2>1, OneLineMore
  <2>6. TypeOK'
    BY <1>2, <1>5, <2>1, <2>4, <2>5, Zenon
  <2>7. p.nl \/ partial'
    BY <2>1, <2>2, Zenon
  <2>8. /\ stopped \notin Marker \cup {"EOF", "length", "died"}
        /\ server' # "run" /\ asked' \in Marker
    BY <1>3, <2>1, Zenon
  <2>9. 1 # 2
    OBVIOUS
  <2> QED
    BY <2>1, <2>2, <2>3, <2>4, <2>5, <2>6, <2>7, <2>8, <2>9, TextAdded, Zenon
<1>8. CASE SendMarker
  <2> DEFINE q == Piece(IF asked = "INTERRUPT" THEN InterruptLen ELSE ShutdownLen, TRUE, asked, 0)
  <2>1. /\ server = "killed" /\ stopped = ""
        /\ fifo' = fifo \o <<Newline, q>> /\ server' = "closed"
        /\ asked' = asked /\ written' = written /\ partial' = partial
        /\ stopped' = stopped /\ shown' = shown
        /\ cut' = cut
    BY <1>8 DEF SendMarker
  <2>2. q \in AnyPiece /\ q.what \in Marker /\ q.nl
    <3>1. MaxLines \in Nat /\ asked \in Marker
      BY <1>4, <2>1, LengthAssumption
    <3>2. 0 \in 0..MaxLines /\ InterruptLen \in Nat /\ ShutdownLen \in Nat
      BY ONLY <3>1 DEF InterruptLen, ShutdownLen
    <3>3. q \in AnyPiece
      BY ONLY <3>1, <3>2 DEF Piece, AnyPiece
    <3> QED
      BY ONLY <3>1, <3>3 DEF Piece
  <2> HIDE DEF q
  <2>3. Newline \in AnyPiece /\ Newline.n = 1 /\ Newline.what = "newline" /\ Newline.nl
    BY SinglePieces
  <2>4. /\ fifo' \in Seq(AnyPiece) /\ Len(fifo') = Len(fifo) + 2
        /\ \A i \in 1..Len(fifo) : fifo'[i] = fifo[i]
        /\ fifo'[Len(fifo) + 1] = Newline /\ fifo'[Len(fifo) + 2] = q
    <3>1. fifo' = fifo \o <<Newline, q>>
      BY <2>1
    <3>2. Newline \in AnyPiece /\ q \in AnyPiece
      BY <2>2, <2>3
    <3> QED
      BY ONLY <1>1, <3>1, <3>2, Behind
  <2>5. TypeOK'
    BY <1>2, <1>5, <2>1, <2>4, Zenon DEF TypeOK
  <2> QED
    BY <1>3, <2>1, <2>2, <2>3, <2>4, <2>5, MarkerAdded, Zenon
<1>9. CASE ReadLine
  <2>1. (\A i \in 1..Len(fifo) : Described(i))' /\ InOrder' /\ BeforeMarker'
    BY <1>9, ReadLineKeepsOrder
  <2>2. TypeOK' /\ ShownInOrder' /\ NothingForgotten'
    BY <1>9, DisplayKeeps, CompareKeeps DEF ReadLine
  <2> QED
    BY <2>1, <2>2 DEF StreamInv
<1>10. CASE ReadEOF
  <2>1. /\ fifo' = fifo /\ written' = written /\ partial' = partial /\ shown' = shown
        /\ cut' = cut
        /\ server' = server /\ asked' = asked /\ fifo = <<>> /\ stopped' = "EOF"
        /\ stopped # "length"
    BY <1>10 DEF ReadEOF
  <2> QED
    BY <1>2, <1>4, <2>1, NothingMoved, Zenon
<1>11. stopped = "EOF" => fifo = <<>>
  BY DEF StreamInv, NothingForgotten
<1>12. ASSUME NEW mark \in Marker, Cancel(mark) PROVE StreamInv'
  <2>1. /\ fifo' = fifo /\ written' = written /\ partial' = partial /\ shown' = shown
        /\ cut' = cut
        /\ server = "run" /\ server' = "killed" /\ asked' = mark /\ stopped' = stopped
    BY <1>12 DEF Cancel
  <2>2. /\ server' \in {"run", "killed", "closed", "SIGPIPE"} /\ server' # "run"
        /\ server' = "killed" => server \in {"run", "killed"} /\ asked' \in Marker
        /\ asked' \in Marker \cup {""}
    BY <1>2, <2>1
  <2>3. /\ stopped' \in {stopped, "EOF", "died"}
        /\ stopped = "length" => stopped' = "length"
        /\ stopped' = "EOF" => fifo = <<>>
    BY <1>11, <2>1
  <2> QED
    BY <2>1, <2>2, <2>3, NothingMoved, Zenon
<1>13. CASE Close
  <2>1. /\ fifo' = fifo /\ written' = written /\ partial' = partial /\ shown' = shown
        /\ cut' = cut
        /\ server' = "closed" /\ asked' = asked /\ stopped' = stopped
    BY <1>13 DEF Close
  <2>2. /\ server' \in {"run", "killed", "closed", "SIGPIPE"} /\ server' # "run"
        /\ server' = "killed" => server \in {"run", "killed"} /\ asked' \in Marker
        /\ asked' \in Marker \cup {""}
    BY <1>2, <2>1
  <2>3. /\ stopped' \in {stopped, "EOF", "died"}
        /\ stopped = "length" => stopped' = "length"
        /\ stopped' = "EOF" => fifo = <<>>
    BY <1>11, <2>1
  <2> QED
    BY <2>1, <2>2, <2>3, NothingMoved, Zenon
<1>14. CASE WriteFails
  <2>1. /\ fifo' = fifo /\ written' = written /\ partial' = partial /\ shown' = shown
        /\ cut' = cut
        /\ server' = "SIGPIPE" /\ asked' = asked /\ stopped' = stopped
    BY <1>14 DEF WriteFails
  <2>2. /\ server' \in {"run", "killed", "closed", "SIGPIPE"} /\ server' # "run"
        /\ server' = "killed" => server \in {"run", "killed"} /\ asked' \in Marker
        /\ asked' \in Marker \cup {""}
    BY <1>2, <2>1
  <2>3. /\ stopped' \in {stopped, "EOF", "died"}
        /\ stopped = "length" => stopped' = "length"
        /\ stopped' = "EOF" => fifo = <<>>
    BY <1>11, <2>1
  <2> QED
    BY <2>1, <2>2, <2>3, NothingMoved, Zenon
<1>15. CASE UNCHANGED vars
  <2>1. /\ fifo' = fifo /\ written' = written /\ partial' = partial /\ shown' = shown
        /\ cut' = cut
        /\ server' = server /\ asked' = asked /\ stopped' = stopped
    BY <1>15 DEF vars
  <2>2. /\ server' \in {"run", "killed", "closed", "SIGPIPE"}
        /\ server' = "killed" => server \in {"run", "killed"} /\ asked' \in Marker
        /\ asked' \in Marker \cup {""}
    BY <1>2, <1>4, <2>1
  <2>3. /\ stopped' \in {stopped, "EOF", "died"}
        /\ stopped = "length" => stopped' = "length"
        /\ stopped' = "EOF" => fifo = <<>>
    BY <1>11, <2>1
  <2> QED
    BY <2>1, <2>2, <2>3, NothingMoved, Zenon
<1>16. CASE Die
  <2>1. /\ fifo' = fifo /\ written' = written /\ partial' = partial /\ shown' = shown
        /\ cut' = cut
        /\ server' = server /\ asked' = asked /\ stopped' = "died" /\ stopped # "length"
    BY <1>16 DEF Die
  <2>2. stopped' # "EOF"
    BY <2>1
  <2> QED
    BY <1>2, <1>4, <2>1, <2>2, NothingMoved, Zenon
<1> QED
  BY <1>6, <1>7, <1>8, <1>9, <1>10, <1>12, <1>13, <1>14, <1>15, <1>16
  DEF Next, Output, Console, Result

\* So is what has been cut short.
LEMMA CutInvariance == StreamInv /\ CutOnlyLong /\ [Next]_vars => CutOnlyLong'
<1> SUFFICES ASSUME StreamInv, CutOnlyLong, [Next]_vars PROVE CutOnlyLong'
  OBVIOUS
<1>1. TypeOK /\ Len(written) \in Nat
  BY StreamFacts DEF StreamInv
<1>2. CASE \E n \in LineLength : written' = Append(written, n) /\ Len(written) < MaxLines /\ cut' = cut
  <2>1. PICK n \in LineLength : written' = Append(written, n) /\ Len(written) < MaxLines /\ cut' = cut
    BY <1>2
  <2>2. Len(written') = Len(written) + 1 /\ \A k \in 1..Len(written) : written'[k] = written[k]
    BY <1>1, <2>1, OneLineMore
  <2> QED
    BY <1>1, <2>1, <2>2 DEF CutOnlyLong
<1>3. CASE written' = written /\ cut' = cut
  BY <1>3 DEF CutOnlyLong
<1>4. CASE ReadLine /\ Display
  <2>1. written' = written /\ Ready /\ cut' = cut \cup CutLines
    BY <1>4 DEF ReadLine, Display
  <2> QED
    BY <2>1, CutLinesAreLong DEF CutOnlyLong
<1>5. CASE ReadLine /\ (CompareInterrupt \/ CompareShutdown)
  BY <1>3, <1>5 DEF ReadLine, CompareInterrupt, CompareShutdown
<1>6. ASSUME NEW n \in LineLength, NEW nl \in BOOLEAN, WriteLine(n, nl) PROVE CutOnlyLong'
  BY <1>2, <1>6 DEF WriteLine
<1>7. ASSUME NEW mark \in Marker, NEW n \in LineLength, NEW nl \in BOOLEAN,
             CancelWrite(mark, n, nl)
      PROVE  CutOnlyLong'
  BY <1>2, <1>7 DEF CancelWrite
<1>8. ASSUME NEW mark \in Marker, Cancel(mark) PROVE CutOnlyLong'
  BY <1>3, <1>8 DEF Cancel
<1>9. CASE Close \/ WriteFails \/ SendMarker \/ ReadEOF \/ Die \/ UNCHANGED vars
  BY <1>3, <1>9 DEF Close, WriteFails, SendMarker, ReadEOF, Die, vars
<1> QED
  BY <1>4, <1>5, <1>6, <1>7, <1>8, <1>9 DEF Next, Output, Console, Result, ReadLine

\* The pieces, the lines and the markers have their types.
THEOREM TypeCorrect == Spec => []TypeOK
<1>1. StreamInv => TypeOK
  BY DEF StreamInv
<1> QED
  BY StreamInitiation, StreamInvariance, <1>1, PTL DEF Spec

\* However many lines there are, a client that was not misled and lives has
\* displayed them in order, and all of them but those that come within three
\* characters of the size of the interrupt marker; those that fit the buffer
\* behind a NUL it has displayed to their end.
THEOREM OnlyMarkerSizedAreLost == Spec => []OnlyMarkerSizedLinesAreLost
<1>1. StreamInv /\ CutOnlyLong => OnlyMarkerSizedLinesAreLost
  <2> SUFFICES ASSUME StreamInv, CutOnlyLong PROVE OnlyMarkerSizedLinesAreLost
    OBVIOUS
  <2>1. \A i \in 1..Len(shown) - 1 : shown[i] < shown[i + 1]
    BY DEF StreamInv, ShownInOrder
  <2>2. ASSUME stopped \in Marker \cup {"EOF"}, NEW k \in 1..Len(written)
        PROVE  (\E i \in 1..Len(shown) : shown[i] = k) \/ written[k] \in 29..InterruptLen
    <3>1. fifo = <<>> /\ stopped # "length"
      BY <2>2 DEF StreamInv, NothingForgotten, Marker
    <3>2. Told(k)
      BY <3>1 DEF StreamInv, NothingForgotten
    <3>3. Len(fifo) = 0
      BY ONLY <3>1
    <3>4. ~ \E i \in 1..Len(fifo) : fifo[i].what = "text" /\ fifo[i].line = k
      BY ONLY <3>3
    <3> QED
      BY <3>2, <3>4 DEF Told
  <2>3. \A k \in cut : written[k] > MAXLINE - 2
    BY DEF CutOnlyLong
  <2> QED
    BY <2>1, <2>2, <2>3 DEF OnlyMarkerSizedLinesAreLost
<1>2. Init => CutOnlyLong
  BY DEF Init, CutOnlyLong
<1> QED
  BY StreamInitiation, StreamInvariance, CutInvariance, <1>1, <1>2, PTL DEF Spec

=============================================================================
