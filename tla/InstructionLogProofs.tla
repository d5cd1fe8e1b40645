------------------------ MODULE InstructionLogProofs ------------------------
(* Theorems about InstructionLog, for any number of lines and truncations.   *)
EXTENDS InstructionLog, SequenceTheorems, TLAPS

USE DEF logVars, monitorVars, netVars, histories, vars

Pieces == [line : Lines, part : {"whole", "head", "tail"}]

LEMMA PieceType ==
  ASSUME file \in Seq(Pieces)
  PROVE  \A i \in 1..Len(file) : /\ file[i] \in Pieces /\ file[i].line \in Lines
                                 /\ file[i].line \in Nat
<1>1. \A piece \in Pieces : piece.line \in Lines
  BY DEF Pieces
<1>2. Lines \subseteq Nat
  BY LogAssumption DEF Lines
<1>3. \A i \in 1..Len(file) : file[i] \in Pieces
  OBVIOUS
<1> QED
  BY <1>1, <1>2, <1>3

\* What a fetch adds to the buffer, piece by piece
LEMMA FillEffect ==
  ASSUME TypeOK, Fill
  PROVE  /\ buffer' \in Seq(Pieces)
         /\ Len(buffer') \in Len(buffer) + 1..Len(buffer) + Len(file) - Fetched
         /\ \A i \in 1..Len(buffer) : buffer'[i] = buffer[i]
         /\ \A i \in Len(buffer) + 1..Len(buffer') :
              /\ buffer'[i] = file[position + i]
              /\ position + i \in Fetched + 1..Len(file)
<1>1. /\ file \in Seq(Pieces) /\ buffer \in Seq(Pieces) /\ position \in Nat
      /\ Len(file) \in Nat /\ Len(buffer) \in Nat /\ Fetched = position + Len(buffer)
  BY DEF TypeOK, Pieces, Fetched
<1> HIDE DEF Pieces
<1>2. PICK n \in Fetched + 1..Len(file) : buffer' = buffer \o SubSeq(file, Fetched + 1, n)
  BY DEF Fill
<1> DEFINE more == SubSeq(file, Fetched + 1, n)
<1>3. \A i \in Fetched + 1..n : file[i] \in Pieces
  BY <1>1, <1>2
<1>4. /\ more \in Seq(Pieces) /\ Len(more) = n - Fetched
      /\ \A i \in 1..n - Fetched : more[i] = file[Fetched + i]
  BY <1>1, <1>2, <1>3, SubSeqProperties
<1> HIDE DEF more
<1>5. /\ buffer' \in Seq(Pieces) /\ Len(buffer') = Len(buffer) + Len(more)
      /\ \A i \in 1..Len(buffer) + Len(more) :
           buffer'[i] = IF i <= Len(buffer) THEN buffer[i] ELSE more[i - Len(buffer)]
  BY <1>1, <1>2, <1>4, ConcatProperties DEF more
<1> QED
  BY <1>1, <1>2, <1>4, <1>5

\* What taking pieces leaves in the buffer
LEMMA TakeEffect ==
  ASSUME TypeOK, NEW n \in 1..Len(buffer), Take(n)
  PROVE  /\ buffer' \in Seq(Pieces) /\ Len(buffer') = Len(buffer) - n
         /\ \A i \in 1..Len(buffer) - n : buffer'[i] = buffer[i + n]
         /\ position' = position + n /\ torn \subseteq torn' /\ torn' \subseteq Lines
         /\ hand'.part # "whole" => \A i \in 1..n : buffer[i].line \in torn'
<1>1. buffer \in Seq(Pieces) /\ Len(buffer) \in Nat
  BY DEF TypeOK, Pieces
<1>2. \A i \in 1..Len(buffer) : buffer[i] \in Pieces /\ buffer[i].line \in Lines
  <2>1. \A i \in 1..Len(buffer) : buffer[i] \in Pieces
    BY <1>1
  <2> QED
    BY <2>1 DEF Pieces
<1>3. \A i \in n + 1..Len(buffer) : buffer[i] \in Pieces
  BY <1>1, <1>2
<1> HIDE DEF Pieces
<1>4. /\ buffer' \in Seq(Pieces) /\ Len(buffer') = Len(buffer) - n
      /\ \A i \in 1..Len(buffer) - n : buffer'[i] = buffer[i + n]
  BY <1>1, <1>3, SubSeqProperties DEF Take
<1>5. /\ torn \subseteq torn' /\ torn' \subseteq Lines
      /\ hand'.part # "whole" => \A i \in 1..n : buffer[i].line \in torn'
  BY <1>1, <1>2 DEF Take, TypeOK
<1> QED
  BY <1>4, <1>5 DEF Take

\* What a read hands on, in terms of the buffer
LEMMA ReadEffect ==
  ASSUME TypeOK, ReadLine
  PROVE  \E n \in 1..2 :
           /\ n <= Len(buffer) /\ Take(n)
           /\ n = 1 => hand' = buffer[1]
           /\ n = 2 => buffer[1].part = "head"
           /\ n = 2 /\ Matching => hand'.part = "whole"
           /\ hand'.line = buffer[1].line /\ hand' \in Pieces
           /\ hand'.part = "whole" => buffer[1].part # "tail"
<1>1. /\ buffer \in Seq(Pieces) /\ Len(buffer) \in Nat /\ Len(buffer) >= 1
      /\ buffer[1] \in Pieces /\ buffer[1].line \in Lines
  <2>1. buffer \in Seq(Pieces) /\ Len(buffer) \in Nat /\ Len(buffer) >= 1
    BY DEF TypeOK, Pieces, ReadLine
  <2>2. buffer[1] \in Pieces
    BY <2>1
  <2> QED
    BY <2>1, <2>2 DEF Pieces
<1>2. CASE Joined
  <2>1. Take(2) /\ 2 <= Len(buffer) /\ buffer[1].part = "head"
    BY <1>1, <1>2 DEF ReadLine, Joined
  <2>2. /\ hand' = IF Matching THEN Whole(buffer[1].line) ELSE buffer[1]
        /\ hand'.line = buffer[1].line /\ hand' \in Pieces
        /\ hand'.part = "whole" <=> Matching
    BY <1>1, <1>2, <2>1 DEF ReadLine, Whole, Pieces
  <2> QED
    BY <2>1, <2>2
<1>3. CASE ~Joined
  <2>1. Take(1) /\ hand' = buffer[1]
    BY <1>3 DEF ReadLine
  <2> QED
    BY <1>1, <2>1 DEF Pieces
<1> QED
  BY <1>2, <1>3

\* What writes and truncations make of the file: its lines are in order, the last
\* one is the last written, and a line in two parts is a head and its tail.
FileShape ==
  /\ file # <<>> => file[Len(file)].line = written
  /\ \A i, j \in 1..Len(file) :
       i < j /\ file[j].part # "tail" => file[i].line < file[j].line
  /\ \A i \in 1..Len(file) : file[i].line <= written
  /\ \A i \in 1..Len(file) :
       file[i].part = "head" /\ i < Len(file) =>
         file[i + 1].part = "tail" /\ file[i + 1].line = file[i].line

LEMMA AssistantInductive ==
  ASSUME TypeOK, FileShape, Assistant
  PROVE  TypeOK' /\ FileShape'
<1>1. CASE Create
  BY <1>1 DEF TypeOK, FileShape, Create
<1>2. CASE Truncate
  <2>1. TypeOK'
    BY <1>2, LogAssumption DEF TypeOK, Truncate
  <2>2. FileShape'
    BY <1>2 DEF FileShape, Truncate
  <2> QED
    BY <2>1, <2>2
<1>3. CASE WriteLine
  <2>1. PICK piece \in {Whole(written + 1), Head1(written + 1)} : file' = Append(file, piece)
    BY <1>3 DEF WriteLine
  <2>2. written \in 0..MaxLines /\ written + 1 \in Lines /\ written' = written + 1
    BY <1>3, LogAssumption DEF TypeOK, WriteLine, Lines
  <2>3. piece \in Pieces /\ piece.line = written + 1 /\ piece.part \in {"whole", "head"}
    BY <2>2 DEF Whole, Head1, Pieces
  <2>4. file \in Seq(Pieces) /\ file' \in Seq(Pieces)
    BY <2>1, <2>3 DEF TypeOK, Pieces
  <2>5. TypeOK'
    BY <1>3, <2>2, <2>4, LogAssumption DEF TypeOK, WriteLine, Pieces, Lines
  <2>6. /\ Len(file') = Len(file) + 1 /\ file'[Len(file')] = piece
        /\ \A i \in 1..Len(file) : file'[i] = file[i]
    BY <2>1, <2>3, <2>4
  <2>7. \A i \in 1..Len(file) : file[i] \in Pieces /\ file[i].line \in Nat
    BY <2>4, PieceType
  <2>8. \A i \in 1..Len(file') : i \in 1..Len(file) \/ i = Len(file')
    BY <2>4, <2>6
  <2>9. FileShape'
    <3>1. ~(file # <<>> /\ file[Len(file)].part = "head")
      BY <1>3 DEF WriteLine, Begun
    <3>2. (\A i \in 1..Len(file) : file[i].line <= written)'
      BY <2>2, <2>3, <2>6, <2>7, <2>8 DEF FileShape
    <3>3. (\A i, j \in 1..Len(file) :
             i < j /\ file[j].part # "tail" => file[i].line < file[j].line)'
      BY <2>2, <2>3, <2>4, <2>6, <2>7, <2>8 DEF FileShape
    <3>4. (\A i \in 1..Len(file) : file[i].part = "head" /\ i < Len(file) =>
             file[i + 1].part = "tail" /\ file[i + 1].line = file[i].line)'
      BY <3>1, <2>4, <2>6, <2>8 DEF FileShape
    <3>5. (file # <<>> => file[Len(file)].line = written)'
      BY <2>2, <2>3, <2>6
    <3> QED
      BY <3>2, <3>3, <3>4, <3>5 DEF FileShape
  <2> QED
    BY <2>5, <2>9
<1>4. CASE EndLine
  <2> DEFINE n == Len(file)
  <2>0. file \in Seq(Pieces) /\ file # <<>> /\ file[n].part = "head"
    BY <1>4 DEF TypeOK, EndLine, Begun, Pieces
  <2>1. /\ file \in Seq(Pieces) /\ file # <<>> /\ n \in 1..n
        /\ file[n].part = "head" /\ file[n].line = written
    BY <2>0 DEF FileShape
  <2>2. written \in Lines
    BY <2>1, PieceType
  <2>3. /\ Tail1(written) \in Pieces /\ Tail1(written).line = written
        /\ Tail1(written).part = "tail"
    BY <2>2 DEF Tail1, Pieces
  <2>4. file' = Append(file, Tail1(written)) /\ file' \in Seq(Pieces)
    BY <1>4, <2>1, <2>3 DEF EndLine
  <2>5. TypeOK'
    BY <1>4, <2>4 DEF TypeOK, EndLine, Pieces
  <2>6. /\ Len(file') = n + 1 /\ file'[n + 1] = Tail1(written)
        /\ \A i \in 1..n : file'[i] = file[i]
    BY <2>1, <2>3, <2>4
  <2>7. \A i \in 1..Len(file') : i \in 1..n \/ i = n + 1
    BY <2>1, <2>6
  <2>8. FileShape'
    <3>1. written' = written /\ written \in Nat
      BY <1>4 DEF EndLine, TypeOK
    <3>2. (\A i \in 1..Len(file) : file[i].line <= written)'
      BY <3>1, <2>3, <2>6, <2>7 DEF FileShape
    <3>3. (\A i, j \in 1..Len(file) :
             i < j /\ file[j].part # "tail" => file[i].line < file[j].line)'
      BY <2>1, <2>3, <2>6, <2>7 DEF FileShape
    <3>4. (\A i \in 1..Len(file) : file[i].part = "head" /\ i < Len(file) =>
             file[i + 1].part = "tail" /\ file[i + 1].line = file[i].line)'
      BY <2>1, <2>3, <2>6, <2>7 DEF FileShape
    <3>5. (file # <<>> => file[Len(file)].line = written)'
      BY <3>1, <2>3, <2>6
    <3> QED
      BY <3>2, <3>3, <3>4, <3>5 DEF FileShape
  <2> QED
    BY <2>5, <2>8
<1> QED
  BY <1>1, <1>2, <1>3, <1>4 DEF Assistant

LEMMA MonitorType ==
  ASSUME TypeOK, Monitor \/ ConnectOrLose \/ ServerReads
  PROVE  TypeOK'
<1>1. CASE Open
  <2>1. Len(file) \in Nat /\ {file[i].line : i \in 1..Len(file)} \subseteq Lines
    BY PieceType DEF TypeOK, Pieces
  <2> QED
    BY <1>1, <2>1 DEF TypeOK, Open
<1>2. CASE Stat \/ ReadNothing
  <2>1. /\ at' \in {"absent", "stat", "read", "route", "send"} /\ position' \in Nat
        /\ hand' \in {hand, NewFile}
    BY <1>2 DEF TypeOK, Stat, ReadNothing
  <2>3. unnoticed' \in BOOLEAN
    BY <1>2, Zenon DEF TypeOK, Stat, ReadNothing
  <2>4. buffer' \in Seq(Pieces)
    <3>1. buffer' = buffer \/ buffer' = <<>>
      BY <1>2 DEF Stat, ReadNothing
    <3>2. buffer \in Seq(Pieces)
      BY DEF TypeOK, Pieces
    <3> HIDE DEF Pieces
    <3>3. <<>> \in Seq(Pieces)
      OBVIOUS
    <3> QED
      BY <3>1, <3>2, <3>3
  <2>2. UNCHANGED <<logVars, netVars, routed, passed, torn>>
    BY <1>2 DEF Stat, ReadNothing
  <2> QED
    BY <2>1, <2>2, <2>3, <2>4 DEF TypeOK, Pieces
<1>6. CASE Send
  <2>1. unsent' \in 0..Capacity
    BY <1>6, LogAssumption DEF TypeOK, Send
  <2> QED
    BY <1>6, <2>1 DEF TypeOK, Send
<1>3. CASE ReadLine
  <2>1. /\ hand' \in Pieces /\ buffer' \in Seq(Pieces) /\ position' \in Nat
        /\ torn' \subseteq Lines
    BY <1>3, ReadEffect, TakeEffect DEF TypeOK
  <2> QED
    BY <1>3, <2>1 DEF TypeOK, ReadLine, Pieces
<1>7. CASE Fill
  BY <1>7, FillEffect DEF TypeOK, Fill, Pieces
<1>4. CASE Route
  <2>1. hand.part = "whole" => hand.line \in Lines
    BY DEF TypeOK, NewFile
  <2>2. routed' \in Seq(Lines)
    BY <1>4, <2>1 DEF TypeOK, Route
  <2> QED
    BY <1>4, <2>2 DEF TypeOK, Route
<1>5. CASE ConnectOrLose \/ ServerReads
  <2>1. unsent' \in 0..Capacity
    BY <1>5, LogAssumption DEF TypeOK, ConnectOrLose, ServerReads
  <2> QED
    BY <1>5, <2>1 DEF TypeOK, ConnectOrLose, ServerReads
<1> QED
  BY <1>1, <1>2, <1>3, <1>4, <1>5, <1>6, <1>7 DEF Monitor

LEMMA ShapeInductive == TypeOK /\ FileShape /\ [Next]_vars => TypeOK' /\ FileShape'
<1> SUFFICES ASSUME TypeOK, FileShape, [Next]_vars
             PROVE  TypeOK' /\ FileShape'
  OBVIOUS
<1>1. CASE Monitor \/ ConnectOrLose \/ ServerReads
  <2>1. UNCHANGED <<file, written>>
    BY <1>1 DEF Monitor, Open, Stat, Fill, ReadLine, ReadNothing, Route, Send, ConnectOrLose,
       ServerReads
  <2> QED
    BY <1>1, <2>1, MonitorType DEF FileShape
<1>2. CASE UNCHANGED vars
  BY <1>2 DEF TypeOK, FileShape
<1> QED
  BY <1>1, <1>2, AssistantInductive DEF Next

LEMMA ShapeAlways == Spec => [](TypeOK /\ FileShape)
<1>1. Init => TypeOK /\ FileShape
  <2> SUFFICES ASSUME Init
               PROVE  TypeOK /\ FileShape
    OBVIOUS
  <2>1. FileShape
    BY DEF Init, FileShape
  <2>3. exists \in BOOLEAN /\ connected \in BOOLEAN /\ unnoticed \in BOOLEAN
    BY DEF Init
  <2>2. 0 \in 0..MaxLines /\ 0 \in 0..MaxTruncations /\ 0 \in 0..Capacity
    BY LogAssumption
  <2> QED
    BY <2>1, <2>2, <2>3 DEF Init, TypeOK
<1> QED
  BY <1>1, ShapeInductive, PTL DEF Spec, LocalSpec

\* Every variable of the file, the monitor and the connection keeps its type.
THEOREM Typing == Spec => []TypeOK
BY ShapeAlways, PTL

-----------------------------------------------------------------------------
(* The buffer.                                                              *)

\* Nothing is kept in the buffer while the monitor looks at the size of the file.
Drained == at \in {"absent", "stat"} => buffer = <<>>

LEMMA DrainedAlways == Spec => []Drained
<1>1. Init => Drained
  BY DEF Init, Drained
<1>2. Drained /\ [Next]_vars => Drained'
  BY DEF Drained, Next, Assistant, Monitor, Create, WriteLine, EndLine, Truncate, Open, Stat,
     Fill, ReadLine, ReadNothing, Route, Send, ConnectOrLose, ServerReads
<1> QED
  BY <1>1, <1>2, PTL DEF Spec, LocalSpec

-----------------------------------------------------------------------------
(* The order of what is routed.  What the monitor has yet to fetch, the     *)
(* whole file after a truncation it has not noticed, is later than what is  *)
(* in its buffer, and both are later than what it has routed or in hand.    *)

HasLine == at = "route" /\ hand.part = "whole"

Unread(i) == (i > Fetched \/ Fetched > Len(file)) /\ file[i].part # "tail"

\* A line later than all that was routed and than the one in hand
Later(line) ==
  /\ \A k \in 1..Len(routed) : routed[k] < line
  /\ HasLine => hand.line < line

BufferOrder ==
  /\ \A j \in 1..Len(buffer) : buffer[j].line <= written
  /\ \A j, l \in 1..Len(buffer) :
       j < l /\ buffer[l].part # "tail" => buffer[j].line < buffer[l].line
  /\ \A j \in 1..Len(buffer), i \in 1..Len(file) : Unread(i) => buffer[j].line < file[i].line

RoutedOrder ==
  /\ \A k \in 1..Len(routed) : routed[k] <= written
  /\ \A k, l \in 1..Len(routed) : k < l => routed[k] < routed[l]
  /\ HasLine => /\ hand.line \in Lines /\ hand.line <= written
                /\ \A k \in 1..Len(routed) : routed[k] < hand.line
  /\ \A j \in 1..Len(buffer) : buffer[j].part # "tail" => Later(buffer[j].line)
  /\ \A i \in 1..Len(file) : Unread(i) => Later(file[i].line)

Accounted(i) ==
  file[i].part # "head" /\ file[i].line \notin passed \cup torn =>
    \/ \E k \in 1..Len(routed) : routed[k] = file[i].line
    \/ HasLine /\ hand.line = file[i].line

\* As long as no truncation escapes the monitor, its buffer holds what comes next in the
\* file, and what it has passed it has routed or has in hand.
LossInv ==
  ~unnoticed =>
    /\ Fetched <= Len(file)
    /\ \A j \in 1..Len(buffer) : buffer[j] = file[position + j]
    /\ \A i \in 1..Len(file) : i <= position => Accounted(i)

-----------------------------------------------------------------------------
(* What the steps of the assistant do to the file, piece by piece.          *)

LEMMA AppendEffect ==
  ASSUME TypeOK, WriteLine \/ EndLine
  PROVE  /\ Len(file') = Len(file) + 1
         /\ \A i \in 1..Len(file) : file'[i] = file[i]
         /\ file'[Len(file) + 1].part = "tail" \/ file'[Len(file) + 1].line = written + 1
         /\ WriteLine => file'[Len(file) + 1].line = written + 1 /\ written' = written + 1
         /\ EndLine => file'[Len(file) + 1].part = "tail" /\ written' = written
         /\ UNCHANGED <<at, position, buffer, hand, routed, passed, torn, unnoticed>>
<1>1. file \in Seq(Pieces)
  BY DEF TypeOK, Pieces
<1>2. PICK piece : /\ file' = Append(file, piece)
                   /\ WriteLine => piece.line = written + 1
                   /\ EndLine => piece.part = "tail"
  <2>1. CASE WriteLine
    <3>1. ~EndLine
      BY <2>1 DEF WriteLine, EndLine
    <3> QED
      BY <2>1, <3>1 DEF WriteLine, Whole, Head1
  <2>2. CASE EndLine
    <3>1. ~WriteLine
      BY <2>2 DEF WriteLine, EndLine
    <3> QED
      BY <2>2, <3>1 DEF EndLine, Tail1
  <2> QED
    BY <2>1, <2>2
<1>3. Len(file') = Len(file) + 1 /\ file'[Len(file) + 1] = piece
  BY <1>1, <1>2, AppendProperties
<1>4. \A i \in 1..Len(file) : file'[i] = file[i]
  BY <1>1, <1>2, AppendProperties
<1> QED
  BY <1>2, <1>3, <1>4 DEF WriteLine, EndLine

LEMMA Numbers ==
  ASSUME TypeOK
  PROVE  /\ Len(file) \in Nat /\ Len(buffer) \in Nat /\ Len(routed) \in Nat
         /\ position \in Nat /\ written \in Nat /\ Fetched = position + Len(buffer)
         /\ Fetched \in Nat
         /\ \A i \in 1..Len(file) : file[i].line \in Lines /\ file[i].line \in Nat
         /\ \A j \in 1..Len(buffer) : buffer[j].line \in Lines /\ buffer[j].line \in Nat
         /\ \A k \in 1..Len(routed) : routed[k] \in Nat
         /\ Lines \subseteq Nat
<1>1. /\ file \in Seq(Pieces) /\ buffer \in Seq(Pieces) /\ routed \in Seq(Lines)
      /\ position \in Nat /\ written \in Nat
  BY DEF TypeOK, Pieces
<1>2. Lines \subseteq Nat
  BY LogAssumption DEF Lines
<1>3. \A piece \in Pieces : piece.line \in Lines
  BY DEF Pieces
<1> HIDE DEF Pieces
<1>4. /\ \A i \in 1..Len(file) : file[i] \in Pieces
      /\ \A j \in 1..Len(buffer) : buffer[j] \in Pieces
      /\ \A k \in 1..Len(routed) : routed[k] \in Lines
  BY <1>1
<1>5. Len(file) \in Nat /\ Len(buffer) \in Nat /\ Len(routed) \in Nat
  BY <1>1
<1>6. /\ \A i \in 1..Len(file) : file[i].line \in Lines
      /\ \A j \in 1..Len(buffer) : buffer[j].line \in Lines
  BY <1>3, <1>4
<1>7. Fetched = position + Len(buffer) /\ Fetched \in Nat
  BY <1>1, <1>5 DEF Fetched
<1> QED
  BY <1>1, <1>2, <1>4, <1>5, <1>6, <1>7

-----------------------------------------------------------------------------
(* How the steps keep the order.                                            *)

LEMMA AppendOrder ==
  ASSUME TypeOK, BufferOrder, RoutedOrder, WriteLine \/ EndLine
  PROVE  BufferOrder' /\ RoutedOrder'
<1> DEFINE old == 1..Len(file)
           last == Len(file) + 1
<1>1. /\ \A i \in 1..Len(file') : i \in old \/ i = last
      /\ \A i \in old : file'[i] = file[i]
      /\ UNCHANGED <<at, position, buffer, hand, routed>> /\ Fetched' = Fetched
      /\ written' \in Nat /\ written' >= written
      /\ file'[last].part # "tail" => written' = written + 1 /\ file'[last].line = written'
  BY Numbers, AppendEffect DEF Fetched
<1>2. \A i \in old : Unread(i)' => Unread(i)
  BY <1>1, Numbers, AppendEffect DEF Unread
<1>3. HasLine' <=> HasLine
  BY <1>1 DEF HasLine
<1>4. BufferOrder'
  <2>1. \A j \in 1..Len(buffer), i \in 1..Len(file') :
          Unread(i)' => buffer[j].line < file'[i].line
    <3> SUFFICES ASSUME NEW j \in 1..Len(buffer), NEW i \in 1..Len(file'), Unread(i)'
                 PROVE  buffer[j].line < file'[i].line
      OBVIOUS
    <3>1. CASE i \in old
      BY <1>1, <1>2, <3>1 DEF BufferOrder
    <3>2. CASE i = last
      BY <1>1, <3>2, Numbers DEF BufferOrder, Unread
    <3> QED
      BY <1>1, <3>1, <3>2
  <2> QED
    BY <1>1, <2>1, Numbers DEF BufferOrder
<1>5. \A line : Later(line)' <=> Later(line)
  BY <1>1, <1>3 DEF Later
<1>6. written' = written + 1 => Later(written')
  BY Numbers DEF RoutedOrder, Later
<1>7. \A i \in 1..Len(file') : Unread(i)' => Later(file'[i].line)
  <2> SUFFICES ASSUME NEW i \in 1..Len(file'), Unread(i)'
               PROVE  Later(file'[i].line)
    OBVIOUS
  <2>1. CASE i \in old
    BY <1>1, <1>2, <2>1 DEF RoutedOrder
  <2>2. CASE i = last
    BY <1>1, <1>6, <2>2 DEF Unread
  <2> QED
    BY <1>1, <2>1, <2>2
<1>8. RoutedOrder'
  <2>1. /\ \A k \in 1..Len(routed) : routed[k] <= written'
        /\ HasLine => hand.line <= written'
    BY <1>1, Numbers DEF RoutedOrder
  <2> QED
    BY <1>1, <1>3, <1>5, <1>7, <2>1 DEF RoutedOrder
<1> QED
  BY <1>4, <1>8

LEMMA FillOrder ==
  ASSUME TypeOK, FileShape, BufferOrder, RoutedOrder, Fill
  PROVE  BufferOrder' /\ RoutedOrder'
<1>1. /\ Len(buffer') \in Nat /\ Len(buffer') > Len(buffer)
      /\ Fetched' = position + Len(buffer') /\ Fetched' <= Len(file)
      /\ \A i \in 1..Len(buffer) : buffer'[i] = buffer[i]
      /\ \A i \in 1..Len(buffer') : i \in 1..Len(buffer) \/
           /\ i > Len(buffer) /\ buffer'[i] = file[position + i]
           /\ position + i \in Fetched + 1..Len(file) /\ position + i \in 1..Len(file)
      /\ UNCHANGED <<file, written, at, position, hand, routed>>
  <2>1. /\ Len(buffer') \in Len(buffer) + 1..Len(buffer) + Len(file) - Fetched
        /\ UNCHANGED <<file, written, at, position, hand, routed>>
    BY FillEffect DEF Fill
  <2>2. /\ Len(buffer') \in Nat /\ Len(buffer') > Len(buffer)
        /\ Fetched' = position + Len(buffer') /\ Fetched' <= Len(file)
    BY <2>1, Numbers DEF Fetched
  <2>3. \A i \in 1..Len(buffer') : i \in 1..Len(buffer) \/
          /\ i > Len(buffer) /\ i \in Len(buffer) + 1..Len(buffer')
    BY <2>2, Numbers
  <2>4. \A i \in Len(buffer) + 1..Len(buffer') :
          /\ buffer'[i] = file[position + i] /\ position + i \in Fetched + 1..Len(file)
          /\ position + i \in 1..Len(file)
    BY FillEffect, Numbers
  <2> QED
    BY <2>1, <2>2, <2>3, <2>4, FillEffect
<1>2. HasLine' <=> HasLine
  BY <1>1 DEF HasLine
<1>3. \A line : Later(line)' <=> Later(line)
  BY <1>1, <1>2 DEF Later
<1>4. \A i \in 1..Len(file) : Unread(i)' => i > Fetched' /\ i > Fetched /\ Unread(i)
  BY <1>1, Numbers DEF Unread
<1>5. \A i \in 1..Len(buffer') : i > Len(buffer) /\ buffer'[i].part # "tail" =>
        Unread(position + i)
  <2> SUFFICES ASSUME NEW i \in 1..Len(buffer'), i > Len(buffer), buffer'[i].part # "tail"
               PROVE  Unread(position + i)
    OBVIOUS
  <2>1. ~(i \in 1..Len(buffer))
    BY Numbers
  <2>2. buffer'[i] = file[position + i] /\ position + i \in Fetched + 1..Len(file)
    BY <1>1, <2>1
  <2> QED
    BY <2>2, Numbers DEF Unread
<1>6. BufferOrder'
  <2>1. \A j \in 1..Len(buffer') : buffer'[j].line <= written
    BY <1>1 DEF BufferOrder, FileShape
  <2>2. ASSUME NEW j \in 1..Len(buffer'), NEW l \in 1..Len(buffer'), j < l,
               buffer'[l].part # "tail"
        PROVE  buffer'[j].line < buffer'[l].line
    <3>1. CASE l \in 1..Len(buffer)
      <4>1. j \in 1..Len(buffer)
        BY <1>1, <2>2, <3>1, Numbers
      <4> QED
        BY <1>1, <2>2, <3>1, <4>1 DEF BufferOrder
    <3>2. CASE ~(l \in 1..Len(buffer)) /\ j \in 1..Len(buffer)
      BY <1>1, <1>5, <2>2, <3>2 DEF BufferOrder
    <3>3. CASE ~(l \in 1..Len(buffer)) /\ ~(j \in 1..Len(buffer))
      <4>1. /\ position + j \in 1..Len(file) /\ position + l \in 1..Len(file)
            /\ buffer'[j] = file[position + j] /\ buffer'[l] = file[position + l]
        BY <1>1, <3>3
      <4>2. position + j < position + l
        BY <2>2, Numbers
      <4> QED
        BY <2>2, <4>1, <4>2 DEF FileShape
    <3> QED
      BY <3>1, <3>2, <3>3
  <2>3. ASSUME NEW j \in 1..Len(buffer'), NEW i \in 1..Len(file), Unread(i)'
        PROVE  buffer'[j].line < file[i].line
    <3>1. CASE j \in 1..Len(buffer)
      BY <1>1, <1>4, <2>3, <3>1 DEF BufferOrder
    <3>2. CASE ~(j \in 1..Len(buffer))
      <4>1. position + j \in 1..Len(file) /\ position + j < i /\ file[i].part # "tail"
        BY <1>1, <1>4, <2>3, <3>2, Numbers DEF Unread
      <4> QED
        BY <1>1, <3>2, <4>1 DEF FileShape
    <3> QED
      BY <3>1, <3>2
  <2> QED
    BY <1>1, <2>1, <2>2, <2>3 DEF BufferOrder
<1>7. RoutedOrder'
  <2>1. \A j \in 1..Len(buffer') : buffer'[j].part # "tail" => Later(buffer'[j].line)
    BY <1>1, <1>5 DEF RoutedOrder
  <2>2. \A i \in 1..Len(file) : Unread(i)' => Later(file[i].line)
    BY <1>4 DEF RoutedOrder
  <2> QED
    BY <1>1, <1>2, <1>3, <2>1, <2>2 DEF RoutedOrder
<1> QED
  BY <1>6, <1>7

LEMMA ReadOrder ==
  ASSUME TypeOK, BufferOrder, RoutedOrder, ReadLine
  PROVE  BufferOrder' /\ RoutedOrder'
<1>1. PICK n \in 1..2 :
        /\ n <= Len(buffer) /\ Take(n)
        /\ hand'.line = buffer[1].line
        /\ hand'.part = "whole" => buffer[1].part # "tail"
  BY ReadEffect
<1>2. /\ UNCHANGED <<file, written, routed>> /\ ~HasLine
  BY DEF ReadLine, HasLine
<1>3. /\ Len(buffer') = Len(buffer) - n /\ position' = position + n
      /\ \A j \in 1..Len(buffer') : j + n \in 1..Len(buffer) /\ buffer'[j] = buffer[j + n]
      /\ Fetched' = Fetched
  <2>1. n \in 1..Len(buffer)
    BY <1>1, Numbers
  <2>2. /\ Len(buffer') = Len(buffer) - n /\ position' = position + n
        /\ \A j \in 1..Len(buffer) - n : buffer'[j] = buffer[j + n]
    BY <1>1, <2>1, TakeEffect
  <2>3. \A j \in 1..Len(buffer') : j + n \in 1..Len(buffer)
    BY <2>1, <2>2, Numbers
  <2> QED
    BY <2>1, <2>2, <2>3, Numbers DEF Fetched
<1>4. \A i \in 1..Len(file) : Unread(i)' <=> Unread(i)
  BY <1>2, <1>3 DEF Unread
<1>5. BufferOrder'
  <2>1. \A j \in 1..Len(buffer') : buffer'[j].line <= written
    BY <1>3 DEF BufferOrder
  <2>2. \A j, l \in 1..Len(buffer') :
          j < l /\ buffer'[l].part # "tail" => buffer'[j].line < buffer'[l].line
    <3> SUFFICES ASSUME NEW j \in 1..Len(buffer'), NEW l \in 1..Len(buffer'), j < l,
                        buffer'[l].part # "tail"
                 PROVE  buffer'[j].line < buffer'[l].line
      OBVIOUS
    <3>1. j + n < l + n
      BY <1>1
    <3> QED
      BY <1>3, <3>1 DEF BufferOrder
  <2>3. \A j \in 1..Len(buffer'), i \in 1..Len(file) :
          Unread(i) => buffer'[j].line < file[i].line
    BY <1>3 DEF BufferOrder
  <2> QED
    BY <1>2, <1>4, <2>1, <2>2, <2>3 DEF BufferOrder
<1>6. HasLine' => /\ 1 \in 1..Len(buffer) /\ hand'.line = buffer[1].line
                  /\ buffer[1].part # "tail"
  BY <1>1, Numbers DEF HasLine
<1>7. HasLine' => /\ hand'.line \in Lines /\ hand'.line <= written
                  /\ \A k \in 1..Len(routed) : routed[k] < hand'.line
  BY <1>6, Numbers DEF BufferOrder, RoutedOrder, Later
<1>8. \A j \in 1..Len(buffer') : buffer'[j].part # "tail" => Later(buffer[j].line)'
  <2> SUFFICES ASSUME NEW j \in 1..Len(buffer'), buffer'[j].part # "tail"
               PROVE  Later(buffer[j].line)'
    OBVIOUS
  <2>1. /\ j + n \in 1..Len(buffer) /\ 1 < j + n /\ buffer'[j] = buffer[j + n]
    BY <1>1, <1>3
  <2>2. HasLine' => hand'.line < buffer'[j].line
    BY <1>6, <2>1 DEF BufferOrder
  <2>3. \A k \in 1..Len(routed) : routed[k] < buffer'[j].line
    BY <2>1 DEF RoutedOrder, Later
  <2> QED
    BY <1>2, <2>2, <2>3 DEF Later
<1>9. \A i \in 1..Len(file) : Unread(i) => Later(file[i].line)'
  <2> SUFFICES ASSUME NEW i \in 1..Len(file), Unread(i)
               PROVE  Later(file[i].line)'
    OBVIOUS
  <2>1. HasLine' => hand'.line < file[i].line
    BY <1>6 DEF BufferOrder
  <2>2. \A k \in 1..Len(routed) : routed[k] < file[i].line
    BY DEF RoutedOrder, Later
  <2> QED
    BY <1>2, <2>1, <2>2 DEF Later
<1>10. RoutedOrder'
  BY <1>2, <1>4, <1>7, <1>8, <1>9 DEF RoutedOrder
<1> QED
  BY <1>5, <1>10

LEMMA DropOrder ==
  ASSUME TypeOK, FileShape, BufferOrder, RoutedOrder, ReadNothing
  PROVE  BufferOrder' /\ RoutedOrder'
<1>1. /\ UNCHANGED <<file, written, position, routed, hand>> /\ ~HasLine /\ ~HasLine'
      /\ buffer' = <<>> /\ Len(buffer') = 0 /\ Fetched' = position
      /\ Fetched >= Len(file) /\ Len(buffer) \in 0..1
      /\ Len(buffer) = 1 => buffer[1].part = "head"
  BY Numbers DEF ReadNothing, HasLine, Fetched
<1>2. ASSUME NEW i \in 1..Len(file), Unread(i)'
      PROVE  \A k \in 1..Len(routed) : routed[k] < file[i].line
  <2>1. CASE Unread(i)
    BY <2>1 DEF RoutedOrder, Later
  <2>2. CASE ~Unread(i)
    <3>4. file # <<>> /\ file[i].part # "tail" /\ (i > position \/ position > Len(file))
      BY <1>1, <1>2 DEF Unread
    <3>5. i <= Fetched /\ Fetched <= Len(file)
      BY <2>2, <3>4, Numbers DEF Unread
    <3>6. Fetched = position + Len(buffer)
      BY Numbers
    <3>1. i = Len(file) /\ Len(buffer) = 1 /\ file # <<>>
      BY <1>1, <3>4, <3>5, <3>6, Numbers
    <3>2. file[i].line = written /\ 1 \in 1..Len(buffer)
      BY <3>1 DEF FileShape
    <3>3. /\ buffer[1].line <= written /\ buffer[1].line \in Nat
          /\ \A k \in 1..Len(routed) : routed[k] < buffer[1].line
      BY <1>1, <3>1, <3>2, Numbers DEF BufferOrder, RoutedOrder, Later
    <3> QED
      BY <3>2, <3>3, Numbers
  <2> QED
    BY <2>1, <2>2
<1>3. BufferOrder'
  BY <1>1 DEF BufferOrder
<1>4. RoutedOrder'
  BY <1>1, <1>2 DEF RoutedOrder, Later
<1> QED
  BY <1>3, <1>4

LEMMA RouteOrder ==
  ASSUME TypeOK, BufferOrder, RoutedOrder, Route
  PROVE  BufferOrder' /\ RoutedOrder'
<1>1. ~HasLine' /\ UNCHANGED <<file, position, buffer, written>> /\ Fetched' = Fetched
  BY DEF Route, HasLine, Fetched
<1>2. \A i \in 1..Len(file) : Unread(i)' <=> Unread(i)
  BY <1>1 DEF Unread
<1>3. BufferOrder'
  BY <1>1, <1>2 DEF BufferOrder
<1>4. CASE ~HasLine
  <2>1. routed' = routed
    BY <1>4 DEF Route, HasLine
  <2> QED
    BY <1>1, <1>2, <1>3, <1>4, <2>1 DEF RoutedOrder, Later
<1>5. CASE HasLine
  <2>1. /\ routed' = Append(routed, hand.line) /\ routed \in Seq(Lines) /\ hand.line \in Lines
        /\ hand.line \in Nat
    BY <1>5, Numbers DEF Route, HasLine, RoutedOrder, TypeOK
  <2>2. Len(routed') = Len(routed) + 1
    BY <2>1, AppendProperties
  <2>3. \A k \in 1..Len(routed') :
          \/ k \in 1..Len(routed) /\ routed'[k] = routed[k]
          \/ k = Len(routed) + 1 /\ routed'[k] = hand.line
    BY <2>1, <2>2, Numbers, AppendProperties
  <2>4. /\ \A k \in 1..Len(routed) : routed[k] < hand.line
        /\ hand.line <= written
    BY <1>5 DEF RoutedOrder
  <2>5. \A line \in Nat : Later(line) => Later(line)'
    BY <1>1, <1>5, <2>3 DEF Later
  <2>6. \A k \in 1..Len(routed') : routed'[k] <= written
    BY <2>3, <2>4 DEF RoutedOrder
  <2>7. \A k, l \in 1..Len(routed') : k < l => routed'[k] < routed'[l]
    <3> SUFFICES ASSUME NEW k \in 1..Len(routed'), NEW l \in 1..Len(routed'), k < l
                 PROVE  routed'[k] < routed'[l]
      OBVIOUS
    <3>1. k \in 1..Len(routed) /\ routed'[k] = routed[k]
      BY <2>2, <2>3, Numbers
    <3> QED
      BY <2>3, <2>4, <3>1 DEF RoutedOrder
  <2>8. /\ \A j \in 1..Len(buffer) : buffer[j].part # "tail" => Later(buffer[j].line)'
        /\ \A i \in 1..Len(file) : Unread(i) => Later(file[i].line)'
    BY <1>1, <2>5, Numbers DEF RoutedOrder
  <2> QED
    BY <1>1, <1>2, <1>3, <2>6, <2>7, <2>8 DEF RoutedOrder
<1> QED
  BY <1>4, <1>5

LEMMA OrderInductive ==
  ASSUME TypeOK, FileShape, Drained, BufferOrder, RoutedOrder, [Next]_vars
  PROVE  BufferOrder' /\ RoutedOrder'
<1>1. CASE Truncate
  <2>1. /\ Len(file') = 0 /\ UNCHANGED <<at, position, buffer, hand, routed, written>>
    BY <1>1 DEF Truncate
  <2> QED
    BY <2>1 DEF BufferOrder, RoutedOrder, Later, HasLine
<1>2. CASE Open \/ Stat
  <2>1. /\ UNCHANGED <<file, routed, written, buffer>> /\ ~HasLine' /\ ~HasLine
        /\ buffer = <<>> /\ Len(buffer) = 0
    BY <1>2 DEF Open, Stat, HasLine, NewFile, Drained
  <2>2. \A i \in 1..Len(file) : Unread(i)' => Unread(i)
    BY <1>2, <2>1, Numbers DEF Open, Stat, Unread, Fetched
  <2> QED
    BY <2>1, <2>2 DEF BufferOrder, RoutedOrder, Later
<1>3. CASE Create \/ Send \/ ConnectOrLose \/ ServerReads \/ UNCHANGED vars
  <2>1. /\ UNCHANGED <<file, position, buffer, hand, routed, written>> /\ Fetched' = Fetched
        /\ (HasLine' <=> HasLine)
    BY <1>3 DEF Create, Send, ConnectOrLose, ServerReads, HasLine, Fetched
  <2>2. \A i \in 1..Len(file) : Unread(i)' <=> Unread(i)
    BY <2>1 DEF Unread
  <2> QED
    BY <2>1, <2>2 DEF BufferOrder, RoutedOrder, Later
<1> QED
  BY <1>1, <1>2, <1>3, AppendOrder, FillOrder, ReadOrder, DropOrder, RouteOrder
  DEF Next, Assistant, Monitor

\* No line is routed twice and none before an earlier one, whatever is truncated
\* when, and however much of the file read_line fetches at a time.
THEOREM RoutedInOrder == Spec => []InOrder
<1>1. Init => BufferOrder /\ RoutedOrder
  BY DEF Init, BufferOrder, RoutedOrder, HasLine
<1>2. RoutedOrder => InOrder
  BY DEF RoutedOrder, InOrder
<1> QED
  BY <1>1, <1>2, OrderInductive, ShapeAlways, DrainedAlways, PTL DEF Spec, LocalSpec

-----------------------------------------------------------------------------
(* How the steps keep count of what was read.                               *)

LEMMA ReadLoss ==
  ASSUME TypeOK, FileShape, LossInv, ~unnoticed, ReadLine
  PROVE  LossInv'
<1>1. PICK n \in 1..2 :
        /\ n <= Len(buffer) /\ Take(n)
        /\ n = 1 => hand' = buffer[1]
        /\ n = 2 => buffer[1].part = "head"
        /\ n = 2 /\ Matching => hand'.part = "whole"
        /\ hand'.line = buffer[1].line
  BY ReadEffect
<1>2. n \in 1..Len(buffer)
  BY <1>1, Numbers
<1>3. /\ Len(buffer') = Len(buffer) - n /\ position' = position + n
      /\ \A i \in 1..Len(buffer) - n : buffer'[i] = buffer[i + n]
      /\ torn \subseteq torn'
      /\ hand'.part # "whole" => \A i \in 1..n : buffer[i].line \in torn'
  BY <1>1, <1>2, TakeEffect
<1>4. /\ UNCHANGED <<file, routed, passed, unnoticed>> /\ ~HasLine /\ at' = "route"
  BY DEF ReadLine, HasLine
<1>5. Fetched' = Fetched /\ Fetched <= Len(file)
  BY <1>2, <1>3, Numbers DEF Fetched, LossInv
<1>6. \A j \in 1..Len(buffer) : buffer[j] = file[position + j] /\ position + j \in 1..Len(file)
  BY <1>5, Numbers DEF LossInv
<1>7. \A j \in 1..Len(buffer') : buffer'[j] = file[position' + j]
  <2> SUFFICES ASSUME NEW j \in 1..Len(buffer')
               PROVE  buffer'[j] = file[position' + j]
    OBVIOUS
  <2>1. j + n \in 1..Len(buffer) /\ position + (j + n) = position' + j
    BY <1>2, <1>3, Numbers
  <2> QED
    BY <1>3, <1>6, <2>1
<1>8. ASSUME NEW i \in 1..Len(file), i <= position'
      PROVE  Accounted(i)'
  <2>1. CASE i <= position
    BY <1>3, <1>4, <2>1 DEF LossInv, Accounted
  <2>2. CASE i = position + 1
    <3>1. 1 \in 1..Len(buffer) /\ file[i] = buffer[1]
      BY <1>2, <1>6, <2>2, Numbers
    <3>2. CASE hand'.part = "whole"
      BY <1>1, <1>4, <3>1, <3>2 DEF Accounted, HasLine
    <3>3. CASE hand'.part # "whole"
      BY <1>1, <1>3, <1>4, <3>1, <3>3 DEF Accounted
    <3> QED
      BY <3>2, <3>3
  <2>3. CASE n = 2 /\ i = position + 2
    <3>1. /\ 1 \in 1..Len(buffer) /\ 2 \in 1..Len(buffer)
          /\ file[position + 1] = buffer[1] /\ file[i] = buffer[2]
          /\ position + 1 \in 1..Len(file) /\ position + 1 < Len(file)
      BY <1>1, <1>6, <2>3, Numbers
    <3>2. file[(position + 1) + 1].part = "tail" /\ file[(position + 1) + 1].line = buffer[1].line
      BY <1>1, <2>3, <3>1 DEF FileShape
    <3>3. Matching
      BY <2>3, <3>1, <3>2, Numbers DEF Matching
    <3> QED
      BY <1>1, <1>4, <2>3, <3>1, <3>3 DEF Accounted, HasLine, Matching
  <2> QED
    BY <1>1, <1>3, <1>8, <2>1, <2>2, <2>3, Numbers
<1> QED
  BY <1>4, <1>5, <1>7, <1>8 DEF LossInv

LEMMA LossInductive ==
  ASSUME TypeOK, FileShape, Drained, LossInv, [Next]_vars
  PROVE  LossInv'
<1>1. CASE WriteLine \/ EndLine
  <2>1. /\ Len(file') = Len(file) + 1
        /\ \A i \in 1..Len(file) : file'[i] = file[i]
        /\ UNCHANGED <<at, position, buffer, hand, routed, passed, torn, unnoticed>>
    BY <1>1, AppendEffect
  <2> SUFFICES ASSUME ~unnoticed
               PROVE  LossInv'
    BY <2>1 DEF LossInv
  <2>2. /\ Fetched <= Len(file) /\ Fetched' = Fetched
        /\ \A j \in 1..Len(buffer) : buffer[j] = file[position + j]
        /\ \A i \in 1..Len(file) : i <= position => Accounted(i)
    BY <2>1 DEF LossInv, Fetched
  <2>3. \A j \in 1..Len(buffer) : position + j \in 1..Len(file)
    BY <2>2, Numbers
  <2>4. \A i \in 1..Len(file') : i <= position => i \in 1..Len(file)
    BY <2>1, <2>2, Numbers
  <2>5. \A i \in 1..Len(file) : Accounted(i) => Accounted(i)'
    BY <2>1 DEF Accounted, HasLine
  <2>6. Fetched' <= Len(file')
    BY <2>1, <2>2, Numbers
  <2> QED
    BY <2>1, <2>2, <2>3, <2>4, <2>5, <2>6 DEF LossInv
<1>2. CASE Truncate
  <2>3. file' = <<>> /\ UNCHANGED <<position, buffer>> /\ (~unnoticed' => ~(Fetched > 0))
    BY <1>2 DEF Truncate
  <2>1. /\ Len(file') = 0 /\ UNCHANGED <<position, buffer>> /\ (~unnoticed' => Fetched = 0)
    BY <2>3, Numbers
  <2>2. Fetched' = Fetched /\ (Fetched = 0 => Len(buffer) = 0)
    BY <2>1, Numbers DEF Fetched
  <2> QED
    BY <2>1, <2>2 DEF LossInv
<1>3. CASE Open \/ Stat
  <2>1. /\ UNCHANGED <<file, routed, buffer, torn>> /\ ~HasLine /\ Len(buffer) = 0
        /\ Fetched = position /\ Fetched' = position' /\ position' \in Nat
    BY <1>3, Numbers DEF Open, Stat, HasLine, Drained, Fetched
  <2>2. CASE Open
    BY <2>1, <2>2, Numbers DEF Open, LossInv, Accounted
  <2>3. CASE Stat
    <3>1. CASE position' = 0
      BY <2>1, <3>1, Numbers DEF LossInv
    <3>2. CASE UNCHANGED <<position, passed, unnoticed>>
      BY <2>1, <3>2 DEF LossInv, Accounted
    <3> QED
      BY <2>3, <3>1, <3>2 DEF Stat
  <2> QED
    BY <1>3, <2>2, <2>3
<1>4. CASE Fill
  <2> SUFFICES ASSUME ~unnoticed
               PROVE  LossInv'
    BY <1>4 DEF LossInv, Fill
  <2>1. /\ UNCHANGED <<file, position, hand, routed, passed, torn, unnoticed>>
        /\ (HasLine' <=> HasLine)
    BY <1>4 DEF Fill, HasLine
  <2>2. Fetched' <= Len(file)
    <3>1. Len(buffer') \in Len(buffer) + 1..Len(buffer) + Len(file) - Fetched
      BY <1>4, FillEffect
    <3> QED
      BY <2>1, <3>1, Numbers DEF Fetched
  <2>3. \A j \in 1..Len(buffer') : buffer'[j] = file[position + j]
    <3> SUFFICES ASSUME NEW j \in 1..Len(buffer')
                 PROVE  buffer'[j] = file[position + j]
      OBVIOUS
    <3>1. CASE j \in 1..Len(buffer)
      BY <1>4, <3>1, FillEffect DEF LossInv
    <3>2. CASE ~(j \in 1..Len(buffer))
      <4>1. j \in Len(buffer) + 1..Len(buffer')
        BY <3>2, Numbers
      <4> QED
        BY <1>4, <4>1, FillEffect
    <3> QED
      BY <3>1, <3>2
  <2>4. \A i \in 1..Len(file) : Accounted(i) <=> Accounted(i)'
    BY <2>1 DEF Accounted, HasLine
  <2> QED
    BY <2>1, <2>2, <2>3, <2>4 DEF LossInv
<1>5. CASE ReadLine
  <2>1. unnoticed' = unnoticed
    BY <1>5 DEF ReadLine
  <2> QED
    BY <1>5, <2>1, ReadLoss DEF LossInv
<1>6. CASE ReadNothing
  <2>1. /\ UNCHANGED <<file, position, routed, passed, torn, unnoticed>> /\ ~HasLine
        /\ Len(buffer') = 0 /\ Fetched' = position /\ position <= Fetched
    BY <1>6, Numbers DEF ReadNothing, HasLine, Fetched
  <2> QED
    BY <2>1, Numbers DEF LossInv, Accounted
<1>7. CASE Route
  <2>1. UNCHANGED <<file, position, buffer, passed, torn, unnoticed>> /\ Fetched' = Fetched
    BY <1>7 DEF Route, Fetched
  <2>2. ASSUME NEW i \in 1..Len(file), Accounted(i)
        PROVE  Accounted(i)'
    <3>1. CASE ~HasLine
      <4>1. routed' = routed
        BY <1>7, <3>1 DEF Route, HasLine
      <4> QED
        BY <2>1, <2>2, <3>1, <4>1 DEF Accounted
    <3>2. CASE HasLine
      <4>1. routed' = Append(routed, hand.line) /\ routed \in Seq(Lines)
        BY <1>7, <3>2 DEF Route, HasLine, TypeOK
      <4>2. /\ Len(routed') = Len(routed) + 1 /\ routed'[Len(routed) + 1] = hand.line
            /\ \A k \in 1..Len(routed) : routed'[k] = routed[k]
        BY <4>1, AppendProperties
      <4>3. /\ Len(routed) + 1 \in 1..Len(routed')
            /\ \A k \in 1..Len(routed) : k \in 1..Len(routed')
        BY <4>2, Numbers
      <4> QED
        BY <2>1, <2>2, <4>2, <4>3 DEF Accounted
    <3> QED
      BY <3>1, <3>2
  <2> QED
    BY <2>1, <2>2 DEF LossInv
<1>8. CASE Create \/ Send \/ ConnectOrLose \/ ServerReads \/ UNCHANGED vars
  <2>1. /\ UNCHANGED <<file, position, buffer, hand, routed, passed, torn, unnoticed>>
        /\ Fetched' = Fetched /\ (HasLine' <=> HasLine)
    BY <1>8 DEF Create, Send, ConnectOrLose, ServerReads, HasLine, Fetched
  <2> QED
    BY <2>1 DEF LossInv, Accounted
<1> QED
  BY <1>1, <1>2, <1>3, <1>4, <1>5, <1>6, <1>7, <1>8 DEF Next, Assistant, Monitor

\* A monitor at the end of the file has routed every line of it that was neither there
\* before it was opened nor read in two parts, unless a truncation escaped it.
THEOREM NoneLost == Spec => []NothingLost
<1>1. Init => LossInv
  BY DEF Init, LossInv, Fetched
<1>2. TypeOK /\ LossInv => NothingLost
  <2> SUFFICES ASSUME TypeOK, LossInv, at = "stat", position >= Len(file), ~unnoticed,
                      NEW i \in 1..Len(file)
               PROVE  file[i].part # "head" /\ file[i].line \notin passed \cup torn =>
                        \E k \in 1..Len(routed) : routed[k] = file[i].line
    BY DEF NothingLost
  <2>1. i <= position
    BY Numbers
  <2> QED
    BY <2>1 DEF LossInv, Accounted, HasLine
<1> QED
  BY <1>1, <1>2, LossInductive, ShapeAlways, DrainedAlways, PTL DEF Spec, LocalSpec
=============================================================================
