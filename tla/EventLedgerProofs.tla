------------------------- MODULE EventLedgerProofs -------------------------
(***************************************************************************)
(* Proofs about EventLedger: type correctness, that a promised event is    *)
(* never lost (PromiseKept), that handed-over events stay visible          *)
(* (HandedOverVisible), and that readers see DurableLog (ReadersSeeALog);  *)
(* and about the lock that gives it the path to itself, WriterLock.        *)
(***************************************************************************)
EXTENDS EventLedger, WriterLock, FiniteSetTheorems, SequenceTheorems, TLAPS

(* Every end is preceded by its own head, and a head that is not followed  *)
(* by its end belongs to a long line.                                      *)
Shape(f) ==
  /\ \A j \in 1..Len(f) : IsEnd(f, j) => j > 1 /\ f[j - 1] = HeadOf(f[j].ev)
  /\ \A j \in 1..(Len(f) - 1) :
       IsHead(f, j) /\ IsHead(f, j + 1) => f[j].ev \in LongEvent

(* A writer only appends behind a newline or behind a long line's fragment.*)
TailOK(f) ==
  Len(f) > 0 => IsEnd(f, Len(f)) \/ f[Len(f)].ev \in LongEvent

EndWithin(f, e, n) == \E j \in 1..n : f[j] = EndOf(e)

ControlInv ==
  /\ buf # <<>> => wstate = "open"
  /\ pc = "fsync" => wstate = "open" /\ buf = <<>>
  /\ pc \in {"check", "write", "drain"} => todo # <<>> /\ op \in {"append", "append_many"}
  /\ wstate = "closed" => op = "none"
  /\ op = "none" <=> pc = "idle"
  /\ op = "none" => done = {}

TypeControl == TypeOK /\ ControlInv

ShapeInv ==
  /\ Shape(stream)
  /\ wstate = "open" => TailOK(stream)

(* Every line this session acknowledged or is writing has its end in what  *)
(* the file will hold, every promised event in its synced part, and every  *)
(* event handed over in the file.                                          *)
EndsInv ==
  /\ wstate = "open" => \A e \in acked \cup done : EndWithin(stream, e, Len(stream))
  /\ \A e \in promised : EndWithin(file, e, synced)
  /\ \A e \in handed : EndWithin(file, e, Len(file))

IInv == TypeControl /\ ShapeInv /\ EndsInv

-----------------------------------------------------------------------------
(* Type correctness, together with what the program counter says about the *)
(* running call.                                                           *)

LEMMA NewlinesType ==
  ASSUME NEW f \in Seq(Piece)
  PROVE  Newlines(f) \in Nat
<1>1. IsFiniteSet(1..Len(f))
  BY LenProperties, FS_Interval
<1>2. IsFiniteSet({j \in 1..Len(f) : IsEnd(f, j)})
  BY <1>1, FS_Subset
<1>. QED  BY <1>2, FS_CardinalityType DEF Newlines

LEMMA LineType ==
  ASSUME NEW e \in Event
  PROVE  /\ HeadOf(e) \in Piece /\ EndOf(e) \in Piece
         /\ Line(e) \in Seq(Piece) /\ Len(Line(e)) = 2
         /\ Line(e)[1] = HeadOf(e) /\ Line(e)[2] = EndOf(e)
BY DEF HeadOf, EndOf, Line, Piece

(* What a call leaves behind when it ends by an exception, ...             *)
LEMMA RaiseTypes ==
  ASSUME TypeControl, Raise, op # "none"
  PROVE  /\ op' \in {"none", op} /\ pc' \in {"idle", "fhclose"}
         /\ op' = "none" <=> pc' = "idle"
         /\ op' = "none" => done' = {}
         /\ todo' \in Seq(Event) /\ done' \subseteq Event
         /\ acked' \subseteq Event /\ handed' \subseteq Event /\ promised' \subseteq Event
<1>1. CASE op = "close"
  BY <1>1 DEF Raise, TypeControl, TypeOK, ControlInv, ghosts
<1>2. CASE op # "close"
  BY <1>2 DEF Raise, Idle, TypeControl, TypeOK, ControlInv, ghosts
<1>. QED  BY <1>1, <1>2

(* ... when a write succeeds, ...                                          *)
LEMMA WrittenTypes ==
  ASSUME TypeControl, NEW e, e = Head(todo), pc = "write", Written(e)
  PROVE  /\ e \in Event
         /\ lineNo' \in Nat /\ offset' \in Nat /\ pending' \in Nat
         /\ op' \in {"none", op} /\ pc' \in {"idle", "check", "flush"}
         /\ op' = "none" <=> pc' = "idle"
         /\ op' = "none" => done' = {}
         /\ pc' = "check" => todo' # <<>> /\ op' = op
         /\ todo' \in Seq(Event) /\ done' \subseteq Event
         /\ acked' \subseteq Event /\ handed' \subseteq Event /\ promised' \subseteq Event
         /\ acked' \cup done' \subseteq acked \cup done \cup {e}
<1>1. e \in Event /\ Tail(todo) \in Seq(Event)
  BY HeadTailProperties DEF TypeControl, TypeOK, ControlInv
<1>2. lineNo' \in Nat /\ offset' \in Nat /\ pending' \in Nat
  BY DEF Written, TypeControl, TypeOK
<1>3. CASE op = "append" /\ ~FsyncDue(pending + 1)
  BY <1>1, <1>2, <1>3 DEF Written, Idle, TypeControl, TypeOK, ControlInv
<1>4. CASE ~(op = "append" /\ ~FsyncDue(pending + 1))
  BY <1>1, <1>2, <1>4 DEF Written, TypeControl, TypeOK, ControlInv
<1>. QED  BY <1>3, <1>4

(* ... and when its flush or its fsync is done.                            *)
LEMMA ReturnTypes ==
  ASSUME TypeControl, Return
  PROVE  /\ op' = "none" /\ pc' = "idle" /\ done' = {}
         /\ todo' \in Seq(Event) /\ acked' \subseteq Event
BY DEF Return, Idle, TypeControl, TypeOK

LEMMA InitTypeControl == Init => TypeControl
BY ModeAssumption DEF Init, TypeControl, TypeOK, ControlInv

LEMMA NextTypeControl == TypeControl /\ [Next]_vars => TypeControl'
<1> SUFFICES ASSUME TypeControl, [Next]_vars PROVE TypeControl'
  OBVIOUS
<1> USE DEF TypeControl
<1>1. ASSUME NEW m \in Modes, NEW t \in BOOLEAN, Open(m, t)  PROVE TypeControl'
  <2>1. PICK n \in 0..Len(file) :
          /\ file' = SubSeq(file, 1, n)
          /\ synced' = IF n = Len(file) THEN synced ELSE n
          /\ base' = n /\ lineNo' = Newlines(file') /\ offset' = n
    BY <1>1 DEF Open
  <2>2. file' \in Seq(Piece) /\ Len(file') = n
    BY <2>1, SubSeqProperties, LenProperties, ElementOfSeq DEF TypeOK
  <2>3. Newlines(file') \in Nat
    BY <2>2, NewlinesType
  <2>. QED  BY <1>1, <2>1, <2>2, <2>3, ModeAssumption DEF Open, TypeOK, ControlInv, control
<1>23. CASE RepairFails
  <2>1. PICK n \in 0..Len(file) :
          /\ file' = SubSeq(file, 1, n)
          /\ synced' = IF synced <= n THEN synced ELSE n
    BY <1>23 DEF RepairFails
  <2>2. file' \in Seq(Piece) /\ Len(file') = n
    BY <2>1, SubSeqProperties, LenProperties, ElementOfSeq DEF TypeOK
  <2>. QED  BY <1>23, <2>1, <2>2 DEF RepairFails, TypeOK, ControlInv, writer, control, ghosts
<1>2. ASSUME NEW o \in {"append", "append_many", "flush", "sync", "verify", "close"},
             NEW at \in {"check", "flush"},
             NEW es \in Seq(Event),
             at = "check" => es # <<>> /\ o \in {"append", "append_many"},
             Call(o, at, es)
      PROVE  TypeControl'
  BY <1>2 DEF Call, TypeOK, ControlInv, disk, writer, ghosts
<1>3. CASE CheckOrder
  <2>1. Head(todo) \in Event
    BY <1>3, HeadTailProperties DEF CheckOrder, TypeOK, ControlInv
  <2>2. CASE Late(Head(todo)) /\ mode.strict
    BY <1>3, <2>2, RaiseTypes DEF CheckOrder, TypeOK, ControlInv, disk
  <2>3. CASE ~(Late(Head(todo)) /\ mode.strict)
    <3>1. seen' \in [Stream -> Int]
      BY <1>3, <2>1, <2>3, EventAssumption DEF CheckOrder, TypeOK
    <3>. QED  BY <1>3, <2>3, <3>1 DEF CheckOrder, TypeOK, ControlInv, disk, ghosts
  <2>. QED  BY <2>2, <2>3
<1>5. CASE WriteBuffered
  <2>1. Head(todo) \in Event
    BY <1>5, HeadTailProperties DEF WriteBuffered, TypeOK, ControlInv
  <2>2. buf' \in Seq(Piece)
    BY <1>5, <2>1, LineType, ConcatProperties DEF WriteBuffered, TypeOK
  <2>. QED  BY <1>5, <2>1, <2>2, WrittenTypes
            DEF WriteBuffered, TypeOK, ControlInv, disk
<1>6. CASE WriteNeedsDrain
  BY <1>6 DEF WriteNeedsDrain, TypeOK, ControlInv, disk, writer, ghosts
<1>7. CASE WriteDirect
  <2>1. Head(todo) \in Event
    BY <1>7, HeadTailProperties DEF WriteDirect, TypeOK, ControlInv
  <2>2. /\ file' \in Seq(Piece) /\ buf' \in Seq(Piece)
        /\ Len(file') >= Len(file)
    <3>1. CASE file' = file \o Line(Head(todo)) /\ buf' = buf
      BY <2>1, <3>1, LineType, ConcatProperties, LenProperties DEF TypeOK
    <3>2. CASE file' = Append(file, HeadOf(Head(todo))) /\ buf' = <<EndOf(Head(todo))>>
      BY <2>1, <3>2, LineType, AppendProperties, LenProperties DEF TypeOK
    <3>. QED  BY <1>7, <3>1, <3>2 DEF WriteDirect
  <2>. QED  BY <1>7, <2>1, <2>2, WrittenTypes DEF WriteDirect, TypeOK, ControlInv
<1>8. CASE WriteDirectFails
  <2>1. Head(todo) \in Event
    BY <1>8, HeadTailProperties DEF WriteDirectFails, TypeOK, ControlInv
  <2>2. file' \in Seq(Piece) /\ Len(file') >= Len(file)
    <3>1. CASE file' = file
      BY <3>1, LenProperties DEF TypeOK
    <3>2. CASE file' = Append(file, HeadOf(Head(todo)))
      BY <2>1, <3>2, LineType, AppendProperties, LenProperties DEF TypeOK
    <3>. QED  BY <1>8, <3>1, <3>2 DEF WriteDirectFails
  <2>. QED  BY <1>8, <2>2, RaiseTypes DEF WriteDirectFails, TypeOK, ControlInv, writer
<1>9. CASE UseAfterWedge
  BY <1>9, RaiseTypes DEF UseAfterWedge, TypeOK, ControlInv, disk, writer
<1>10. CASE RawWrite
  <2>1. PICK n \in 1..Len(buf) :
          /\ file' = file \o SubSeq(buf, 1, n)
          /\ buf' = SubSeq(buf, n + 1, Len(buf))
    BY <1>10 DEF RawWrite
  <2>2. /\ SubSeq(buf, 1, n) \in Seq(Piece) /\ Len(SubSeq(buf, 1, n)) = n
        /\ SubSeq(buf, n + 1, Len(buf)) \in Seq(Piece)
    BY SubSeqProperties, ElementOfSeq, LenProperties DEF TypeOK
  <2>3. /\ file' \in Seq(Piece) /\ buf' \in Seq(Piece) /\ Len(file') >= Len(file)
    BY <2>1, <2>2, ConcatProperties, LenProperties DEF TypeOK
  <2>. QED  BY <1>10, <2>3 DEF RawWrite, Draining, TypeOK, ControlInv, writer, ghosts
<1>11. CASE RawWriteFails
  BY <1>11, RaiseTypes DEF RawWriteFails, Draining, TypeOK, ControlInv, disk, writer
<1>12. CASE Flushed
  <2>1. handed' \subseteq Event /\ promised' \subseteq Event
    BY <1>12 DEF Flushed, HandOver, TypeOK
  <2>2. CASE UNCHANGED <<op, todo, done, acked>> /\ pc' \in {"fsync", "fhclose"}
    BY <1>12, <2>1, <2>2 DEF Flushed, TypeOK, ControlInv, disk, writer
  <2>3. CASE Return
    BY <1>12, <2>1, <2>3, ReturnTypes DEF Flushed, TypeOK, ControlInv, disk, writer
  <2>. QED  BY <1>12, <2>2, <2>3 DEF Flushed
<1>13. CASE Fsync
  <2>1. handed' \subseteq Event /\ promised' \subseteq Event
    BY <1>13 DEF Fsync, HandOver, TypeOK
  <2>2. synced' \in 0..Len(file)
    BY <1>13, LenProperties DEF Fsync, TypeOK
  <2>3. CASE UNCHANGED <<op, todo, done, acked>> /\ pc' = "fhclose"
    BY <1>13, <2>1, <2>2, <2>3 DEF Fsync, TypeOK, ControlInv
  <2>4. CASE Return
    BY <1>13, <2>1, <2>2, <2>4, ReturnTypes DEF Fsync, TypeOK, ControlInv
  <2>. QED  BY <1>13, <2>3, <2>4 DEF Fsync
<1>14. CASE FsyncFails
  BY <1>14, RaiseTypes DEF FsyncFails, TypeOK, ControlInv, disk, writer
<1>15. CASE CloseFile
  BY <1>15 DEF CloseFile, Idle, TypeOK, ControlInv, disk, writer, ghosts
<1>16. CASE CloseFileFails
  BY <1>16 DEF CloseFileFails, Idle, TypeOK, ControlInv, disk, writer, ghosts
<1>17. CASE Kill
  BY <1>17 DEF Kill, Idle, TypeOK, ControlInv, disk, writer, ghosts
<1>18. CASE PowerLoss
  <2>1. PICK n \in synced..Len(file) : file' = SubSeq(file, 1, n) /\ synced' = n
    BY <1>18 DEF PowerLoss
  <2>2. file' \in Seq(Piece) /\ Len(file') = n /\ n \in Nat
    BY <2>1, SubSeqProperties, LenProperties, ElementOfSeq DEF TypeOK
  <2>. QED  BY <1>18, <2>1, <2>2 DEF PowerLoss, Idle, TypeOK, ControlInv, writer
<1>19. CASE UNCHANGED vars
  BY <1>19 DEF vars, TypeOK, ControlInv
<1>20. CASE \E e \in Event : AppendEvent(e)
  <2>1. ASSUME NEW e \in Event  PROVE <<e>> \in Seq(Event) /\ <<e>> # <<>>
    OBVIOUS
  <2>. QED  BY <1>2, <1>20, <2>1 DEF AppendEvent
<1>21. CASE \E es \in Batches : AppendMany(es)
  BY <1>2, <1>21, EventAssumption DEF AppendMany
<1>22. CASE FlushCall \/ Sync \/ Verify \/ Close
  <2>1. <<>> \in Seq(Event)
    OBVIOUS
  <2>2. CASE FlushCall
    BY <1>2, <2>1, <2>2 DEF FlushCall
  <2>3. CASE Sync
    BY <1>2, <2>1, <2>3 DEF Sync
  <2>4. CASE Verify
    BY <1>2, <2>1, <2>4 DEF Verify
  <2>5. CASE Close
    BY <1>2, <2>1, <2>5 DEF Close
  <2>. QED  BY <1>22, <2>2, <2>3, <2>4, <2>5
<1>. QED
  BY <1>1, <1>3, <1>5, <1>6, <1>7, <1>8, <1>9, <1>10, <1>11, <1>12, <1>13, <1>14,
     <1>15, <1>16, <1>17, <1>18, <1>19, <1>20, <1>21, <1>22, <1>23 DEF Next

(* Every variable keeps its type: the file and the buffer hold pieces of   *)
(* event lines, and no call ever loses track of the events it was given.   *)
THEOREM TypeCorrect == Spec => []TypeOK
<1>1. TypeControl => TypeOK
  BY DEF TypeControl
<1>. QED  BY <1>1, InitTypeControl, NextTypeControl, PTL DEF Spec

-----------------------------------------------------------------------------
(* How the shape of a file survives what is done to it.                    *)

LEMMA PieceConcat ==
  ASSUME NEW s \in Seq(Piece), NEW t \in Seq(Piece)
  PROVE  /\ s \o t \in Seq(Piece)
         /\ Len(s \o t) = Len(s) + Len(t)
         /\ Len(s) \in Nat /\ Len(t) \in Nat
         /\ \A i \in 1..(Len(s) + Len(t)) :
               (s \o t)[i] = IF i <= Len(s) THEN s[i] ELSE t[i - Len(s)]
BY ConcatProperties, LenProperties

LEMMA PieceConcatAssoc ==
  ASSUME NEW s \in Seq(Piece), NEW t \in Seq(Piece), NEW u \in Seq(Piece)
  PROVE  (s \o t) \o u = s \o (t \o u)
<1> DEFINE l == (s \o t) \o u
           r == s \o (t \o u)
<1>1. s \o t \in Seq(Piece) /\ t \o u \in Seq(Piece)
  BY PieceConcat
<1>2. /\ l \in Seq(Piece) /\ r \in Seq(Piece)
      /\ Len(l) = Len(s) + Len(t) + Len(u) /\ Len(r) = Len(l)
      /\ Len(s) \in Nat /\ Len(t) \in Nat /\ Len(u) \in Nat
  BY <1>1, PieceConcat
<1>3. ASSUME NEW i \in 1..Len(l)  PROVE l[i] = r[i]
  <2>1. CASE i <= Len(s)
    <3>1. l[i] = s[i]
      BY <1>1, <1>2, <2>1, PieceConcat
    <3>2. r[i] = s[i]
      BY <1>1, <1>2, <2>1, PieceConcat
    <3>. QED  BY <3>1, <3>2
  <2>2. CASE i > Len(s)
    <3>1. l[i] = IF i - Len(s) <= Len(t) THEN t[i - Len(s)] ELSE u[i - Len(s) - Len(t)]
      BY <1>1, <1>2, <2>2, PieceConcat
    <3>2. r[i] = IF i - Len(s) <= Len(t) THEN t[i - Len(s)] ELSE u[i - Len(s) - Len(t)]
      BY <1>1, <1>2, <2>2, PieceConcat
    <3>. QED  BY <3>1, <3>2
  <2>. QED  BY <1>2, <2>1, <2>2
<1> HIDE DEF l, r
<1>4. l = r
  BY <1>2, <1>3, SeqEqual
<1>. QED  BY <1>4 DEF l, r

(* Any beginning of a well-shaped file is well shaped, ...                 *)
LEMMA ShapePrefix ==
  ASSUME NEW f \in Seq(Piece), NEW n \in 0..Len(f), Shape(f)
  PROVE  Shape(SubSeq(f, 1, n))
<1>1. /\ Len(SubSeq(f, 1, n)) = n
      /\ \A i \in 1..n : SubSeq(f, 1, n)[i] = f[i]
  BY SubSeqProperties, ElementOfSeq, LenProperties
<1>2. Len(f) \in Nat
  BY LenProperties
<1>. QED  BY ONLY n \in 0..Len(f), Shape(f), <1>1, <1>2, SMTT(30) DEF Shape, IsEnd, IsHead

(* ... so is the file while the buffer still holds the rest.               *)
LEMMA ShapeFile ==
  ASSUME NEW f \in Seq(Piece), NEW b \in Seq(Piece), Shape(f \o b)
  PROVE  Shape(f)
<1>1. /\ Len(f \o b) = Len(f) + Len(b) /\ Len(f) \in Nat /\ Len(b) \in Nat
      /\ \A i \in 1..Len(f) : (f \o b)[i] = f[i]
  BY ConcatProperties, LenProperties
<1> DEFINE g == f \o b
<1>2. /\ Shape(g) /\ Len(f) \in Nat /\ Len(f) <= Len(g) /\ Len(g) \in Nat
      /\ \A i \in 1..Len(f) : g[i] = f[i]
  BY <1>1
<1> HIDE DEF g
<1>3. ASSUME NEW j \in 1..Len(f), IsEnd(f, j)  PROVE j > 1 /\ f[j - 1] = HeadOf(f[j].ev)
  <2>1. j \in 1..Len(g) /\ g[j] = f[j] /\ IsEnd(g, j)
    BY ONLY <1>2, <1>3 DEF IsEnd
  <2>2. j > 1 /\ g[j - 1] = HeadOf(g[j].ev)
    BY ONLY <1>2, <2>1 DEF Shape
  <2>3. j - 1 \in 1..Len(f)
    BY ONLY <1>2, <2>2, j \in 1..Len(f)
  <2>. QED  BY ONLY <1>2, <2>1, <2>2, <2>3
<1>4. ASSUME NEW j \in 1..(Len(f) - 1), IsHead(f, j), IsHead(f, j + 1)
      PROVE  f[j].ev \in LongEvent
  <2>1. j \in 1..Len(f) /\ j + 1 \in 1..Len(f) /\ j \in 1..(Len(g) - 1)
    BY ONLY <1>2, j \in 1..(Len(f) - 1)
  <2>2. g[j] = f[j] /\ g[j + 1] = f[j + 1]
    BY ONLY <1>2, <2>1
  <2>3. IsHead(g, j) /\ IsHead(g, j + 1)
    BY ONLY <1>4, <2>2 DEF IsHead
  <2>. QED  BY ONLY <1>2, <2>1, <2>2, <2>3 DEF Shape
<1>. QED  BY <1>3, <1>4 DEF Shape

(* A whole line may follow a newline or a long line's fragment, ...        *)
LEMMA ShapeLine ==
  ASSUME NEW f \in Seq(Piece), NEW e \in Event, Shape(f), TailOK(f)
  PROVE  /\ Shape(f \o Line(e)) /\ TailOK(f \o Line(e))
         /\ (f \o Line(e))[Len(f) + 2] = EndOf(e)
<1> DEFINE g == f \o Line(e)
<1>1. /\ Len(g) = Len(f) + 2 /\ Len(f) \in Nat
      /\ \A i \in 1..Len(f) : g[i] = f[i]
      /\ g[Len(f) + 1] = HeadOf(e) /\ g[Len(f) + 2] = EndOf(e)
  <2>1. /\ Len(g) = Len(f) + 2 /\ Len(f) \in Nat
        /\ \A i \in 1..(Len(f) + 2) : g[i] = IF i <= Len(f) THEN f[i] ELSE Line(e)[i - Len(f)]
    BY LineType, PieceConcat
  <2>. QED  BY <2>1, LineType
<1>2. HeadOf(e).part = "head" /\ EndOf(e).part = "end" /\ EndOf(e).ev = e
  BY DEF HeadOf, EndOf
<1> HIDE DEF g
<1>3. \A j \in 1..Len(g) : IsEnd(g, j) => j > 1 /\ g[j - 1] = HeadOf(g[j].ev)
  <2> TAKE j \in 1..Len(g)
  <2>1. CASE j \in 1..Len(f)
    BY <1>1, <2>1 DEF Shape, IsEnd
  <2>2. CASE j = Len(f) + 1
    BY <1>1, <1>2, <2>2 DEF IsEnd
  <2>3. CASE j = Len(f) + 2
    BY <1>1, <1>2, <2>3 DEF IsEnd
  <2>. QED  BY <1>1, <2>1, <2>2, <2>3
<1>4. \A j \in 1..(Len(g) - 1) : IsHead(g, j) /\ IsHead(g, j + 1) => g[j].ev \in LongEvent
  <2> TAKE j \in 1..(Len(g) - 1)
  <2>1. CASE j \in 1..(Len(f) - 1)
    BY <1>1, <2>1 DEF Shape, IsHead
  <2>2. CASE j = Len(f)
    BY <1>1, <2>2 DEF TailOK, IsEnd, IsHead
  <2>3. CASE j = Len(f) + 1
    BY <1>1, <1>2, <2>3 DEF IsHead
  <2>. QED  BY <1>1, <2>1, <2>2, <2>3
<1>5. TailOK(g)
  BY <1>1, <1>2 DEF TailOK, IsEnd
<1>. QED  BY <1>1, <1>3, <1>4, <1>5 DEF g, Shape

(* ... and so may another fragment.                                        *)
LEMMA ShapeFragment ==
  ASSUME NEW f \in Seq(Piece), NEW e \in LongEvent, Shape(f), TailOK(f)
  PROVE  /\ Shape(Append(f, HeadOf(e))) /\ TailOK(Append(f, HeadOf(e)))
<1> DEFINE g == Append(f, HeadOf(e))
<1>1. /\ Len(g) = Len(f) + 1 /\ Len(f) \in Nat
      /\ \A i \in 1..Len(f) : g[i] = f[i]
      /\ g[Len(f) + 1] = HeadOf(e)
  BY EventAssumption, LineType, AppendProperties, LenProperties
<1>2. HeadOf(e).part = "head" /\ HeadOf(e).ev = e
  BY DEF HeadOf
<1> HIDE DEF g
<1>3. \A j \in 1..Len(g) : IsEnd(g, j) => j > 1 /\ g[j - 1] = HeadOf(g[j].ev)
  BY <1>1, <1>2 DEF Shape, IsEnd
<1>4. \A j \in 1..(Len(g) - 1) : IsHead(g, j) /\ IsHead(g, j + 1) => g[j].ev \in LongEvent
  <2> TAKE j \in 1..(Len(g) - 1)
  <2>1. CASE j \in 1..(Len(f) - 1)
    BY <1>1, <2>1 DEF Shape, IsHead
  <2>2. CASE j = Len(f)
    BY <1>1, <2>2 DEF TailOK, IsEnd, IsHead
  <2>. QED  BY <1>1, <2>1, <2>2
<1>5. TailOK(g)
  BY <1>1, <1>2 DEF TailOK
<1>. QED  BY <1>3, <1>4, <1>5 DEF g, Shape

(* Draining the buffer moves pieces without changing what the file will    *)
(* hold, and so does splitting a line between the two.                     *)
LEMMA DrainKeepsStream ==
  ASSUME NEW f \in Seq(Piece), NEW b \in Seq(Piece), NEW n \in 1..Len(b)
  PROVE  (f \o SubSeq(b, 1, n)) \o SubSeq(b, n + 1, Len(b)) = f \o b
<1> DEFINE p == SubSeq(b, 1, n)
           q == SubSeq(b, n + 1, Len(b))
<1>1. Len(b) \in Nat /\ \A i \in 1..Len(b) : b[i] \in Piece
  BY LenProperties, ElementOfSeq
<1>2. p \in Seq(Piece) /\ Len(p) = n /\ \A i \in 1..n : p[i] = b[i]
  BY <1>1, SubSeqProperties
<1>3. /\ q \in Seq(Piece) /\ Len(q) = Len(b) - n
      /\ \A i \in 1..(Len(b) - n) : q[i] = b[n + i]
  <2>1. \A i \in (n + 1)..Len(b) : b[i] \in Piece
    BY <1>1
  <2>2. n + 1 \in Int /\ Len(b) \in Int
    BY <1>1
  <2>3. /\ q \in Seq(Piece)
        /\ Len(q) = IF n + 1 <= Len(b) THEN Len(b) - (n + 1) + 1 ELSE 0
        /\ \A i \in 1..(Len(b) - (n + 1) + 1) : q[i] = b[(n + 1) + i - 1]
    BY <2>1, <2>2, SubSeqProperties
  <2>. QED  BY <1>1, <2>3
<1> HIDE DEF p, q
<1>4. p \o q \in Seq(Piece) /\ p \o q = b
  <2>1. /\ p \o q \in Seq(Piece) /\ Len(p \o q) = Len(b)
        /\ \A i \in 1..Len(b) : (p \o q)[i] = IF i <= n THEN p[i] ELSE q[i - n]
    <3>1. Len(p) + Len(q) = Len(b)
      BY <1>1, <1>2, <1>3
    <3>2. p \in Seq(Piece) /\ q \in Seq(Piece)
      BY <1>2, <1>3
    <3>3. /\ p \o q \in Seq(Piece) /\ Len(p \o q) = Len(p) + Len(q)
          /\ \A i \in 1..(Len(p) + Len(q)) :
               (p \o q)[i] = IF i <= Len(p) THEN p[i] ELSE q[i - Len(p)]
      BY <3>2, PieceConcat
    <3>. QED  BY <1>2, <3>1, <3>3
  <2>2. ASSUME NEW i \in 1..Len(b)  PROVE (p \o q)[i] = b[i]
    <3>1. CASE i <= n
      BY <1>1, <1>2, <2>1, <3>1
    <3>2. CASE i > n
      <4>1. i - n \in 1..(Len(b) - n) /\ n + (i - n) = i
        BY <1>1, <3>2
      <4>2. q[i - n] = b[i]
        BY <1>3, <4>1
      <4>. QED  BY <1>1, <2>1, <3>2, <4>2
    <3>3. i <= n \/ i > n
      BY <1>1
    <3>. QED  BY ONLY <3>1, <3>2, <3>3
  <2>. QED  BY <2>1, <2>2, SeqEqual
<1>5. (f \o p) \o q = f \o (p \o q)
  <2>1. p \in Seq(Piece) /\ q \in Seq(Piece)
    BY <1>2, <1>3
  <2>. QED  BY <2>1, PieceConcatAssoc
<1>. QED  BY <1>4, <1>5 DEF p, q

LEMMA SplitKeepsStream ==
  ASSUME NEW f \in Seq(Piece), NEW e \in Event
  PROVE  Append(f, HeadOf(e)) \o <<EndOf(e)>> = f \o Line(e)
<1>1. Append(f, HeadOf(e)) = f \o <<HeadOf(e)>>
  BY LineType, AppendIsConcat
<1>2. <<HeadOf(e)>> \in Seq(Piece) /\ <<EndOf(e)>> \in Seq(Piece)
  BY LineType
<1>3. <<HeadOf(e)>> \o <<EndOf(e)>> = Line(e)
  <2> DEFINE s == <<HeadOf(e)>> \o <<EndOf(e)>>
  <2>1. /\ s \in Seq(Piece) /\ Len(s) = 2
        /\ s[1] = HeadOf(e) /\ s[2] = EndOf(e)
    BY <1>2, PieceConcat
  <2>2. \A i \in 1..Len(s) : s[i] = Line(e)[i]
    BY <2>1, LineType
  <2>. QED  BY <2>1, <2>2, LineType, SeqEqual
<1>4. (f \o <<HeadOf(e)>>) \o <<EndOf(e)>> = f \o (<<HeadOf(e)>> \o <<EndOf(e)>>)
  BY <1>2, PieceConcatAssoc
<1>. QED  BY <1>1, <1>3, <1>4

(* Ends stay where they are when the file grows or loses a later part.     *)
LEMMA EndGrow ==
  ASSUME NEW f \in Seq(Piece), NEW b \in Seq(Piece), NEW e,
         NEW n \in 0..Len(f), EndWithin(f, e, n), NEW m \in n..(Len(f) + Len(b))
  PROVE  EndWithin(f \o b, e, m)
<1>1. /\ Len(f) \in Nat /\ Len(b) \in Nat
      /\ \A i \in 1..Len(f) : (f \o b)[i] = f[i]
  BY ConcatProperties, LenProperties
<1>. QED  BY <1>1 DEF EndWithin

LEMMA EndPrefix ==
  ASSUME NEW f \in Seq(Piece), NEW e, NEW n \in 0..Len(f), NEW m \in 0..Len(f),
         NEW k \in m..n, EndWithin(f, e, m)
  PROVE  EndWithin(SubSeq(f, 1, n), e, k)
<1>1. \A i \in 1..n : SubSeq(f, 1, n)[i] = f[i]
  BY SubSeqProperties, ElementOfSeq, LenProperties
<1>2. Len(f) \in Nat
  BY LenProperties
<1>. QED  BY <1>1, <1>2 DEF EndWithin

-----------------------------------------------------------------------------
(* The inductive invariant.                                                *)

LEMMA StreamOfEmptyBuffer ==
  ASSUME NEW f \in Seq(Piece)
  PROVE  f \o <<>> = f
BY ConcatEmptySeq

LEMMA SubSeqType ==
  ASSUME NEW f \in Seq(Piece), NEW n \in 0..Len(f)
  PROVE  /\ SubSeq(f, 1, n) \in Seq(Piece) /\ Len(SubSeq(f, 1, n)) = n
         /\ n \in Nat /\ Len(f) \in Nat
         /\ \A i \in 1..n : SubSeq(f, 1, n)[i] = f[i]
BY SubSeqProperties, ElementOfSeq, LenProperties

LEMMA InitIInv == Init => IInv
<1> SUFFICES ASSUME Init PROVE IInv
  OBVIOUS
<1>1. file = <<>> /\ buf = <<>> /\ stream = <<>>
  BY ConcatEmptySeq DEF Init, stream
<1>2. Len(<<>>) = 0
  OBVIOUS
<1>3. ShapeInv
  BY <1>1, <1>2 DEF Init, ShapeInv, Shape
<1>4. EndsInv
  BY DEF Init, EndsInv
<1>. QED  BY <1>3, <1>4, InitTypeControl DEF IInv

(* What the file will hold is unchanged, gains a whole line, gains a long  *)
(* line's fragment, or loses an end.                                       *)
LEMMA NextShape == IInv /\ [Next]_vars => ShapeInv'
<1> SUFFICES ASSUME IInv, [Next]_vars PROVE ShapeInv'
  OBVIOUS
<1>1. /\ file \in Seq(Piece) /\ buf \in Seq(Piece) /\ stream \in Seq(Piece)
      /\ wstate \in {"closed", "open", "wedged"}
      /\ buf # <<>> => wstate = "open"
      /\ Shape(stream) /\ (wstate = "open" => TailOK(stream))
      /\ Shape(file)
  BY PieceConcat, ShapeFile DEF IInv, TypeControl, TypeOK, ControlInv, ShapeInv, stream
<1>2. ASSUME file' = file, buf' = buf, wstate' \in {wstate, "closed"}  PROVE ShapeInv'
  BY <1>1, <1>2 DEF ShapeInv, stream
<1>3. ASSUME NEW n \in 0..Len(file), file' = SubSeq(file, 1, n), buf' = <<>>, wstate' # "open"
      PROVE  ShapeInv'
  <2>1. file' \in Seq(Piece) /\ Shape(file')
    BY <1>1, <1>3, ShapePrefix, SubSeqType
  <2>2. stream' = file'
    BY <1>3, <2>1, StreamOfEmptyBuffer DEF stream
  <2>. QED  BY <1>3, <2>1, <2>2 DEF ShapeInv
<1>4. ASSUME NEW m \in Modes, NEW t \in BOOLEAN, Open(m, t)  PROVE ShapeInv'
  <2>1. PICK n \in 0..Len(file) : LastComplete(file, n) /\ file' = SubSeq(file, 1, n)
    BY <1>4 DEF Open
  <2>2. file' \in Seq(Piece) /\ Shape(file')
    BY <1>1, <2>1, ShapePrefix, SubSeqType
  <2>3. buf' = <<>>
    BY <1>1, <1>4 DEF Open
  <2>4. stream' = file'
    BY <2>2, <2>3, StreamOfEmptyBuffer DEF stream
  <2>5. TailOK(file')
    BY <1>1, <2>1, SubSeqType DEF LastComplete, TailOK, IsEnd
  <2>. QED  BY <2>2, <2>4, <2>5 DEF ShapeInv
<1>19. CASE RepairFails
  BY <1>1, <1>3, <1>19 DEF RepairFails
<1>5. ASSUME NEW e \in Event, wstate = "open", stream' = stream \o Line(e)  PROVE ShapeInv'
  BY <1>1, <1>5, ShapeLine DEF ShapeInv
<1>6. CASE WriteBuffered
  <2>1. Head(todo) \in Event
    BY <1>6, WrittenTypes DEF WriteBuffered, IInv
  <2>2. stream' = stream \o Line(Head(todo))
    BY <1>1, <1>6, <2>1, LineType, PieceConcatAssoc DEF WriteBuffered, stream, disk
  <2>. QED  BY <1>5, <1>6, <2>1, <2>2 DEF WriteBuffered
<1>7. CASE WriteDirect
  <2>1. Head(todo) \in Event /\ buf = <<>> /\ stream = file
    BY <1>1, <1>7, WrittenTypes, StreamOfEmptyBuffer DEF WriteDirect, IInv, stream
  <2>2. CASE file' = file \o Line(Head(todo)) /\ buf' = buf
    <3>1. file' \in Seq(Piece)
      BY <1>1, <2>1, <2>2, LineType, PieceConcat
    <3>2. stream' = stream \o Line(Head(todo))
      BY <2>1, <2>2, <3>1, StreamOfEmptyBuffer DEF stream
    <3>. QED  BY <1>5, <1>7, <2>1, <3>2 DEF WriteDirect
  <2>3. CASE file' = Append(file, HeadOf(Head(todo))) /\ buf' = <<EndOf(Head(todo))>>
    <3>1. stream' = stream \o Line(Head(todo))
      BY <1>1, <2>1, <2>3, SplitKeepsStream DEF stream
    <3>. QED  BY <1>5, <1>7, <2>1, <3>1 DEF WriteDirect
  <2>. QED  BY <1>7, <2>2, <2>3 DEF WriteDirect
<1>8. CASE WriteDirectFails
  <2>1. Head(todo) \in LongEvent
    <3>1. Head(todo) \in Event /\ buf = <<>>
      BY <1>8, HeadTailProperties DEF WriteDirectFails, IInv, TypeControl, TypeOK, ControlInv
    <3>. QED  BY <1>8, <3>1, BoundAssumption DEF WriteDirectFails, Fits
  <2>2. buf = <<>> /\ buf' = <<>> /\ stream = file /\ wstate' = "open" /\ wstate = "open"
    BY <1>1, <1>8, StreamOfEmptyBuffer DEF WriteDirectFails, stream
  <2>3. CASE file' = file
    BY <1>2, <2>2, <2>3
  <2>4. CASE file' = Append(file, HeadOf(Head(todo)))
    <3>1. file' \in Seq(Piece)
      BY <1>1, <2>1, <2>4, EventAssumption, LineType, AppendProperties
    <3>2. stream' = file'
      BY <2>2, <3>1, StreamOfEmptyBuffer DEF stream
    <3>. QED  BY <1>1, <2>1, <2>2, <2>4, <3>2, ShapeFragment DEF ShapeInv
  <2>. QED  BY <1>8, <2>3, <2>4 DEF WriteDirectFails
<1>9. CASE RawWrite
  <2>1. stream' = stream /\ wstate' = wstate
    BY <1>1, <1>9, DrainKeepsStream DEF RawWrite, stream
  <2>. QED  BY <1>1, <2>1 DEF ShapeInv
<1>10. CASE CloseFileFails \/ Kill
  <2>1. file' = file /\ buf' = <<>> /\ wstate' # "open"
    BY <1>10 DEF CloseFileFails, Kill, disk
  <2>. QED  BY <1>1, <2>1, StreamOfEmptyBuffer DEF ShapeInv, stream
<1>11. CASE PowerLoss
  <2>1. PICK n \in synced..Len(file) : file' = SubSeq(file, 1, n)
    BY <1>11 DEF PowerLoss
  <2>2. n \in 0..Len(file)
    BY <1>1, LenProperties DEF IInv, TypeControl, TypeOK
  <2>. QED  BY <1>3, <1>11, <2>1, <2>2 DEF PowerLoss
<1>12. CASE \E e \in Event : AppendEvent(e)
  BY <1>2, <1>12 DEF AppendEvent, Call, disk
<1>13. CASE \E es \in Batches : AppendMany(es)
  BY <1>2, <1>13 DEF AppendMany, Call, disk
<1>14. CASE FlushCall \/ Sync \/ Verify \/ Close
  BY <1>2, <1>14 DEF FlushCall, Sync, Verify, Close, Call, disk
<1>15. CASE CheckOrder \/ WriteNeedsDrain \/ UseAfterWedge
  BY <1>2, <1>15 DEF CheckOrder, WriteNeedsDrain, UseAfterWedge, disk
<1>16. CASE RawWriteFails \/ Flushed \/ FsyncFails
  BY <1>2, <1>16 DEF RawWriteFails, Flushed, FsyncFails, disk
<1>17. CASE Fsync \/ CloseFile
  BY <1>2, <1>17 DEF Fsync, CloseFile, disk
<1>18. CASE UNCHANGED vars
  BY <1>2, <1>18 DEF vars
<1>. QED
  BY <1>4, <1>6, <1>7, <1>8, <1>9, <1>10, <1>11, <1>12, <1>13, <1>14, <1>15, <1>16,
     <1>17, <1>18, <1>19 DEF Next

(* The ends already written stay; those of this session are in the file    *)
(* once the buffer is empty, which is when a call hands events over.       *)
LEMMA NextEnds == IInv /\ [Next]_vars => EndsInv'
<1> SUFFICES ASSUME IInv, [Next]_vars PROVE EndsInv'
  OBVIOUS
<1>1. /\ file \in Seq(Piece) /\ buf \in Seq(Piece) /\ stream \in Seq(Piece)
      /\ Len(file) \in Nat /\ Len(stream) \in Nat
      /\ synced \in 0..Len(file)
      /\ wstate = "closed" => op = "none"
      /\ op = "none" => done = {}
      /\ pc = "fsync" => wstate = "open" /\ buf = <<>>
  BY PieceConcat, LenProperties DEF IInv, TypeControl, TypeOK, ControlInv, stream
<1>2. /\ wstate = "open" => \A e \in acked \cup done : EndWithin(stream, e, Len(stream))
      /\ \A e \in promised : EndWithin(file, e, synced)
      /\ \A e \in handed : EndWithin(file, e, Len(file))
  BY DEF IInv, EndsInv
<1>3. ASSUME file' = file, buf' = buf, synced' = synced,
             wstate' \in {wstate, "closed", "wedged"},
             acked' \cup done' \subseteq acked \cup done,
             promised' = promised, handed' = handed
      PROVE  EndsInv'
  BY <1>2, <1>3 DEF EndsInv, stream
<1>4. ASSUME NEW x \in Seq(Piece), file' = file \o x, synced' = synced,
             promised' = promised, handed' = handed
      PROVE  /\ \A e \in promised' : EndWithin(file', e, synced')
             /\ \A e \in handed' : EndWithin(file', e, Len(file'))
  <2>1. Len(file') = Len(file) + Len(x) /\ Len(x) \in Nat
    BY <1>1, <1>4, PieceConcat
  <2>2. ASSUME NEW e \in promised  PROVE EndWithin(file', e, synced)
    BY <1>1, <1>2, <1>4, <2>1, EndGrow
  <2>3. ASSUME NEW e \in handed  PROVE EndWithin(file', e, Len(file'))
    BY <1>1, <1>2, <1>4, <2>1, EndGrow
  <2>. QED  BY <1>4, <2>2, <2>3
<1>5. ASSUME NEW e \in Event, wstate = "open", stream' = stream \o Line(e),
             acked' \cup done' \subseteq acked \cup done \cup {e}
      PROVE  \A d \in (acked \cup done)' : EndWithin(stream, d, Len(stream))'
  <2>1. Len(stream') = Len(stream) + 2 /\ Len(Line(e)) = 2 /\ Line(e) \in Seq(Piece)
    <3>1. Len(Line(e)) = 2 /\ Line(e) \in Seq(Piece)
      BY LineType
    <3>2. Len(stream \o Line(e)) = Len(stream) + Len(Line(e))
      BY <1>1, <3>1, PieceConcat
    <3>. QED  BY <1>5, <3>1, <3>2
  <2>2. ASSUME NEW d \in acked \cup done  PROVE EndWithin(stream', d, Len(stream'))
    <3> DEFINE x == Line(e)
               n == Len(stream)
               m == Len(stream')
    <3>1. /\ stream \in Seq(Piece) /\ x \in Seq(Piece) /\ stream' = stream \o x
          /\ EndWithin(stream, d, n)
      BY <1>1, <1>2, <1>5, <2>1
    <3>2. n \in 0..Len(stream) /\ m \in n..(Len(stream) + Len(x))
      BY <1>1, <2>1
    <3> HIDE DEF x, n, m
    <3>3. EndWithin(stream \o x, d, m)
      BY ONLY <3>1, <3>2, EndGrow
    <3>. QED  BY <3>1, <3>3 DEF m
  <2>3. EndWithin(stream', e, Len(stream'))
    <3>1. stream'[Len(stream) + 2] = EndOf(e)
      BY <1>1, <1>5, ShapeLine DEF IInv, ShapeInv
    <3>. QED  BY <1>1, <2>1, <3>1 DEF EndWithin
  <2>. QED  BY <1>5, <2>2, <2>3
<1>6. ASSUME NEW m \in Modes, NEW t \in BOOLEAN, Open(m, t)  PROVE EndsInv'
  <2>1. PICK n \in 0..Len(file) :
          /\ LastComplete(file, n) /\ file' = SubSeq(file, 1, n)
          /\ synced' = IF n = Len(file) THEN synced ELSE n
    BY <1>6 DEF Open
  <2>2. acked' = {} /\ done' = {} /\ promised' = promised /\ handed' = handed
    BY <1>1, <1>6 DEF Open, control
  <2>3. n \in Nat /\ Len(file') = n /\ \A i \in 1..n : file'[i] = file[i]
    BY <1>1, <2>1, SubSeqType
  <2>4. ASSUME NEW j \in 1..Len(file), NEW e, file[j] = EndOf(e)
        PROVE  j \in 1..n /\ file'[j] = EndOf(e)
    <3>1. ~IsHead(file, j)
      BY <2>4 DEF IsHead, EndOf
    <3>2. j \in 1..n
      BY <1>1, <2>1, <3>1 DEF LastComplete
    <3>. QED  BY <2>3, <2>4, <3>2
  <2>5. ASSUME NEW e \in promised  PROVE EndWithin(file', e, synced')
    <3>1. PICK j \in 1..synced : file[j] = EndOf(e)
      BY <1>2 DEF EndWithin
    <3>2. j \in 1..Len(file)
      BY <1>1
    <3>3. j \in 1..n /\ file'[j] = EndOf(e)
      BY <2>4, <3>1, <3>2
    <3>4. j \in 1..synced'
      BY <2>1, <3>1, <3>3
    <3>. QED  BY <3>3, <3>4 DEF EndWithin
  <2>6. ASSUME NEW e \in handed  PROVE EndWithin(file', e, Len(file'))
    <3>1. PICK j \in 1..Len(file) : file[j] = EndOf(e)
      BY <1>2 DEF EndWithin
    <3>2. j \in 1..n /\ file'[j] = EndOf(e)
      BY <2>4, <3>1
    <3>. QED  BY <2>3, <3>2 DEF EndWithin
  <2>. QED  BY <2>2, <2>5, <2>6 DEF EndsInv
<1>23. CASE RepairFails
  <2>1. PICK n \in 0..Len(file) :
          /\ LastComplete(file, n) /\ file' = SubSeq(file, 1, n)
          /\ synced' = IF synced <= n THEN synced ELSE n
    BY <1>23 DEF RepairFails
  <2>2. wstate' = "closed" /\ promised' = promised /\ handed' = handed
    BY <1>23 DEF RepairFails, ghosts
  <2>3. n \in Nat /\ Len(file') = n /\ \A i \in 1..n : file'[i] = file[i]
    BY <1>1, <2>1, SubSeqType
  <2>4. ASSUME NEW j \in 1..Len(file), NEW e, file[j] = EndOf(e)
        PROVE  j \in 1..n /\ file'[j] = EndOf(e)
    <3>1. ~IsHead(file, j)
      BY <2>4 DEF IsHead, EndOf
    <3>2. j \in 1..n
      BY <1>1, <2>1, <3>1 DEF LastComplete
    <3>. QED  BY <2>3, <2>4, <3>2
  <2>5. ASSUME NEW e \in promised  PROVE EndWithin(file', e, synced')
    <3>1. PICK j \in 1..synced : file[j] = EndOf(e)
      BY <1>2, <2>5 DEF EndWithin
    <3>2. j \in 1..n /\ file'[j] = EndOf(e)
      BY <1>1, <2>4, <3>1
    <3>3. j \in 1..synced'
      BY <1>1, <2>1, <2>3, <3>1, <3>2
    <3>. QED  BY <3>2, <3>3 DEF EndWithin
  <2>6. ASSUME NEW e \in handed  PROVE EndWithin(file', e, Len(file'))
    BY <1>1, <1>2, <2>1, <2>3, <2>4 DEF EndWithin
  <2>. QED  BY <2>2, <2>5, <2>6 DEF EndsInv
<1>7. CASE WriteBuffered
  <2>1. Head(todo) \in Event /\ acked' \cup done' \subseteq acked \cup done \cup {Head(todo)}
    BY <1>7, WrittenTypes DEF WriteBuffered, IInv
  <2>2. stream' = stream \o Line(Head(todo))
    BY <1>1, <1>7, <2>1, LineType, PieceConcatAssoc DEF WriteBuffered, stream, disk
  <2>3. promised' = promised /\ handed' = handed /\ file' = file /\ synced' = synced
        /\ wstate = "open"
    BY <1>7 DEF WriteBuffered, Written, disk
  <2>. QED  BY <1>2, <1>5, <2>1, <2>2, <2>3 DEF EndsInv
<1>8. CASE WriteDirect
  <2>1. Head(todo) \in Event /\ acked' \cup done' \subseteq acked \cup done \cup {Head(todo)}
    BY <1>8, WrittenTypes DEF WriteDirect, IInv
  <2>2. /\ promised' = promised /\ handed' = handed /\ synced' = synced
        /\ wstate = "open" /\ buf = <<>> /\ stream = file
    BY <1>1, <1>8, StreamOfEmptyBuffer DEF WriteDirect, Written, stream
  <2>3. CASE file' = file \o Line(Head(todo)) /\ buf' = buf
    <3>1. file' \in Seq(Piece) /\ Line(Head(todo)) \in Seq(Piece)
      BY <1>1, <2>1, <2>3, LineType, PieceConcat
    <3>2. stream' = stream \o Line(Head(todo))
      BY <2>2, <2>3, <3>1, StreamOfEmptyBuffer DEF stream
    <3>. QED  BY <1>4, <1>5, <2>1, <2>2, <2>3, <3>1, <3>2 DEF EndsInv
  <2>4. CASE file' = Append(file, HeadOf(Head(todo))) /\ buf' = <<EndOf(Head(todo))>>
    <3>1. file' = file \o <<HeadOf(Head(todo))>> /\ <<HeadOf(Head(todo))>> \in Seq(Piece)
      BY <1>1, <2>1, <2>4, LineType, AppendIsConcat
    <3>2. stream' = stream \o Line(Head(todo))
      BY <1>1, <2>1, <2>2, <2>4, SplitKeepsStream DEF stream
    <3>. QED  BY <1>4, <1>5, <2>1, <2>2, <3>1, <3>2 DEF EndsInv
  <2>. QED  BY <1>8, <2>3, <2>4 DEF WriteDirect
<1>9. ASSUME Raise, op # "none"
      PROVE  /\ promised' = promised /\ handed' = handed
             /\ acked' \cup done' \subseteq acked \cup done
  BY <1>9 DEF Raise, Idle, ghosts
<1>10. CASE WriteDirectFails
  <2>1. Head(todo) \in Event /\ op # "none" /\ buf = <<>> /\ stream = file /\ buf' = <<>>
    BY <1>1, <1>10, HeadTailProperties, StreamOfEmptyBuffer
    DEF WriteDirectFails, stream, IInv, TypeControl, TypeOK, ControlInv
  <2>2. /\ promised' = promised /\ handed' = handed /\ synced' = synced
        /\ acked' \cup done' \subseteq acked \cup done /\ wstate' = wstate /\ wstate = "open"
    BY <1>9, <1>10, <2>1 DEF WriteDirectFails
  <2>3. CASE file' = file
    BY <1>3, <2>1, <2>2, <2>3
  <2>4. CASE file' = Append(file, HeadOf(Head(todo)))
    <3>1. file' = file \o <<HeadOf(Head(todo))>> /\ <<HeadOf(Head(todo))>> \in Seq(Piece)
      BY <1>1, <2>1, <2>4, LineType, AppendIsConcat
    <3>2. file' \in Seq(Piece) /\ Len(file') = Len(file) + 1
      BY <1>1, <2>1, <2>4, LineType, AppendProperties
    <3>3. stream' = file'
      BY <2>1, <3>2, StreamOfEmptyBuffer DEF stream
    <3>4. ASSUME NEW d \in acked \cup done  PROVE EndWithin(stream', d, Len(stream'))
      <4>1. EndWithin(file, d, Len(file))
        BY <1>2, <2>1, <2>2
      <4> DEFINE x == <<HeadOf(Head(todo))>>
      <4>2. /\ x \in Seq(Piece) /\ Len(file) \in 0..Len(file)
            /\ Len(file) + 1 \in Len(file)..(Len(file) + Len(x))
        BY <1>1, <3>1
      <4> HIDE DEF x
      <4>3. EndWithin(file \o x, d, Len(file) + 1)
        BY <1>1, <4>1, <4>2, EndGrow
      <4>. QED  BY <3>1, <3>2, <3>3, <4>3 DEF x
    <3>. QED  BY <1>4, <2>2, <3>1, <3>4 DEF EndsInv
  <2>. QED  BY <1>10, <2>3, <2>4 DEF WriteDirectFails
<1>11. CASE RawWrite
  <2>1. PICK n \in 1..Len(buf) : file' = file \o SubSeq(buf, 1, n)
    BY <1>11 DEF RawWrite
  <2>2. SubSeq(buf, 1, n) \in Seq(Piece)
    BY <1>1, SubSeqProperties, ElementOfSeq, LenProperties
  <2>3. stream' = stream /\ UNCHANGED <<synced, wstate, done, acked, promised, handed>>
    <3>1. PICK k \in 1..Len(buf) :
            file' = file \o SubSeq(buf, 1, k) /\ buf' = SubSeq(buf, k + 1, Len(buf))
      BY <1>11 DEF RawWrite
    <3>2. (file \o SubSeq(buf, 1, k)) \o SubSeq(buf, k + 1, Len(buf)) = file \o buf
      BY <1>1, DrainKeepsStream
    <3>3. stream' = stream
      BY <3>1, <3>2 DEF stream
    <3>. QED  BY <1>11, <3>3 DEF RawWrite, ghosts
  <2>. QED  BY <1>2, <1>4, <2>1, <2>2, <2>3 DEF EndsInv
<1>12. ASSUME buf = <<>>, wstate = "open"
       PROVE  \A e \in handed \cup acked \cup done : EndWithin(file, e, Len(file))
  BY <1>1, <1>2, <1>12, StreamOfEmptyBuffer DEF stream
<1>13. CASE Flushed
  <2>1. /\ file' = file /\ buf' = buf /\ synced' = synced /\ wstate' = wstate
        /\ buf = <<>> /\ wstate = "open" /\ promised' = promised
        /\ handed' = handed \cup acked \cup done
    BY <1>13 DEF Flushed, HandOver, disk
  <2>2. acked' \cup done' \subseteq acked \cup done
    BY <1>13 DEF Flushed, Return, Idle
  <2>. QED  BY <1>2, <1>12, <2>1, <2>2 DEF EndsInv, stream
<1>14. CASE Fsync
  <2>1. /\ file' = file /\ buf' = buf /\ synced' = Len(file) /\ wstate' = wstate
        /\ buf = <<>> /\ wstate = "open"
        /\ promised' = promised \cup acked \cup done
        /\ handed' = handed \cup acked \cup done
    BY <1>1, <1>14 DEF Fsync, HandOver
  <2>2. acked' \cup done' \subseteq acked \cup done
    BY <1>14 DEF Fsync, Return, Idle
  <2>3. ASSUME NEW e \in promised  PROVE EndWithin(file, e, Len(file))
    BY <1>1, <1>2 DEF EndWithin
  <2>. QED  BY <1>2, <1>12, <2>1, <2>2, <2>3 DEF EndsInv, stream
<1>15. CASE CheckOrder \/ UseAfterWedge \/ RawWriteFails \/ FsyncFails
  <2>1. op # "none"
    BY <1>15 DEF CheckOrder, UseAfterWedge, RawWriteFails, FsyncFails, Draining,
                 IInv, TypeControl, ControlInv
  <2>2. /\ UNCHANGED <<file, buf, synced, wstate, promised, handed>>
        /\ acked' \cup done' \subseteq acked \cup done
    BY <1>9, <1>15, <2>1
    DEF CheckOrder, UseAfterWedge, RawWriteFails, FsyncFails, disk, ghosts
  <2>. QED  BY <1>3, <2>2
<1>16. CASE WriteNeedsDrain \/ CloseFile
  BY <1>3, <1>16 DEF WriteNeedsDrain, CloseFile, Idle, disk, ghosts
<1>17. CASE CloseFileFails \/ Kill
  BY <1>2, <1>17 DEF CloseFileFails, Kill, Idle, EndsInv, disk, ghosts
<1>18. CASE PowerLoss
  <2>1. PICK n \in synced..Len(file) : file' = SubSeq(file, 1, n) /\ synced' = n
    BY <1>18 DEF PowerLoss
  <2>2. n \in 0..Len(file) /\ Len(file') = n
    BY <1>1, <2>1, SubSeqType
  <2>3. ASSUME NEW e \in promised  PROVE EndWithin(file', e, n)
    BY <1>1, <1>2, <2>1, <2>2, EndPrefix
  <2>4. wstate' = "closed" /\ promised' = promised /\ handed' = promised
    BY <1>18 DEF PowerLoss
  <2>. QED  BY <2>1, <2>2, <2>3, <2>4 DEF EndsInv
<1>19. ASSUME NEW o, NEW at, NEW es, Call(o, at, es)  PROVE EndsInv'
  BY <1>3, <1>19 DEF Call, disk, ghosts
<1>20. CASE (\E e \in Event : AppendEvent(e)) \/ (\E es \in Batches : AppendMany(es))
  BY <1>19, <1>20 DEF AppendEvent, AppendMany
<1>21. CASE FlushCall \/ Sync \/ Verify \/ Close
  BY <1>19, <1>21 DEF FlushCall, Sync, Verify, Close
<1>22. CASE UNCHANGED vars
  BY <1>3, <1>22 DEF vars
<1>. QED
  BY <1>6, <1>7, <1>8, <1>10, <1>11, <1>13, <1>14, <1>15, <1>16, <1>17, <1>18,
     <1>20, <1>21, <1>22, <1>23 DEF Next

LEMMA Inductive == Spec => []IInv
<1>1. IInv /\ [Next]_vars => IInv'
  BY NextTypeControl, NextShape, NextEnds DEF IInv
<1>. QED  BY <1>1, InitIInv, PTL DEF Spec

-----------------------------------------------------------------------------
(* In a well-shaped file every end closes a valid line or one glued behind *)
(* a long line's fragment.                                                 *)
LEMMA EndIsLine ==
  ASSUME NEW f \in Seq(Piece), Shape(f), NEW e, NEW j \in 1..Len(f), f[j] = EndOf(e)
  PROVE  f[j].ev = e /\ (ValidAt(f, j) \/ GluedAt(f, j))
<1>1. Len(f) \in Nat /\ \A i \in 1..Len(f) : f[i].part \in {"head", "end"}
  <2>1. \A i \in 1..Len(f) : f[i] \in Piece
    BY ElementOfSeq
  <2>. QED  BY <2>1, LenProperties DEF Piece
<1>2. f[j].ev = e /\ IsEnd(f, j)
  BY DEF EndOf, IsEnd
<1>3. j > 1 /\ f[j - 1] = HeadOf(f[j].ev) /\ IsHead(f, j - 1)
  BY <1>1, <1>2 DEF Shape, HeadOf, IsHead
<1>4. CASE j > 2 => IsEnd(f, j - 2)
  BY <1>1, <1>2, <1>3, <1>4 DEF ValidAt
<1>5. CASE j > 2 /\ ~IsEnd(f, j - 2)
  <2>1. IsHead(f, j - 2)
    BY <1>1, <1>5 DEF IsHead, IsEnd
  <2>2. f[j - 2].ev \in LongEvent
    BY <1>1, <1>3, <1>5, <2>1 DEF Shape
  <2>. QED  BY <1>1, <1>2, <1>3, <1>5, <2>1, <2>2 DEF GluedAt
<1>. QED  BY <1>4, <1>5

(* Under every policy, interleaving of calls, failing write or fsync, kill *)
(* and power loss, an event the ledger promised is durable on a line of    *)
(* its own, or glued behind a fragment of a long line.                     *)
THEOREM PromiseNeverBroken == Spec => []PromiseKept
<1>1. IInv => PromiseKept
  <2> SUFFICES ASSUME IInv, NEW e \in promised
               PROVE  \E j \in 1..synced : file[j].ev = e /\ (ValidAt(file, j) \/ GluedAt(file, j))
    BY DEF PromiseKept
  <2>1. file \in Seq(Piece) /\ Shape(file) /\ synced \in 0..Len(file) /\ Len(file) \in Nat
    BY ShapeFile, LenProperties DEF IInv, TypeControl, TypeOK, ShapeInv, stream
  <2>2. PICK j \in 1..synced : file[j] = EndOf(e)
    BY DEF IInv, EndsInv, EndWithin
  <2>. QED  BY <2>1, <2>2, EndIsLine
<1>. QED  BY <1>1, Inductive, PTL

(* What a flush, verify, sync or close handed to the operating system is   *)
(* in the file for every reader, also after the process is killed.         *)
THEOREM HandedOverStays == Spec => []HandedOverVisible
<1>1. IInv => HandedOverVisible
  <2> SUFFICES ASSUME IInv, NEW e \in handed
               PROVE  \E j \in 1..Len(file) :
                        file[j].ev = e /\ (ValidAt(file, j) \/ GluedAt(file, j))
    BY DEF HandedOverVisible
  <2>1. file \in Seq(Piece) /\ Shape(file)
    BY ShapeFile DEF IInv, TypeControl, TypeOK, ShapeInv, stream
  <2>2. PICK j \in 1..Len(file) : file[j] = EndOf(e)
    BY DEF IInv, EndsInv, EndWithin
  <2>. QED  BY <2>1, <2>2, EndIsLine
<1>. QED  BY <1>1, Inductive, PTL

-----------------------------------------------------------------------------
(* Readers see DurableLog.                                                 *)

(* Whether a piece closes a valid line depends on what is before it only.  *)
LEMMA ValidByPrefix ==
  ASSUME NEW f \in Seq(Piece), NEW g \in Seq(Piece), NEW n \in Nat,
         n <= Len(f), n <= Len(g), \A i \in 1..n : g[i] = f[i]
  PROVE  \A j \in 1..n : ValidAt(g, j) <=> ValidAt(f, j)
<1>1. Len(f) \in Nat /\ Len(g) \in Nat
  BY LenProperties
<1>2. TAKE j \in 1..n
<1>3. g[j] = f[j] /\ (j > 1 => g[j - 1] = f[j - 1]) /\ (j > 2 => g[j - 2] = f[j - 2])
  BY <1>1
<1>. QED  BY <1>1, <1>3 DEF ValidAt, IsEnd

LEMMA VisibleIs ==
  /\ DOMAIN visible = {j \in 1..Len(file) : ValidAt(file, j)}
  /\ \A j \in DOMAIN visible : visible[j] = file[j].ev
  /\ (DOMAIN visible)' = {j \in 1..Len(file') : ValidAt(file', j)}
  /\ \A j \in DOMAIN visible' : visible'[j] = file'[j].ev
BY DEF visible

(* Writing more of a line or of the buffer grows the log.                  *)
LEMMA WriteGrows ==
  ASSUME file \in Seq(Piece), synced \in 0..Len(file),
         NEW x \in Seq(Piece), file' = file \o x, synced' = synced
  PROVE  Log!Grow
<1>1. /\ file' \in Seq(Piece) /\ Len(file) \in Nat /\ Len(x) \in Nat
      /\ Len(file') = Len(file) + Len(x)
      /\ \A i \in 1..Len(file) : file'[i] = file[i]
  BY PieceConcat
<1>2. \A j \in 1..Len(file) : ValidAt(file', j) <=> ValidAt(file, j)
  <2>1. Len(file) <= Len(file) /\ Len(file) <= Len(file')
    BY <1>1
  <2>. QED  BY ONLY <1>1, <2>1, ValidByPrefix, file \in Seq(Piece)
<1>3. DOMAIN visible \subseteq DOMAIN visible'
  BY <1>1, <1>2, VisibleIs
<1>4. \A p \in DOMAIN visible : visible'[p] = visible[p]
  BY <1>1, <1>3, VisibleIs
<1>5. \A q \in DOMAIN visible' \ DOMAIN visible : q \in Nat /\ q > Len(file)
  BY <1>1, <1>2, VisibleIs
<1>6. \A p \in DOMAIN visible, q \in DOMAIN visible' \ DOMAIN visible : p < q
  BY <1>1, <1>5, VisibleIs
<1>7. stable' = stable
  <2>1. ASSUME NEW j \in DOMAIN visible', j <= synced  PROVE j \in DOMAIN visible
    BY <1>1, <1>5, <2>1
  <2>. QED  BY <1>3, <2>1 DEF stable
<1>. QED  BY <1>3, <1>4, <1>6, <1>7 DEF Log!Grow

(* Cutting the file cuts the log.                                          *)
LEMMA CutVisible ==
  ASSUME file \in Seq(Piece), NEW n \in 0..Len(file), file' = SubSeq(file, 1, n)
  PROVE  /\ DOMAIN visible' = {j \in DOMAIN visible : j <= n}
         /\ \A j \in DOMAIN visible' : visible'[j] = visible[j]
<1>1. /\ file' \in Seq(Piece) /\ Len(file') = n /\ n \in Nat /\ Len(file) \in Nat
      /\ \A i \in 1..n : file'[i] = file[i]
  BY SubSeqType
<1>2. \A j \in 1..n : ValidAt(file', j) <=> ValidAt(file, j)
  <2>1. n <= Len(file) /\ n <= Len(file')
    BY <1>1
  <2>. QED  BY ONLY <1>1, <2>1, ValidByPrefix, file \in Seq(Piece)
<1>3. DOMAIN visible' = {j \in DOMAIN visible : j <= n}
  BY <1>1, <1>2, VisibleIs
<1>. QED  BY <1>1, <1>3, VisibleIs

(* The repair of a torn tail takes no entry off the log: behind the last   *)
(* newline no line ends.                                                   *)
LEMMA RepairKeepsLog ==
  ASSUME file \in Seq(Piece), synced \in 0..Len(file),
         NEW n \in 0..Len(file), LastComplete(file, n), file' = SubSeq(file, 1, n),
         synced' \in {synced, n}, synced' <= n
  PROVE  Log!Harden \/ UNCHANGED <<visible, stable>>
<1>1. n \in Nat /\ Len(file) \in Nat /\ synced \in Nat
  BY LenProperties
<1>2. ASSUME NEW j \in DOMAIN visible  PROVE j \in Nat /\ j <= n
  <2>1. j \in 1..Len(file) /\ IsEnd(file, j) /\ ~IsHead(file, j)
    BY VisibleIs DEF ValidAt, IsEnd, IsHead
  <2>. QED  BY <1>1, <2>1 DEF LastComplete
<1>3. DOMAIN visible' = DOMAIN visible /\ \A j \in DOMAIN visible : visible'[j] = visible[j]
  BY <1>2, CutVisible
<1>4. visible' = visible
  <2>1. /\ visible = [j \in DOMAIN visible |-> visible[j]]
        /\ visible' = [j \in DOMAIN visible' |-> visible'[j]]
    BY DEF visible
  <2>. QED  BY <1>3, <2>1
<1>5. stable \subseteq stable' /\ stable' \subseteq DOMAIN visible
  BY <1>1, <1>2, <1>3 DEF stable
<1>. QED  BY <1>4, <1>5 DEF Log!Harden

LEMMA InitReadersSee == Init => Log!Init
<1> SUFFICES ASSUME Init PROVE Log!Init
  OBVIOUS
<1>1. file = <<>> /\ 1..Len(<<>>) = {}
  BY DEF Init
<1>2. DOMAIN visible = {}
  BY <1>1, VisibleIs
<1>3. visible = <<>>
  BY <1>2 DEF visible
<1>. QED  BY <1>2, <1>3 DEF Log!Init, stable

LEMMA NextReadersSee ==
  ASSUME IInv, [Next]_vars
  PROVE  [Log!Next]_<<visible, stable>>
<1>1. /\ file \in Seq(Piece) /\ buf \in Seq(Piece) /\ synced \in 0..Len(file)
      /\ Len(file) \in Nat
  BY LenProperties DEF IInv, TypeControl, TypeOK
<1>2. ASSUME file' = file, synced' = synced  PROVE UNCHANGED <<visible, stable>>
  BY <1>2 DEF visible, stable
<1>3. CASE \E m \in Modes, t \in BOOLEAN : Open(m, t)
  <2>1. PICK n \in 0..Len(file) :
          /\ LastComplete(file, n) /\ file' = SubSeq(file, 1, n)
          /\ synced' = IF n = Len(file) THEN synced ELSE n
    BY <1>3 DEF Open
  <2>2. synced' \in {synced, n} /\ synced' <= n
    BY <1>1, <2>1
  <2>. QED  BY <1>1, <2>1, <2>2, RepairKeepsLog DEF Log!Next
<1>4. CASE RepairFails
  <2>1. PICK n \in 0..Len(file) :
          /\ LastComplete(file, n) /\ file' = SubSeq(file, 1, n)
          /\ synced' = IF synced <= n THEN synced ELSE n
    BY <1>4 DEF RepairFails
  <2>2. synced' \in {synced, n} /\ synced' <= n
    BY <1>1, <2>1
  <2>. QED  BY <1>1, <2>1, <2>2, RepairKeepsLog DEF Log!Next
<1>5. CASE WriteDirect \/ WriteDirectFails
  <2>1. synced' = synced /\ Head(todo) \in Event
    BY <1>5, HeadTailProperties
    DEF WriteDirect, WriteDirectFails, IInv, TypeControl, TypeOK, ControlInv
  <2>2. CASE file' = file
    BY <1>2, <2>1, <2>2
  <2>3. CASE file' = file \o Line(Head(todo))
    BY <1>1, <2>1, <2>3, LineType, WriteGrows DEF Log!Next
  <2>4. CASE file' = Append(file, HeadOf(Head(todo)))
    <3>1. file' = file \o <<HeadOf(Head(todo))>> /\ <<HeadOf(Head(todo))>> \in Seq(Piece)
      BY <1>1, <2>1, <2>4, LineType, AppendIsConcat
    <3>. QED  BY <1>1, <2>1, <3>1, WriteGrows DEF Log!Next
  <2>. QED  BY <1>5, <2>2, <2>3, <2>4 DEF WriteDirect, WriteDirectFails
<1>6. CASE RawWrite
  <2>1. PICK n \in 1..Len(buf) : file' = file \o SubSeq(buf, 1, n)
    BY <1>6 DEF RawWrite
  <2>2. SubSeq(buf, 1, n) \in Seq(Piece) /\ synced' = synced
    BY <1>1, <1>6, SubSeqProperties, ElementOfSeq, LenProperties DEF RawWrite
  <2>. QED  BY <1>1, <2>1, <2>2, WriteGrows DEF Log!Next
<1>7. CASE Fsync
  <2>1. file' = file /\ synced' = Len(file)
    BY <1>7 DEF Fsync
  <2>2. visible' = visible /\ stable \subseteq stable' /\ stable' \subseteq DOMAIN visible
    BY <1>1, <2>1 DEF visible, stable
  <2>. QED  BY <2>2 DEF Log!Next, Log!Harden
<1>8. CASE PowerLoss
  <2>1. PICK n \in synced..Len(file) : file' = SubSeq(file, 1, n) /\ synced' = n
    BY <1>8 DEF PowerLoss
  <2>2. n \in 0..Len(file) /\ n \in Nat /\ synced \in Nat /\ synced <= n
    BY <1>1, <2>1
  <2>3. /\ DOMAIN visible' = {j \in DOMAIN visible : j <= n}
        /\ \A j \in DOMAIN visible' : visible'[j] = visible[j]
    BY <1>1, <2>1, <2>2, CutVisible
  <2>4. \A j \in DOMAIN visible : j \in Nat
    BY <1>1, VisibleIs
  <2>5. \A p \in DOMAIN visible', q \in DOMAIN visible \ DOMAIN visible' : p < q
    BY <2>2, <2>3, <2>4
  <2>6. stable \subseteq DOMAIN visible'
    BY <2>2, <2>3, <2>4 DEF stable
  <2>7. stable' = DOMAIN visible'
    BY <2>1, <2>3 DEF stable
  <2>. QED  BY <2>3, <2>5, <2>6, <2>7 DEF Log!Next, Log!Crash
<1>9. ASSUME NEW o, NEW at, NEW es, Call(o, at, es)  PROVE UNCHANGED <<visible, stable>>
  BY <1>2, <1>9 DEF Call, disk
<1>10. CASE (\E e \in Event : AppendEvent(e)) \/ (\E es \in Batches : AppendMany(es))
  BY <1>9, <1>10 DEF AppendEvent, AppendMany
<1>11. CASE FlushCall \/ Sync \/ Verify \/ Close
  BY <1>9, <1>11 DEF FlushCall, Sync, Verify, Close
<1>12. CASE CheckOrder \/ WriteBuffered \/ WriteNeedsDrain \/ UseAfterWedge
  BY <1>2, <1>12 DEF CheckOrder, WriteBuffered, WriteNeedsDrain, UseAfterWedge, disk
<1>13. CASE RawWriteFails \/ Flushed \/ FsyncFails
  BY <1>2, <1>13 DEF RawWriteFails, Flushed, FsyncFails, disk
<1>14. CASE CloseFile \/ CloseFileFails \/ Kill \/ UNCHANGED vars
  BY <1>2, <1>14 DEF CloseFile, CloseFileFails, Kill, vars, disk
<1>. QED
  BY <1>3, <1>4, <1>5, <1>6, <1>7, <1>8, <1>10, <1>11, <1>12, <1>13, <1>14 DEF Next

(* What readers see of the ledger file is an append-only log: lines keep   *)
(* their place and content, a crash cuts only unsynced lines off its end,  *)
(* and the repair at the next open takes none away.                        *)
THEOREM ImplementsDurableLog == Spec => ReadersSeeALog
<1>1. IInv /\ [Next]_vars => [Log!Next]_<<visible, stable>>
  BY NextReadersSee
<1>. QED
  BY <1>1, InitReadersSee, Inductive, PTL DEF Spec, ReadersSeeALog, Log!Spec, Log!logVars

-----------------------------------------------------------------------------
(* What the writer believes of its file.  Behind the line numbers and the  *)
(* count of unsynced lines, which are inductive as they stand, the order   *)
(* of a strict session's lines rests on _monotonic_seen: it is at least    *)
(* the monotonic_ns of every line written, and between the check of an     *)
(* event and its write it is that event's.                                 *)
OrderInv ==
  wstate # "closed" /\ mode.strict =>
    /\ \A i, j \in (base + 1)..Len(stream) :
         i < j /\ IsEnd(stream, i) /\ IsEnd(stream, j)
           /\ StreamOf[stream[i].ev] = StreamOf[stream[j].ev]
           => MonotonicNs[stream[i].ev] <= MonotonicNs[stream[j].ev]
    /\ wstate = "open" =>
         /\ \A i \in (base + 1)..Len(stream) :
              IsEnd(stream, i) => MonotonicNs[stream[i].ev] <= seen[StreamOf[stream[i].ev]]
         /\ pc \in {"write", "drain"} => seen[StreamOf[Head(todo)]] = MonotonicNs[Head(todo)]

BookInv == RecordsLocate /\ PendingCoversUnsynced /\ OrderInv

LEMMA LineBehind ==
  ASSUME NEW f \in Seq(Piece), NEW e \in Event
  PROVE  LET g == f \o Line(e) IN
         /\ g \in Seq(Piece) /\ Len(g) = Len(f) + 2 /\ Len(f) \in Nat
         /\ \A i \in 1..Len(f) : g[i] = f[i]
         /\ g[Len(f) + 1] = HeadOf(e) /\ g[Len(f) + 2] = EndOf(e)
         /\ ~IsEnd(g, Len(f) + 1) /\ IsHead(g, Len(f) + 1)
         /\ IsEnd(g, Len(f) + 2)
         /\ \A i \in 1..Len(f) : IsEnd(g, i) <=> IsEnd(f, i)
         /\ \A i \in 1..Len(f) : IsHead(g, i) <=> IsHead(f, i)
<1> DEFINE g == f \o Line(e)
<1>1. /\ g \in Seq(Piece) /\ Len(g) = Len(f) + 2 /\ Len(f) \in Nat
      /\ \A i \in 1..(Len(f) + 2) : g[i] = IF i <= Len(f) THEN f[i] ELSE Line(e)[i - Len(f)]
  BY LineType, PieceConcat
<1> HIDE DEF g
<1>2. /\ \A i \in 1..Len(f) : g[i] = f[i]
      /\ g[Len(f) + 1] = HeadOf(e) /\ g[Len(f) + 2] = EndOf(e)
  <2> DEFINE n == Len(f)
  <2>1. n \in Nat /\ \A i \in 1..(n + 2) : g[i] = IF i <= n THEN f[i] ELSE Line(e)[i - n]
    BY <1>1
  <2> HIDE DEF n
  <2>2. \A i \in 1..n : g[i] = f[i]
    BY <2>1
  <2>3. g[n + 1] = Line(e)[1]
    <3>1. n + 1 \in 1..(n + 2) /\ ~(n + 1 <= n) /\ (n + 1) - n = 1
      BY <2>1
    <3> QED
      BY <2>1, <3>1
  <2>4. g[n + 2] = Line(e)[2]
    <3>1. n + 2 \in 1..(n + 2) /\ ~(n + 2 <= n) /\ (n + 2) - n = 2
      BY <2>1
    <3> QED
      BY <2>1, <3>1
  <2> QED
    BY <2>2, <2>3, <2>4, LineType DEF n
<1>3. HeadOf(e).part = "head" /\ EndOf(e).part = "end"
  BY DEF HeadOf, EndOf
<1> QED
  BY <1>1, <1>2, <1>3 DEF IsEnd, IsHead, g

LEMMA HeadBehind ==
  ASSUME NEW f \in Seq(Piece), NEW e \in Event
  PROVE  LET g == Append(f, HeadOf(e)) IN
         /\ g \in Seq(Piece) /\ Len(g) = Len(f) + 1 /\ Len(f) \in Nat
         /\ \A i \in 1..Len(f) : g[i] = f[i]
         /\ IsHead(g, Len(f) + 1) /\ ~IsEnd(g, Len(f) + 1)
         /\ \A i \in 1..Len(f) : IsEnd(g, i) <=> IsEnd(f, i)
         /\ \A i \in 1..Len(f) : IsHead(g, i) <=> IsHead(f, i)
<1> DEFINE g == Append(f, HeadOf(e))
<1>1. /\ g \in Seq(Piece) /\ Len(g) = Len(f) + 1 /\ Len(f) \in Nat
      /\ \A i \in 1..Len(f) : g[i] = f[i]
      /\ g[Len(f) + 1] = HeadOf(e)
  BY LineType, AppendProperties, LenProperties
<1>2. HeadOf(e).part = "head"
  BY DEF HeadOf
<1> QED
  BY <1>1, <1>2 DEF IsEnd, IsHead

LEMMA HeadOrEnd ==
  ASSUME NEW f \in Seq(Piece), NEW i \in 1..Len(f)
  PROVE  /\ IsHead(f, i) <=> ~IsEnd(f, i)
         /\ f[i].ev \in Event
<1>1. f[i] \in Piece
  BY ElementOfSeq
<1> QED
  BY <1>1 DEF Piece, IsHead, IsEnd

(* A line behind the file is one newline more, a fragment none.            *)
LEMMA NewlinesGrow ==
  ASSUME NEW f \in Seq(Piece), NEW e \in Event
  PROVE  /\ Newlines(f \o Line(e)) = Newlines(f) + 1
         /\ Newlines(Append(f, HeadOf(e))) = Newlines(f)
<1> DEFINE E(x) == {j \in 1..Len(x) : IsEnd(x, j)}
           g == f \o Line(e)
           h == Append(f, HeadOf(e))
<1>1. IsFiniteSet(E(f)) /\ Len(f) \in Nat /\ Len(f) + 2 \notin E(f)
  <2>1. IsFiniteSet(1..Len(f)) /\ Len(f) \in Nat
    BY LenProperties, FS_Interval
  <2> QED
    BY <2>1, FS_Subset
<1>2. E(g) = E(f) \cup {Len(f) + 2}
  BY LineBehind
<1>3. E(h) = E(f)
  BY HeadBehind
<1>4. Cardinality(E(f) \cup {Len(f) + 2}) = Cardinality(E(f)) + 1
  BY <1>1, FS_AddElement
<1> QED
  BY <1>2, <1>3, <1>4 DEF Newlines

(* Writing an event's line: the writer's counters move with the file.      *)
LEMMA LineBooked ==
  ASSUME IInv, BookInv, wstate = "open", pc = "write", todo # <<>>,
         stream' = stream \o Line(Head(todo)), Written(Head(todo)),
         UNCHANGED <<wstate, mode, seen, synced, base>>
  PROVE  BookInv'
<1> DEFINE e == Head(todo)
           n == Len(stream)
<1>1. /\ stream \in Seq(Piece) /\ e \in Event /\ base \in Nat /\ synced \in Nat
      /\ lineNo \in Nat /\ offset \in Nat /\ pending \in Nat
  BY PieceConcat, LenProperties, HeadTailProperties
     DEF IInv, TypeControl, TypeOK, stream
<1>2. /\ stream' \in Seq(Piece) /\ Len(stream') = n + 2 /\ n \in Nat
      /\ \A i \in 1..n : stream'[i] = stream[i]
      /\ stream'[n + 2] = EndOf(e)
      /\ ~IsEnd(stream', n + 1) /\ IsHead(stream', n + 1) /\ IsEnd(stream', n + 2)
      /\ \A i \in 1..n : IsEnd(stream', i) <=> IsEnd(stream, i)
      /\ \A i \in 1..n : IsHead(stream', i) <=> IsHead(stream, i)
  BY <1>1, LineBehind
<1>3. lineNo' = lineNo + 1 /\ offset' = offset + 2 /\ pending' = pending + 1
  BY DEF Written
<1>4. pc' \notin {"write", "drain"}
  BY DEF Written, Idle
<1>5. RecordsLocate'
  <2>1. lineNo' = Newlines(stream')
    BY <1>1, <1>3, NewlinesGrow DEF BookInv, RecordsLocate
  <2>2. offset' <= Len(stream')
    BY <1>1, <1>2, <1>3 DEF BookInv, RecordsLocate
  <2>3. ASSUME ~Fragment(stream') PROVE offset' = Len(stream')
    <3>1. ~Fragment(stream)
      BY <1>2, <2>3 DEF Fragment
    <3>2. n > 0 => IsEnd(stream, n)
      <4> SUFFICES ASSUME n > 0, ~IsEnd(stream, n) PROVE FALSE
        OBVIOUS
      <4>1. IsHead(stream', n)
        BY <1>1, <1>2, HeadOrEnd
      <4> QED
        BY <1>2, <2>3, <4>1 DEF Fragment
    <3> QED
      BY <1>2, <1>3, <3>1, <3>2 DEF BookInv, RecordsLocate
  <2> QED
    BY <2>1, <2>2, <2>3 DEF RecordsLocate
<1>6. PendingCoversUnsynced'
  <2>1. Unsynced' \subseteq Unsynced \cup {n + 2}
    <3> SUFFICES ASSUME NEW j \in Unsynced', j # n + 2 PROVE j \in Unsynced
      OBVIOUS
    <3>1. j \in 1..(n + 2) /\ j > base /\ j > synced /\ IsEnd(stream', j)
      BY <1>2 DEF Unsynced
    <3>2. j \in 1..n /\ IsEnd(stream, j)
      BY <1>2, <3>1
    <3> QED
      BY <3>1, <3>2 DEF Unsynced
  <2>2. IsFiniteSet(Unsynced)
    <3>1. IsFiniteSet(1..n)
      BY <1>2, FS_Interval
    <3> QED
      BY <3>1, FS_Subset DEF Unsynced
  <2>3. /\ IsFiniteSet(Unsynced \cup {n + 2})
        /\ Cardinality(Unsynced \cup {n + 2}) <= Cardinality(Unsynced) + 1
    <3> DEFINE U == Unsynced
    <3> HIDE DEF U, n
    <3>1. IsFiniteSet(U) /\ Cardinality(U) \in Nat
      BY <2>2, FS_CardinalityType DEF U
    <3>2. /\ IsFiniteSet(U \cup {n + 2})
          /\ Cardinality(U \cup {n + 2}) \in {Cardinality(U), Cardinality(U) + 1}
      BY <3>1, FS_AddElement
    <3> QED
      BY <3>1, <3>2 DEF U
  <2>4. Cardinality(Unsynced') <= Cardinality(Unsynced \cup {n + 2})
    BY <2>1, <2>3, FS_Subset
  <2>5. /\ Cardinality(Unsynced) \in Nat /\ Cardinality(Unsynced \cup {n + 2}) \in Nat
        /\ Cardinality(Unsynced') \in Nat
    BY <2>1, <2>2, <2>3, FS_Subset, FS_CardinalityType
  <2> QED
    BY <1>1, <1>3, <2>3, <2>4, <2>5 DEF BookInv, PendingCoversUnsynced
<1>7. OrderInv'
  <2> SUFFICES ASSUME mode.strict
               PROVE  /\ \A i, j \in (base + 1)..Len(stream') :
                           i < j /\ IsEnd(stream', i) /\ IsEnd(stream', j)
                             /\ StreamOf[stream'[i].ev] = StreamOf[stream'[j].ev]
                             => MonotonicNs[stream'[i].ev] <= MonotonicNs[stream'[j].ev]
                      /\ \A i \in (base + 1)..Len(stream') :
                           IsEnd(stream', i)
                             => MonotonicNs[stream'[i].ev] <= seen[StreamOf[stream'[i].ev]]
    BY <1>4 DEF OrderInv
  <2>1. /\ \A i, j \in (base + 1)..n :
             i < j /\ IsEnd(stream, i) /\ IsEnd(stream, j)
               /\ StreamOf[stream[i].ev] = StreamOf[stream[j].ev]
               => MonotonicNs[stream[i].ev] <= MonotonicNs[stream[j].ev]
        /\ \A i \in (base + 1)..n :
             IsEnd(stream, i) => MonotonicNs[stream[i].ev] <= seen[StreamOf[stream[i].ev]]
        /\ seen[StreamOf[e]] = MonotonicNs[e]
    BY DEF BookInv, OrderInv
  <2>2. EndOf(e).ev = e /\ MonotonicNs[e] \in Nat
    BY <1>1, EventAssumption DEF EndOf
  <2>3. ASSUME NEW i \in (base + 1)..Len(stream'), IsEnd(stream', i)
        PROVE  \/ i = n + 2 /\ stream'[i].ev = e
               \/ i \in (base + 1)..n /\ IsEnd(stream, i) /\ stream'[i] = stream[i]
    <3>1. i \in (base + 1)..n \/ i = n + 1 \/ i = n + 2
      BY <1>1, <1>2
    <3> QED
      BY <1>1, <1>2, <2>2, <2>3, <3>1
  <2> HIDE DEF e, n
  <2>4. ASSUME NEW i \in (base + 1)..Len(stream'), IsEnd(stream', i)
        PROVE  MonotonicNs[stream'[i].ev] <= seen[StreamOf[stream'[i].ev]]
    <3>1. CASE i = n + 2 /\ stream'[i].ev = e
      <4>1. MonotonicNs[e] <= seen[StreamOf[e]]
        BY <2>1, <2>2
      <4> QED
        BY <3>1, <4>1
    <3>2. CASE i \in (base + 1)..n /\ IsEnd(stream, i) /\ stream'[i] = stream[i]
      BY <2>1, <3>2
    <3> QED
      BY <2>3, <2>4, <3>1, <3>2
  <2>5. ASSUME NEW i \in (base + 1)..Len(stream'), NEW j \in (base + 1)..Len(stream'),
               i < j, IsEnd(stream', i), IsEnd(stream', j),
               StreamOf[stream'[i].ev] = StreamOf[stream'[j].ev]
        PROVE  MonotonicNs[stream'[i].ev] <= MonotonicNs[stream'[j].ev]
    <3>1. i # n + 2
      BY <1>1, <1>2, <2>5
    <3>2. i \in (base + 1)..n /\ IsEnd(stream, i) /\ stream'[i] = stream[i]
      BY <2>3, <2>5, <3>1
    <3>3. CASE j = n + 2 /\ stream'[j].ev = e
      BY <2>1, <2>4, <2>5, <3>2, <3>3
    <3>4. CASE j \in (base + 1)..n /\ IsEnd(stream, j) /\ stream'[j] = stream[j]
      BY <2>1, <2>5, <3>2, <3>4
    <3> QED
      BY <2>3, <2>5, <3>3, <3>4
  <2> QED
    BY <2>4, <2>5
<1> QED
  BY <1>5, <1>6, <1>7 DEF BookInv

(* A write that fails leaves a fragment or nothing, and the counters.      *)
LEMMA FragmentBooked ==
  ASSUME IInv, BookInv, NEW e \in Event, stream' = Append(stream, HeadOf(e)),
         UNCHANGED <<wstate, writer, synced, base>>,
         pc' \notin {"write", "drain"}
  PROVE  BookInv'
<1> DEFINE n == Len(stream)
<1>1. stream \in Seq(Piece) /\ base \in Nat /\ synced \in Nat
  BY PieceConcat, LenProperties DEF IInv, TypeControl, TypeOK, stream
<1>2. /\ stream' \in Seq(Piece) /\ Len(stream') = n + 1 /\ n \in Nat
      /\ \A i \in 1..n : stream'[i] = stream[i]
      /\ IsHead(stream', n + 1) /\ ~IsEnd(stream', n + 1)
      /\ \A i \in 1..n : IsEnd(stream', i) <=> IsEnd(stream, i)
  BY <1>1, HeadBehind
<1>3. UNCHANGED <<mode, lineNo, offset, pending, seen, wstate, synced, base>>
  BY DEF writer
<1>4. RecordsLocate'
  <2>1. Newlines(stream') = Newlines(stream)
    BY <1>1, NewlinesGrow
  <2>2. ~(Len(stream') > 0 => IsEnd(stream', Len(stream')))
    BY <1>2
  <2>3. wstate = "open" => offset \in Nat /\ offset <= n
    BY DEF BookInv, RecordsLocate, IInv, TypeControl, TypeOK
  <2> QED
    BY <1>2, <1>3, <2>1, <2>2, <2>3 DEF BookInv, RecordsLocate
<1>5. Unsynced' = Unsynced
  <2>1. ASSUME NEW j PROVE j \in Unsynced' <=> j \in Unsynced
    <3>1. j \in Unsynced' <=> /\ j \in 1..(n + 1) /\ j > base /\ j > synced
                              /\ IsEnd(stream', j)
      BY <1>2, <1>3 DEF Unsynced
    <3>2. j \in Unsynced <=> j \in 1..n /\ j > base /\ j > synced /\ IsEnd(stream, j)
      BY DEF Unsynced
    <3> QED
      BY <1>2, <3>1, <3>2
  <2> QED
    BY <2>1
<1>6. OrderInv'
  <2>1. ASSUME NEW i \in (base + 1)..Len(stream'), IsEnd(stream', i)
        PROVE  i \in (base + 1)..n /\ IsEnd(stream, i) /\ stream'[i] = stream[i]
    <3>1. i \in (base + 1)..n \/ i = n + 1
      BY <1>1, <1>2
    <3> QED
      BY <1>1, <1>2, <2>1, <3>1
  <2>2. ASSUME wstate # "closed", mode.strict
        PROVE  /\ \A i, j \in (base + 1)..Len(stream') :
                    i < j /\ IsEnd(stream', i) /\ IsEnd(stream', j)
                      /\ StreamOf[stream'[i].ev] = StreamOf[stream'[j].ev]
                      => MonotonicNs[stream'[i].ev] <= MonotonicNs[stream'[j].ev]
               /\ wstate = "open" =>
                    \A i \in (base + 1)..Len(stream') :
                      IsEnd(stream', i)
                        => MonotonicNs[stream'[i].ev] <= seen[StreamOf[stream'[i].ev]]
    <3>1. /\ \A i, j \in (base + 1)..n :
               i < j /\ IsEnd(stream, i) /\ IsEnd(stream, j)
                 /\ StreamOf[stream[i].ev] = StreamOf[stream[j].ev]
                 => MonotonicNs[stream[i].ev] <= MonotonicNs[stream[j].ev]
          /\ wstate = "open" =>
               \A i \in (base + 1)..n :
                 IsEnd(stream, i) => MonotonicNs[stream[i].ev] <= seen[StreamOf[stream[i].ev]]
      BY <2>2 DEF BookInv, OrderInv
    <3> HIDE DEF n
    <3>2. ASSUME NEW i \in (base + 1)..Len(stream'), NEW j \in (base + 1)..Len(stream'),
                 i < j, IsEnd(stream', i), IsEnd(stream', j),
                 StreamOf[stream'[i].ev] = StreamOf[stream'[j].ev]
          PROVE  MonotonicNs[stream'[i].ev] <= MonotonicNs[stream'[j].ev]
      <4>1. /\ i \in (base + 1)..n /\ IsEnd(stream, i) /\ stream'[i] = stream[i]
            /\ j \in (base + 1)..n /\ IsEnd(stream, j) /\ stream'[j] = stream[j]
        BY <2>1, <3>2
      <4> QED
        BY <3>1, <3>2, <4>1
    <3>3. ASSUME wstate = "open", NEW i \in (base + 1)..Len(stream'), IsEnd(stream', i)
          PROVE  MonotonicNs[stream'[i].ev] <= seen[StreamOf[stream'[i].ev]]
      <4>1. i \in (base + 1)..n /\ IsEnd(stream, i) /\ stream'[i] = stream[i]
        BY <2>1, <3>3
      <4> QED
        BY <3>1, <3>3, <4>1
    <3> QED
      BY <3>2, <3>3
  <2> QED
    BY <1>3, <2>2 DEF OrderInv
<1> QED
  BY <1>3, <1>4, <1>5, <1>6 DEF BookInv, PendingCoversUnsynced

(* Steps after which the file will hold the same: calls begin and end,     *)
(* buffers are drained, checks pass.                                       *)
LEMMA QuietBooked ==
  ASSUME IInv, BookInv, stream' = stream,
         UNCHANGED <<wstate, mode, lineNo, offset, pending, seen, synced, base>>,
         \/ pc' \notin {"write", "drain"}
         \/ pc \in {"write", "drain"} /\ todo' = todo
  PROVE  BookInv'
BY DEF BookInv, RecordsLocate, PendingCoversUnsynced, Unsynced, OrderInv

LEMMA ClosedBooked ==
  ASSUME wstate' = "closed"
  PROVE  BookInv'
BY DEF BookInv, RecordsLocate, PendingCoversUnsynced, OrderInv

LEMMA OpenBooked ==
  ASSUME IInv, NEW m \in Modes, NEW t \in BOOLEAN, Open(m, t)
  PROVE  BookInv'
<1>1. file \in Seq(Piece) /\ buf = <<>> /\ pc = "idle"
  BY DEF IInv, TypeControl, TypeOK, ControlInv, Open
<1>2. PICK n \in 0..Len(file) :
        /\ LastComplete(file, n) /\ file' = SubSeq(file, 1, n)
        /\ base' = n /\ lineNo' = Newlines(file') /\ offset' = n
  BY DEF Open
<1>3. file' \in Seq(Piece) /\ Len(file') = n /\ n \in Nat
  BY <1>1, <1>2, SubSeqType
<1>4. stream' = file'
  BY <1>1, <1>3, StreamOfEmptyBuffer DEF Open, stream
<1>5. pending' = 0 /\ pc' = pc
  BY DEF Open, control
<1>6. RecordsLocate'
  BY <1>2, <1>3, <1>4 DEF RecordsLocate
<1>7. PendingCoversUnsynced'
  <2>1. Unsynced' = {}
    BY <1>2, <1>3, <1>4 DEF Unsynced
  <2> QED
    BY <1>5, <2>1, FS_EmptySet DEF PendingCoversUnsynced
<1>8. OrderInv'
  BY <1>1, <1>2, <1>3, <1>4, <1>5 DEF OrderInv
<1> QED
  BY <1>6, <1>7, <1>8 DEF BookInv

(* The order check moves _monotonic_seen before the line is written.       *)
LEMMA CheckBooked ==
  ASSUME IInv, BookInv, CheckOrder
  PROVE  BookInv'
<1> DEFINE e == Head(todo)
<1>1. /\ e \in Event /\ seen \in [Stream -> Int] /\ StreamOf[e] \in Stream
      /\ MonotonicNs[e] \in Nat /\ stream \in Seq(Piece)
      /\ Len(stream) \in Nat /\ base \in Nat
  BY HeadTailProperties, EventAssumption, PieceConcat, LenProperties
     DEF IInv, TypeControl, TypeOK, ControlInv, CheckOrder, stream
<1>2. /\ stream' = stream
      /\ UNCHANGED <<wstate, mode, lineNo, offset, pending, synced, base>>
  BY DEF CheckOrder, stream, disk
<1>3. CASE seen' = seen /\ pc' \notin {"write", "drain"}
  BY <1>2, <1>3, QuietBooked
<1>4. CASE /\ ~(Late(e) /\ mode.strict) /\ pc' = "write" /\ UNCHANGED todo
           /\ seen' = IF Late(e) THEN seen
                      ELSE [seen EXCEPT ![StreamOf[e]] = MonotonicNs[e]]
  <2>1. RecordsLocate' /\ PendingCoversUnsynced'
    BY <1>2 DEF BookInv, RecordsLocate, PendingCoversUnsynced, Unsynced
  <2>2. ASSUME mode.strict, wstate # "closed" PROVE OrderInv'
    <3>1. ~Late(e)
      BY <1>4, <2>2
    <3>2. seen' = [seen EXCEPT ![StreamOf[e]] = MonotonicNs[e]] /\ seen[StreamOf[e]] <= MonotonicNs[e]
      BY <1>1, <1>4, <3>1 DEF Late
    <3>3. \A s \in Stream : seen[s] \in Int /\ seen'[s] \in Int /\ seen[s] <= seen'[s]
      BY <1>1, <3>2
    <3>4. seen'[StreamOf[e]] = MonotonicNs[e]
      BY <1>1, <3>2
    <3>5. ASSUME wstate = "open", NEW i \in (base + 1)..Len(stream), IsEnd(stream, i)
          PROVE  MonotonicNs[stream[i].ev] <= seen'[StreamOf[stream[i].ev]]
      <4>1. stream[i].ev \in Event
        BY <1>1, HeadOrEnd
      <4>2. StreamOf[stream[i].ev] \in Stream /\ MonotonicNs[stream[i].ev] \in Nat
        BY <4>1, EventAssumption
      <4>3. MonotonicNs[stream[i].ev] <= seen[StreamOf[stream[i].ev]]
        BY <2>2, <3>5 DEF BookInv, OrderInv
      <4> QED
        BY <3>3, <4>2, <4>3
    <3>6. \A i, j \in (base + 1)..Len(stream) :
            i < j /\ IsEnd(stream, i) /\ IsEnd(stream, j)
              /\ StreamOf[stream[i].ev] = StreamOf[stream[j].ev]
              => MonotonicNs[stream[i].ev] <= MonotonicNs[stream[j].ev]
      BY <2>2 DEF BookInv, OrderInv
    <3> QED
      BY <1>2, <1>4, <3>4, <3>5, <3>6 DEF OrderInv
  <2>3. ASSUME ~(mode.strict /\ wstate # "closed") PROVE OrderInv'
    BY <1>2, <2>3 DEF OrderInv
  <2> QED
    BY <2>1, <2>2, <2>3 DEF BookInv
<1> QED
  <2>1. CASE Late(e) /\ mode.strict
    <3>1. op # "none"
      BY DEF CheckOrder, IInv, TypeControl, ControlInv
    <3>2. pc' \notin {"write", "drain"}
      BY <2>1 DEF CheckOrder, Raise, Idle
    <3> QED
      BY <1>3, <2>1, <3>2 DEF CheckOrder
  <2>2. CASE ~(Late(e) /\ mode.strict)
    BY <1>4, <2>2 DEF CheckOrder
  <2> QED
    BY <2>1, <2>2

(* The writer that cannot close its file has only that file left.          *)
LEMMA WedgedBooked ==
  ASSUME IInv, BookInv, CloseFileFails
  PROVE  BookInv'
<1>1. /\ file \in Seq(Piece) /\ buf \in Seq(Piece) /\ pc = "fhclose" /\ wstate = "open"
  BY DEF IInv, TypeControl, TypeOK, ControlInv, CloseFileFails
<1>2. /\ Len(stream) = Len(file) + Len(buf) /\ Len(file) \in Nat /\ Len(buf) \in Nat
      /\ \A i \in 1..Len(file) : stream[i] = file[i]
  <2>1. /\ Len(stream) = Len(file) + Len(buf) /\ Len(file) \in Nat /\ Len(buf) \in Nat
        /\ \A i \in 1..(Len(file) + Len(buf)) :
             stream[i] = IF i <= Len(file) THEN file[i] ELSE buf[i - Len(file)]
    BY <1>1, PieceConcat DEF stream
  <2> QED
    BY <2>1
<1>3. stream' = file /\ wstate' = "wedged" /\ UNCHANGED <<mode, base>>
  BY <1>1, StreamOfEmptyBuffer DEF CloseFileFails, disk, writer, stream
<1>4. base \in Nat
  BY DEF IInv, TypeControl, TypeOK
<1>5. ASSUME mode.strict
      PROVE  \A i, j \in (base + 1)..Len(file) :
               i < j /\ IsEnd(file, i) /\ IsEnd(file, j)
                 /\ StreamOf[file[i].ev] = StreamOf[file[j].ev]
                 => MonotonicNs[file[i].ev] <= MonotonicNs[file[j].ev]
  <2>1. \A i, j \in (base + 1)..Len(stream) :
          i < j /\ IsEnd(stream, i) /\ IsEnd(stream, j)
            /\ StreamOf[stream[i].ev] = StreamOf[stream[j].ev]
            => MonotonicNs[stream[i].ev] <= MonotonicNs[stream[j].ev]
    BY <1>1, <1>5 DEF BookInv, OrderInv
  <2>2. \A i \in (base + 1)..Len(file) :
          /\ i \in (base + 1)..Len(stream) /\ stream[i] = file[i]
          /\ IsEnd(file, i) <=> IsEnd(stream, i)
    BY <1>2, <1>4 DEF IsEnd
  <2> HIDE DEF stream
  <2> QED
    BY <2>1, <2>2
<1> QED
  BY <1>3, <1>5 DEF BookInv, RecordsLocate, PendingCoversUnsynced, OrderInv

LEMMA NextBooked == IInv /\ BookInv /\ [Next]_vars => BookInv'
<1> SUFFICES ASSUME IInv, BookInv, [Next]_vars PROVE BookInv'
  OBVIOUS
<1>1. /\ file \in Seq(Piece) /\ buf \in Seq(Piece) /\ stream \in Seq(Piece)
      /\ op = "none" <=> pc = "idle"
      /\ pc = "fsync" => wstate = "open" /\ buf = <<>>
      /\ pc \in {"check", "write", "drain"} => todo # <<>>
  BY PieceConcat DEF IInv, TypeControl, TypeOK, ControlInv, stream
<1>2. ASSUME NEW m \in Modes, NEW t \in BOOLEAN, Open(m, t)  PROVE BookInv'
  BY <1>2, OpenBooked
<1>3. CASE RepairFails \/ CloseFile \/ Kill \/ PowerLoss
  BY <1>3, ClosedBooked DEF RepairFails, CloseFile, Kill, PowerLoss
<1>4. ASSUME NEW o, NEW at \in {"check", "flush"}, NEW es, Call(o, at, es)  PROVE BookInv'
  <2>1. stream' = stream /\ pc' \notin {"write", "drain"}
        /\ UNCHANGED <<wstate, mode, lineNo, offset, pending, seen, synced, base>>
    BY <1>4 DEF Call, disk, writer, stream
  <2> QED
    BY <2>1, QuietBooked
<1>5. CASE (\E e \in Event : AppendEvent(e)) \/ (\E es \in Batches : AppendMany(es))
  BY <1>4, <1>5 DEF AppendEvent, AppendMany
<1>6. CASE FlushCall \/ Sync \/ Verify \/ Close
  BY <1>4, <1>6 DEF FlushCall, Sync, Verify, Close
<1>7. CASE CheckOrder
  BY <1>7, CheckBooked
<1>8. CASE WriteBuffered
  <2>1. Head(todo) \in Event /\ todo # <<>>
    BY <1>8, WrittenTypes DEF WriteBuffered, IInv, TypeControl, ControlInv
  <2>2. stream' = stream \o Line(Head(todo))
    BY <1>1, <1>8, <2>1, LineType, PieceConcatAssoc DEF WriteBuffered, stream, disk
  <2> QED
    BY <1>8, <2>1, <2>2, LineBooked DEF WriteBuffered, disk
<1>9. CASE WriteDirect
  <2>1. Head(todo) \in Event /\ todo # <<>> /\ buf = <<>> /\ stream = file
    BY <1>1, <1>9, WrittenTypes, StreamOfEmptyBuffer DEF WriteDirect, IInv, stream
  <2>2. stream' = stream \o Line(Head(todo))
    <3>1. CASE file' = file \o Line(Head(todo)) /\ buf' = buf
      <4>1. file' \in Seq(Piece)
        BY <1>1, <2>1, <3>1, LineType, PieceConcat
      <4> QED
        BY <2>1, <3>1, <4>1, StreamOfEmptyBuffer DEF stream
    <3>2. CASE file' = Append(file, HeadOf(Head(todo))) /\ buf' = <<EndOf(Head(todo))>>
      BY <1>1, <2>1, <3>2, SplitKeepsStream DEF stream
    <3> QED
      BY <1>9, <3>1, <3>2 DEF WriteDirect
  <2> QED
    BY <1>9, <2>1, <2>2, LineBooked DEF WriteDirect
<1>10. ASSUME Raise PROVE pc' \notin {"write", "drain"}
  BY <1>10 DEF Raise, Idle
<1>11. CASE WriteDirectFails
  <2>1. Head(todo) \in Event /\ buf = <<>> /\ stream = file /\ buf' = buf
        /\ UNCHANGED <<wstate, writer, synced, base>> /\ pc' \notin {"write", "drain"}
    BY <1>1, <1>10, <1>11, HeadTailProperties, StreamOfEmptyBuffer
       DEF WriteDirectFails, stream, IInv, TypeControl, TypeOK, ControlInv
  <2>2. CASE file' = file
    <3>1. stream' = stream
      BY <2>1, <2>2 DEF stream
    <3> QED
      BY <2>1, <3>1, QuietBooked DEF writer
  <2>3. CASE file' = Append(file, HeadOf(Head(todo)))
    <3>1. file' \in Seq(Piece)
      BY <1>1, <2>1, <2>3, LineType, AppendProperties
    <3>2. stream' = Append(stream, HeadOf(Head(todo)))
      BY <2>1, <2>3, <3>1, StreamOfEmptyBuffer DEF stream
    <3> QED
      BY <2>1, <3>2, FragmentBooked
  <2> QED
    BY <1>11, <2>2, <2>3 DEF WriteDirectFails
<1>12. CASE UseAfterWedge \/ RawWriteFails \/ FsyncFails
  <2>1. stream' = stream /\ pc' \notin {"write", "drain"}
        /\ UNCHANGED <<wstate, mode, lineNo, offset, pending, seen, synced, base>>
    BY <1>10, <1>12 DEF UseAfterWedge, RawWriteFails, FsyncFails, disk, writer, stream
  <2> QED
    BY <2>1, QuietBooked
<1>13. CASE WriteNeedsDrain
  <2>1. stream' = stream /\ pc \in {"write", "drain"} /\ todo' = todo
        /\ UNCHANGED <<wstate, mode, lineNo, offset, pending, seen, synced, base>>
    BY <1>13 DEF WriteNeedsDrain, disk, writer, stream
  <2> QED
    BY <2>1, QuietBooked
<1>14. CASE RawWrite
  <2>1. PICK k \in 1..Len(buf) :
          file' = file \o SubSeq(buf, 1, k) /\ buf' = SubSeq(buf, k + 1, Len(buf))
    BY <1>14 DEF RawWrite
  <2>2. (file \o SubSeq(buf, 1, k)) \o SubSeq(buf, k + 1, Len(buf)) = file \o buf
    BY <1>1, DrainKeepsStream
  <2>3. stream' = stream
    BY <2>1, <2>2 DEF stream
  <2>4. /\ todo' = todo
        /\ UNCHANGED <<wstate, mode, lineNo, offset, pending, seen, synced, base>>
        /\ pc' \notin {"write", "drain"} \/ pc \in {"write", "drain"}
    BY <1>14 DEF RawWrite, Draining, writer
  <2> QED
    BY <2>3, <2>4, QuietBooked
<1>15. CASE Flushed
  <2>1. stream' = stream /\ pc' \notin {"write", "drain"}
        /\ UNCHANGED <<wstate, mode, lineNo, offset, pending, seen, synced, base>>
    BY <1>15 DEF Flushed, Return, Idle, disk, writer, stream
  <2> QED
    BY <2>1, QuietBooked
<1>16. CASE Fsync
  <2>1. /\ stream' = stream /\ pc' \notin {"write", "drain"} /\ stream = file
        /\ synced' = Len(file) /\ pending' = 0
        /\ UNCHANGED <<wstate, mode, lineNo, offset, seen, base>>
    BY <1>1, <1>16, StreamOfEmptyBuffer DEF Fsync, Return, Idle, stream
  <2>2. Unsynced' = {}
    BY <1>1, <2>1, LenProperties DEF Unsynced
  <2>3. PendingCoversUnsynced'
    BY <2>1, <2>2, FS_EmptySet DEF PendingCoversUnsynced
  <2>4. RecordsLocate' /\ OrderInv'
    BY <2>1 DEF BookInv, RecordsLocate, OrderInv
  <2> QED
    BY <2>3, <2>4 DEF BookInv
<1>17. CASE CloseFileFails
  BY <1>17, WedgedBooked
<1>18. CASE UNCHANGED vars
  <2>1. stream' = stream
    BY <1>18 DEF vars, stream
  <2> QED
    BY <1>18, <2>1, QuietBooked DEF vars
<1> QED
  BY <1>2, <1>3, <1>5, <1>6, <1>7, <1>8, <1>9, <1>11, <1>12, <1>13, <1>14, <1>15,
     <1>16, <1>17, <1>18 DEF Next

LEMMA InitBooked == Init => BookInv
<1> SUFFICES ASSUME Init PROVE BookInv
  OBVIOUS
<1> QED
  BY DEF Init, BookInv, RecordsLocate, PendingCoversUnsynced, OrderInv

LEMMA Booked == Spec => []BookInv
<1>1. IInv /\ BookInv /\ [Next]_vars => BookInv'
  BY NextBooked
<1> QED
  BY <1>1, InitBooked, Inductive, PTL DEF Spec

(* The line number and the offset an append hands out are those scan_ledger*)
(* will report for the line, however it was torn, drained in parts, failed *)
(* or was repaired; and the lines a strict writer wrote in one session     *)
(* never make the scanner report OUT_OF_ORDER, although _monotonic_seen    *)
(* moves before the write that may fail (ledger.py: append,                *)
(* _append_no_fsync, _last_complete_offset; scan_ledger).                  *)
THEOREM WriterKnowsItsFile == Spec => []ScannerAgrees
<1>1. IInv /\ BookInv => ScannerAgrees
  <2> SUFFICES ASSUME IInv, BookInv, wstate # "closed", mode.strict,
                      NEW i \in (base + 1)..Len(stream), NEW j \in (base + 1)..Len(stream),
                      LateAfter(stream, i, j)
               PROVE  FALSE
    BY DEF ScannerAgrees, StrictSessionOrdered, BookInv
  <2>1. /\ i < j /\ IsEnd(stream, i) /\ IsEnd(stream, j)
        /\ StreamOf[stream[i].ev] = StreamOf[stream[j].ev]
        /\ MonotonicNs[stream[j].ev] < MonotonicNs[stream[i].ev]
    BY DEF LateAfter, Kept, ValidAt
  <2>2. MonotonicNs[stream[i].ev] <= MonotonicNs[stream[j].ev]
    BY <2>1 DEF BookInv, OrderInv
  <2>3. stream \in Seq(Piece) /\ Len(stream) \in Nat /\ base \in Nat
    BY PieceConcat, LenProperties DEF IInv, TypeControl, TypeOK, stream
  <2>4. stream[i].ev \in Event /\ stream[j].ev \in Event
    BY <2>3, HeadOrEnd
  <2>5. MonotonicNs[stream[i].ev] \in Nat /\ MonotonicNs[stream[j].ev] \in Nat
    BY <2>4, EventAssumption
  <2> QED
    BY <2>1, <2>2, <2>5
<1> QED
  BY <1>1, Inductive, Booked, PTL

(* Lines of the session that a power loss could still take are all counted *)
(* in _pending_lines, so that the BATCH policy, which asks that counter    *)
(* alone, never believes more durable than is: an fsync that fails, a      *)
(* write that fails half-way and a call that raises keep the count         *)
(* (ledger.py: _maybe_fsync, _fsync_now).                                  *)
THEOREM PendingIsNoUnderestimate == Spec => []PendingCoversUnsynced
<1>1. BookInv => PendingCoversUnsynced
  BY DEF BookInv
<1> QED
  BY <1>1, Booked, PTL

-----------------------------------------------------------------------------
(* That one JsonlEventLedger at a time is on the path, which EventLedger   *)
(* takes for granted, is what WriterLock promises, for any threads and     *)
(* processes.                                                              *)

(* Where a thread holds the flock for certain, and where it may still.     *)
Holding == {"diag", "register", "init", "tail", "writing", "wedged", "unlock"}
MayHold == Holding \cup {"closefd"}

(* Where a thread's own registration may be what the registry shows.       *)
Registered == {"init", "tail", "writing", "wedged", "unlock", "closefd", "discard"}

(* What each lock word says about the threads, and what a thread's place   *)
(* says about the lock words.                                              *)
LockInv ==
  /\ \A t \in fh : place[t] \in {"tail", "writing"}
  /\ \A t \in Thread : place[t] \in Holding => flock = t
  /\ flock \notin lost \cup {NoOne} => place[flock] \in MayHold
  /\ \A t \in lost : flock = t /\ place[t] \in {"idle", "flock"}
  /\ \A p \in registry :
       p \in stuck \/ \E t \in Thread : ProcessOf[t] = p /\ place[t] \in Registered

LockIInv == LockTypeOK /\ LockInv

LEMMA InitLock == LockInit => LockIInv
  BY ThreadAssumption DEF LockInit, LockIInv, LockTypeOK, LockInv, Steps, Holding, MayHold

(* A step of one thread moves only that thread.                            *)
LEMMA LockGoto ==
  ASSUME NEW t \in Thread, NEW step \in Steps, LockTypeOK, Goto(t, step)
  PROVE  /\ place' \in [Thread -> Steps]
         /\ place'[t] = step
         /\ \A u \in Thread : u # t => place'[u] = place[u]
  BY DEF LockTypeOK, Goto

LEMMA NextLock == LockIInv /\ [LockNext]_lockVars => LockIInv'
<1> SUFFICES ASSUME LockIInv, [LockNext]_lockVars PROVE LockIInv'
  OBVIOUS
<1> USE ThreadAssumption DEF LockIInv, LockTypeOK, LockInv, Holding, MayHold, Registered, Steps, Goto
<1>1. ASSUME NEW t \in Thread, CheckRegistry(t) PROVE LockIInv'
  BY <1>1 DEF CheckRegistry
<1>2. ASSUME NEW t \in Thread, TryFlock(t) PROVE LockIInv'
  BY <1>2 DEF TryFlock
<1>3. ASSUME NEW t \in Thread, WriteOwner(t) PROVE LockIInv'
  BY <1>3 DEF WriteOwner
<1>4. ASSUME NEW t \in Thread, Register(t) PROVE LockIInv'
  BY <1>4 DEF Register
<1>5. ASSUME NEW t \in Thread, OpenLedger(t) PROVE LockIInv'
  BY <1>5 DEF OpenLedger
<1>6. ASSUME NEW t \in Thread, InspectTail(t) PROVE LockIInv'
  BY <1>6 DEF InspectTail, LeaveRegistered
<1>7. ASSUME NEW t \in Thread, CloseLedger(t) PROVE LockIInv'
  BY <1>7 DEF CloseLedger
<1>8. ASSUME NEW t \in Thread, CloseAgain(t) PROVE LockIInv'
  BY <1>8 DEF CloseAgain
<1>9. ASSUME NEW t \in Thread, Unlock(t) PROVE LockIInv'
  BY <1>9 DEF Unlock
<1>10. ASSUME NEW t \in Thread, CloseFd(t) PROVE LockIInv'
  BY <1>10 DEF CloseFd, LeaveRegistered
<1>11. ASSUME NEW t \in Thread, Discard(t) PROVE LockIInv'
  BY <1>11 DEF Discard
<1>12. ASSUME NEW p \in Process, Die(p) PROVE LockIInv'
  BY <1>12 DEF Die
<1>13. CASE UNCHANGED lockVars
  BY <1>13 DEF lockVars
<1> QED
  BY <1>1, <1>2, <1>3, <1>4, <1>5, <1>6, <1>7, <1>8, <1>9, <1>10, <1>11, <1>12,
     <1>13 DEF LockNext, Work

(* The variables keep their types (ledger.py, the lock functions).         *)
THEOREM LockTypeCorrect == LockSpec => []LockTypeOK
<1>1. LockIInv => LockTypeOK
  BY DEF LockIInv
<1> QED
  BY <1>1, InitLock, NextLock, PTL DEF LockSpec

(* At no time do two writers have the ledger file open for appending, in   *)
(* one process or in several, whatever fails in open and close.            *)
THEOREM OneWriter == LockSpec => []SoleWriter
<1>1. LockIInv => SoleWriter
  BY DEF LockIInv, LockInv, SoleWriter, LockTypeOK, Holding
<1> QED
  BY <1>1, InitLock, NextLock, PTL DEF LockSpec

(* A process none of whose threads is opening, using or closing a writer   *)
(* holds neither the flock nor a registration of the path, unless a raised *)
(* LOCK_UN or os.close made it lose the descriptor or skip the discard.    *)
THEOREM NothingStaysLocked == LockSpec => []NothingLeaked
<1>1. LockIInv => NothingLeaked
  BY ThreadAssumption
     DEF LockIInv, LockInv, NothingLeaked, LockTypeOK, Holding, MayHold, Registered
<1> QED
  BY <1>1, InitLock, NextLock, PTL DEF LockSpec
=============================================================================
