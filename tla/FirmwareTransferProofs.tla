----------------------- MODULE FirmwareTransferProofs -----------------------
(***************************************************************************)
(* For any number of writers, any image and any size of the ranges: types  *)
(* are kept and the bytes in the slot are those of the image, in order.    *)
(* For one writer, success means that the device has staged the image.     *)
(***************************************************************************)
EXTENDS FirmwareTransfer, TLAPS

(***************************************************************************)
(* The inductive invariant.  SlotInOrder alone is not inductive: it takes  *)
(* that the body of a request always starts at the byte its range names,   *)
(* and types alone do not bound the position by the end of the range.      *)
(***************************************************************************)
BodyAtOffset ==
    \A w \in Writer :
        pc[w] \in {"send", "wait"} =>
            /\ job[w].body = job[w].offset
            /\ job[w].start <= job[w].offset /\ job[w].offset < End(job[w].start)
            /\ job[w].attempt < MaxAttempts

Inv == TypeOK /\ SlotInOrder /\ BodyAtOffset

\* A range ends after its start and not after the size.
LEMMA EndBounds ==
    ASSUME NEW start \in Position, start < Size
    PROVE  End(start) \in Position /\ start < End(start)
BY SizeAssumption, ChunkSizeAssumption DEF End, Position

\* A device that was just prepared has an empty session.
LEMMA InitInv == Init => Inv
BY SizeAssumption, ChunkSizeAssumption, MaxAttemptsAssumption, BlankAssumption
   DEF Init, Inv, TypeOK, SlotInOrder, BodyAtOffset, Device, Job, Reply, NoJob, NoReply, Answer,
       Byte, Position

\* A range the device accepts extends the image in the slot.
LEMMA ExtendedInOrder ==
    ASSUME Inv, NEW w \in Writer, pc[w] = "wait", Continues(job[w]),
           NEW k \in Nat, k <= End(job[w].start) - job[w].offset
    PROVE  /\ Extended(job[w], k) \in Device
           /\ \A i \in Byte : i < Extended(job[w], k).written => Extended(job[w], k).slot[i] = i
<1> USE SizeAssumption, ChunkSizeAssumption
<1> DEFINE j == job[w]
<1>1. /\ j \in Job /\ j.body = j.offset /\ j.start \in Nat /\ j.offset \in Nat
      /\ j.start <= Size /\ j.start <= j.offset /\ j.offset < End(j.start)
      /\ j.good \in BOOLEAN
  BY DEF Inv, TypeOK, BodyAtOffset, Job, Position
<1>2. End(j.start) <= Size /\ End(j.start) \in Nat
  BY <1>1 DEF End
<1>3. j.offset + k \in Position
  BY <1>1, <1>2 DEF Position
<1>4. ASSUME NEW i \in Byte
      PROVE  Filled(dev.slot, j.offset, k, j)[i] =
                 IF j.offset <= i /\ i < j.offset + k THEN i ELSE dev.slot[i]
  BY <1>1, <1>4 DEF Filled, Byte
<1>5. Filled(dev.slot, j.offset, k, j) \in [Byte -> Byte \cup {Blank}]
  <2>1. \A i \in Byte : dev.slot[i] \in Byte \cup {Blank}
    BY DEF Inv, TypeOK, Device
  <2>2. DOMAIN Filled(dev.slot, j.offset, k, j) = Byte
    BY DEF Filled
  <2>3. ASSUME NEW i \in Byte PROVE Filled(dev.slot, j.offset, k, j)[i] \in Byte \cup {Blank}
    BY <1>4, <2>1
  <2>4. QED
    BY <2>2, <2>3 DEF Filled
<1>6. Extended(j, k) \in Device
  BY <1>1, <1>3, <1>5 DEF Extended, Device, Inv, TypeOK
<1>7. ASSUME NEW i \in Byte, i < j.offset + k
      PROVE  Filled(dev.slot, j.offset, k, j)[i] = i
  <2>1. CASE j.offset <= i
    BY <1>4, <1>7, <2>1
  <2>2. CASE i < j.offset
    BY <1>1, <1>4, <2>2 DEF Continues, Inv, SlotInOrder, Byte
  <2>3. QED
    BY <1>1, <2>1, <2>2 DEF Byte
<1>8. QED
  BY <1>6, <1>7 DEF Extended

\* The answers the device gives are answers, and leave the writers alone.
LEMMA AnswerStep ==
    ASSUME Inv, NEW w \in Writer, NEW answer \in Reply, Replies(w, answer)
    PROVE  reply' \in [Writer -> Reply] /\ UNCHANGED <<pc, job>>
BY SizeAssumption DEF Replies, Answer, Reply, Position, Inv, TypeOK

\* Whatever the device receives, or refuses, the session stays in order.
LEMMA DeviceStep == ASSUME Inv, NEW w \in Writer, DeviceActs(w) PROVE Inv'
<1> USE SizeAssumption
<1>1. ASSUME dev' \in Device, SlotInOrder', reply' \in [Writer -> Reply], UNCHANGED <<pc, job>>
      PROVE  Inv'
  BY <1>1 DEF Inv, TypeOK, BodyAtOffset
<1>2. CASE \E k \in Byte : ReceivesPart(w, k)
  <2>1. PICK k \in Byte : ReceivesPart(w, k)
    BY <1>2
  <2>2. /\ pc[w] = "wait" /\ Continues(job[w]) /\ k \in Nat
        /\ End(job[w].start) \in Int /\ job[w].offset \in Int
        /\ k <= End(job[w].start) - job[w].offset /\ dev' = Extended(job[w], k)
    BY <2>1, ChunkSizeAssumption
       DEF ReceivesPart, Waits, Byte, End, Inv, TypeOK, Job, Position
  <2>3. dev' \in Device /\ SlotInOrder'
    BY <2>2, ExtendedInOrder DEF SlotInOrder
  <2>4. reply' \in [Writer -> Reply] /\ UNCHANGED <<pc, job>>
    BY <2>1 DEF ReceivesPart, Answer, Reply, Position, Inv, TypeOK
  <2>5. QED
    BY <1>1, <2>3, <2>4
<1>3. CASE ReceivesRange(w)
  <2> DEFINE k == End(job[w].start) - job[w].offset
             s == Extended(job[w], k)
  <2>1. pc[w] = "wait" /\ Continues(job[w]) /\ k \in Nat
    BY <1>3, ChunkSizeAssumption
       DEF ReceivesRange, Waits, End, Inv, TypeOK, BodyAtOffset, Job, Position
  <2>2. s \in Device /\ \A i \in Byte : i < s.written => s.slot[i] = i
    BY <2>1, ExtendedInOrder
  <2> HIDE DEF s
  <2>3. CASE dev' = s /\ Replies(w, Answer("partial", s.written))
    <3>1. Answer("partial", s.written) \in Reply
      BY <2>2 DEF Answer, Reply, Device
    <3>2. QED
      BY <1>1, <2>2, <2>3, <3>1, AnswerStep DEF SlotInOrder
  <2>4. CASE dev' = [s EXCEPT !.staged = "written"] /\ Replies(w, Answer("written", Size))
    <3>1. Answer("written", Size) \in Reply
      BY DEF Answer, Reply, Position
    <3>2. dev' \in Device /\ SlotInOrder'
      BY <2>2, <2>4 DEF SlotInOrder, Device
    <3>3. QED
      BY <1>1, <2>4, <3>1, <3>2, AnswerStep
  <2>5. CASE /\ s.written = Size
             /\ \E n \in {0, Size} : dev' = [s EXCEPT !.staged = "none", !.written = n]
             /\ Replies(w, Answer("refused", 0))
    <3>1. Answer("refused", 0) \in Reply
      BY DEF Answer, Reply, Position
    <3>2. PICK n \in {0, Size} : dev' = [s EXCEPT !.staged = "none", !.written = n]
      BY <2>5
    <3>3. dev'.written = n /\ dev'.slot = s.slot /\ n \in Position
      BY <2>2, <3>2 DEF Device, Position
    <3>4. dev' \in Device
      BY <2>2, <3>2, <3>3 DEF Device
    <3>5. SlotInOrder'
      BY <2>2, <2>5, <3>3 DEF SlotInOrder, Byte
    <3>6. QED
      BY <1>1, <2>5, <3>1, <3>4, <3>5, AnswerStep
  <2>6. QED
    BY <1>3, <2>3, <2>4, <2>5 DEF ReceivesRange, s
<1>4. CASE ReportsPosition(w)
  <2>1. Answer("range_mismatch", dev.written) \in Reply
    BY DEF Answer, Reply, Inv, TypeOK, Device
  <2>2. QED
    BY <1>1, <1>4, <2>1, AnswerStep DEF ReportsPosition, Inv, TypeOK, SlotInOrder
<1>5. CASE Fails(w)
  <2>1. Answer("broken", 0) \in Reply /\ Answer("refused", 0) \in Reply
    BY DEF Answer, Reply, Position
  <2>2. CASE /\ dev' = dev /\ reply' = [reply EXCEPT ![w] = Answer("broken", 0)]
             /\ UNCHANGED <<pc, job>>
    BY <1>1, <2>1, <2>2 DEF Inv, TypeOK, SlotInOrder
  <2>3. CASE /\ dev' = [dev EXCEPT !.written = 0, !.staged = "none"]
             /\ Replies(w, Answer("refused", 0))
    <3>1. dev \in Device /\ dev'.written = 0 /\ 0 \in Position
      BY <2>3 DEF Inv, TypeOK, Device, Position
    <3>2. dev' \in Device
      BY <2>3, <3>1 DEF Device
    <3>3. SlotInOrder'
      BY <3>1 DEF SlotInOrder, Byte
    <3>4. QED
      BY <1>1, <2>1, <2>3, <3>2, <3>3, AnswerStep
  <2>4. QED
    BY <1>5, <2>2, <2>3 DEF Fails
<1>6. QED
  BY <1>2, <1>3, <1>4, <1>5 DEF DeviceActs

\* A writer goes from range to range, or resumes inside one.
LEMMA WriterStep == ASSUME Inv, NEW w \in Writer, WriterActs(w) PROVE Inv'
<1> USE SizeAssumption, ChunkSizeAssumption, MaxAttemptsAssumption
<1>1. NoReply \in Reply
  BY DEF NoReply, Answer, Reply, Position
<1>2. CASE \E good \in BOOLEAN : OpenStream(w, good)
  BY <1>2, EndBounds
     DEF OpenStream, StreamBlob, ChunkFrom, NoJob, Goes, Inv, TypeOK, Job, Position, SlotInOrder, BodyAtOffset
<1>3. CASE StreamFails(w)
  BY <1>3 DEF StreamFails, Goes, Inv, TypeOK, SlotInOrder, BodyAtOffset
<1>4. CASE SendRange(w)
  BY <1>1, <1>4 DEF SendRange, Goes, Inv, TypeOK, SlotInOrder, BodyAtOffset
<1>5. CASE StartsOver(w)
  BY <1>1, <1>5 DEF StartsOver, Goes, Inv, TypeOK, SlotInOrder, BodyAtOffset
<1>6. CASE HandleReply(w)
  <2>1. /\ pc[w] = "wait" /\ dev' = dev /\ reply' \in [Writer -> Reply]
    BY <1>1, <1>6 DEF HandleReply, Inv, TypeOK
  <2>2. /\ job[w] \in Job /\ job[w].body = job[w].offset
        /\ job[w].start <= job[w].offset /\ job[w].offset < End(job[w].start)
        /\ job[w].start < Size /\ job[w].attempt < MaxAttempts
        /\ End(job[w].start) \in Position
    BY <2>1 DEF Inv, TypeOK, BodyAtOffset, Job, Position, End
  <2>3. ASSUME NEW step \in {"idle", "done"}, Goes(w, step), UNCHANGED job
        PROVE  Inv'
    BY <2>1, <2>3 DEF Goes, Inv, TypeOK, SlotInOrder, BodyAtOffset
  <2>4. ASSUME NEW j \in Job, job' = [job EXCEPT ![w] = j], Goes(w, "send"),
               j.body = j.offset, j.start <= j.offset, j.offset < End(j.start),
               j.attempt < MaxAttempts
        PROVE  Inv'
    BY <2>1, <2>4 DEF Goes, Inv, TypeOK, SlotInOrder, BodyAtOffset
  <2>5. CASE RetryRange(w)
    <3>1. RetriesLeft(job[w]) =>
              /\ Retried(job[w]) \in Job /\ Retried(job[w]).attempt < MaxAttempts
              /\ Retried(job[w]).body = job[w].body /\ Retried(job[w]).offset = job[w].offset
              /\ Retried(job[w]).start = job[w].start
      BY <2>2 DEF RetriesLeft, Retried, Job
    <3>2. QED
      BY <2>2, <2>3, <2>4, <2>5, <3>1 DEF RetryRange
  <2>6. CASE Refused(w)
    BY <2>3, <2>6 DEF Refused
  <2>7. CASE NextRange(w)
    <3> DEFINE j == ChunkFrom(job[w], End(job[w].start))
    <3>1. /\ j \in Job /\ j.body = j.offset /\ j.start = j.offset /\ j.attempt = 0
          /\ j.start = End(job[w].start)
      BY <2>2 DEF ChunkFrom, Job, Position
    <3>2. j.start < Size /\ j.start \in Position
      BY <2>2, <2>7, <3>1 DEF NextRange
    <3>3. j.offset < End(j.start) /\ j.start <= j.offset
      BY <3>1, <3>2, EndBounds DEF Position
    <3>4. job' = [job EXCEPT ![w] = j] /\ Goes(w, "send") /\ j.attempt < MaxAttempts
      BY <2>7, <3>1 DEF NextRange
    <3> HIDE DEF j
    <3>5. QED
      BY <2>4, <3>1, <3>3, <3>4
  <2>8. CASE LastRange(w)
    BY <2>3, <2>8 DEF LastRange
  <2>9. CASE Resync(w)
    <3> DEFINE j == Resynced(job[w], reply[w].written)
    <3>1. CASE /\ job[w].offset <= reply[w].written /\ reply[w].written < End(job[w].start)
               /\ RetriesLeft(job[w])
      <4>1. reply[w].written \in Position
        BY DEF Inv, TypeOK, Reply
      <4>2. /\ j.body = reply[w].written /\ j.offset = reply[w].written
            /\ j.start = job[w].start /\ j.attempt = job[w].attempt + 1
        BY DEF Resynced
      <4>3. j \in Job /\ j.attempt < MaxAttempts
        <5>1. job[w].attempt + 1 < MaxAttempts /\ job[w].attempt \in 0 .. MaxAttempts
          BY <2>2, <3>1 DEF RetriesLeft, Job
        <5>2. job[w].attempt + 1 \in 0 .. MaxAttempts
          BY <5>1
        <5>3. QED
          BY <2>2, <4>1, <4>2, <5>1, <5>2 DEF Resynced, Job
      <4>4. j.start <= j.offset /\ j.offset < End(j.start)
        BY <2>2, <3>1, <4>1, <4>2 DEF Job, Position
      <4>5. QED
        <5>1. job' = [job EXCEPT ![w] = j] /\ Goes(w, "send")
          BY <2>9, <3>1 DEF Resync
        <5> HIDE DEF j
        <5>2. QED
          BY <2>4, <4>2, <4>3, <4>4, <5>1
    <3>2. QED
      BY <2>3, <2>9, <3>1 DEF Resync
  <2>10. QED
    BY <1>6, <2>5, <2>6, <2>7, <2>8, <2>9 DEF HandleReply
<1>7. QED
  BY <1>2, <1>3, <1>4, <1>5, <1>6 DEF WriterActs

\* The inductive invariant, in every behaviour.
LEMMA Invariant == Spec => []Inv
<1>1. Inv /\ [Next]_vars => Inv'
  <2>1. Inv /\ UNCHANGED vars => Inv'
    BY DEF vars, Inv, TypeOK, SlotInOrder, BodyAtOffset
  <2>2. QED
    BY <2>1, WriterStep, DeviceStep DEF Next
<1>2. QED
  BY <1>1, InitInv, PTL DEF Spec

\* Types are kept: no range, offset or position passes the size of the image.
THEOREM TypeCorrect == Spec => []TypeOK
<1>1. Inv => TypeOK
  BY DEF Inv
<1>2. QED
  BY <1>1, Invariant, PTL

\* However often ranges are cut, lost, resumed or started over, and whoever else
\* writes, the session holds the bytes of the image, each at its place.
THEOREM TransferInOrder == Spec => []SlotInOrder
<1>1. Inv => SlotInOrder
  BY DEF Inv
<1>2. QED
  BY <1>1, Invariant, PTL

(***************************************************************************)
(* Success.  With a single writer nobody else moves the session, so what   *)
(* the writer was told is still true when it acts on it.  The range at 0   *)
(* opens a session of its own, whatever the device held; a range further   *)
(* on continues a session this blob began.                                 *)
(***************************************************************************)
SingleWriter == \A v, w \in Writer : v = w

\* A session that reached the size with the bytes of the image is staged.
WholeIsStaged == dev.clean /\ dev.written = Size => dev.staged = "written"

\* Behind range 0, the session is that of the blob in hand.
OwnSession ==
    \A w \in Writer :
        pc[w] \in {"send", "wait"} /\ job[w].good /\ job[w].offset > 0 => dev.clean

\* What an answer says is so.
AnswerIsTrue ==
    \A w \in Writer :
        pc[w] = "wait" /\ job[w].good =>
            /\ reply[w].status \in {"written", "partial"} =>
                   dev.clean /\ dev.written = End(job[w].start)
            /\ reply[w].status = "range_mismatch" =>
                   reply[w].written = dev.written /\ job[w].offset > 0

StagedInv == WholeIsStaged /\ OwnSession /\ AnswerIsTrue /\ DoneIsStaged

\* Nothing is sent, answered or staged yet.
LEMMA StagedInit == Init => StagedInv
BY SizeAssumption DEF Init, StagedInv, WholeIsStaged, OwnSession, AnswerIsTrue, DoneIsStaged

\* The device takes a range, answers it, or loses it.
LEMMA StagedDevice ==
    ASSUME SingleWriter, Inv, StagedInv, NEW w \in Writer, DeviceActs(w)
    PROVE  StagedInv'
<1> USE SizeAssumption, ChunkSizeAssumption
<1> DEFINE j == job[w]
<1>1. /\ \A v \in Writer : v = w
      /\ Waits(w) /\ pc[w] = "wait" /\ UNCHANGED <<pc, job>>
  BY DEF SingleWriter, DeviceActs, ReceivesPart, ReceivesRange, ReportsPosition, Fails, Waits, Replies
<1>2. /\ j \in Job /\ j.start <= j.offset /\ j.offset < End(j.start)
      /\ j.offset \in Nat /\ End(j.start) \in Nat /\ End(j.start) <= Size
      /\ dev \in Device /\ reply \in [Writer -> Reply]
  BY <1>1 DEF Inv, TypeOK, BodyAtOffset, Job, Position, End
<1>3. ASSUME dev'.clean /\ dev'.written = Size => dev'.staged = "written",
             j.good /\ j.offset > 0 => dev'.clean,
             j.good /\ reply'[w].status \in {"written", "partial"} =>
                 dev'.clean /\ dev'.written = End(j.start),
             j.good /\ reply'[w].status = "range_mismatch" =>
                 reply'[w].written = dev'.written /\ j.offset > 0
      PROVE  StagedInv'
  BY <1>1, <1>3 DEF StagedInv, WholeIsStaged, OwnSession, AnswerIsTrue, DoneIsStaged
<1>4. j.good /\ j.offset > 0 => dev.clean
  BY <1>1 DEF StagedInv, OwnSession
<1>5. ASSUME NEW k \in Nat
      PROVE  /\ Extended(j, k).written = j.offset + k /\ Extended(j, k).staged = "writing"
             /\ Extended(j, k).clean = (j.good /\ (dev.clean \/ j.offset = 0))
  BY DEF Extended
<1>6. j.good => j.good /\ (dev.clean \/ j.offset = 0)
  BY <1>2, <1>4
<1>7. CASE \E k \in Byte : ReceivesPart(w, k)
  <2>1. PICK k \in Byte : ReceivesPart(w, k)
    BY <1>7
  <2>2. /\ k \in Nat /\ j.offset + k < End(j.start)
        /\ dev' = Extended(j, k) /\ reply'[w] = Answer("broken", 0)
    BY <1>2, <2>1 DEF ReceivesPart, Byte
  <2>3. dev'.written < Size
    BY <1>2, <1>5, <2>2
  <2>4. reply'[w].status = "broken"
    BY <2>2 DEF Answer
  <2>5. j.good => dev'.clean
    BY <1>6, <2>2 DEF Extended
  <2>6. QED
    BY <1>3, <2>3, <2>4, <2>5
<1>8. CASE ReceivesRange(w)
  <2> DEFINE k == End(j.start) - j.offset
             s == Extended(j, k)
  <2>1. k \in Nat /\ s.written = End(j.start) /\ s.clean = (j.good /\ (dev.clean \/ j.offset = 0))
    BY <1>2, <1>5
  <2>2. j.good => s.clean
    BY <1>6, <2>1
  <2> HIDE DEF s
  <2>3. CASE s.written # Size /\ dev' = s /\ Replies(w, Answer("partial", s.written))
    <3>1. reply'[w].status # "range_mismatch"
      BY <1>2, <2>3 DEF Replies, Answer
    <3>2. QED
      BY <1>3, <2>1, <2>2, <2>3, <3>1
  <2>4. CASE /\ s.written = Size /\ s.clean
             /\ dev' = [s EXCEPT !.staged = "written"]
             /\ Replies(w, Answer("written", Size))
    <3>1. reply'[w].status # "range_mismatch"
      BY <1>2, <2>4 DEF Replies, Answer
    <3>2. dev'.clean = s.clean /\ dev'.written = s.written /\ dev'.staged = "written"
      BY <2>4 DEF s, Extended
    <3>3. QED
      BY <1>3, <2>1, <2>4, <3>1, <3>2
  <2>5. CASE /\ s.written = Size /\ ~s.clean
             /\ \E n \in {0, Size} : dev' = [s EXCEPT !.staged = "none", !.written = n]
             /\ Replies(w, Answer("refused", 0))
    <3>1. reply'[w].status \in {"refused", "broken"}
      BY <1>2, <2>5 DEF Replies, Answer
    <3>2. dev'.clean = s.clean
      BY <2>5 DEF s, Extended
    <3>3. ~j.good /\ ~dev'.clean
      BY <2>2, <2>5, <3>2
    <3>4. QED
      BY <1>3, <3>3
  <2>6. QED
    BY <1>8, <2>3, <2>4, <2>5 DEF ReceivesRange, s
<1>9. CASE ReportsPosition(w)
  <2>1. dev' = dev /\ j.offset # 0
    BY <1>9 DEF ReportsPosition, Continues
  <2>2. reply'[w] \in {Answer("range_mismatch", dev.written), Answer("broken", 0)}
    BY <1>2, <1>9 DEF ReportsPosition, Replies
  <2>3. dev.clean /\ dev.written = Size => dev.staged = "written"
    BY DEF StagedInv, WholeIsStaged
  <2>4. QED
    BY <1>2, <1>3, <1>4, <2>1, <2>2, <2>3 DEF Answer
<1>10. CASE Fails(w)
  <2>1. reply'[w].status \in {"refused", "broken"}
    BY <1>2, <1>10 DEF Fails, Replies, Answer
  <2>2. dev'.clean = dev.clean /\ (dev' = dev \/ dev'.written = 0)
    BY <1>2, <1>10 DEF Fails, Device
  <2>3. dev'.clean /\ dev'.written = Size => dev'.staged = "written"
    BY <2>2 DEF StagedInv, WholeIsStaged
  <2>4. QED
    BY <1>3, <1>4, <2>1, <2>2, <2>3
<1>11. QED
  BY <1>7, <1>8, <1>9, <1>10 DEF DeviceActs

\* The writer acts on an answer that is still true.
LEMMA StagedWriter ==
    ASSUME SingleWriter, Inv, StagedInv, NEW w \in Writer, WriterActs(w)
    PROVE  StagedInv'
<1> USE SizeAssumption, ChunkSizeAssumption
<1>1. /\ \A v \in Writer : v = w
      /\ dev' = dev
      /\ pc \in [Writer -> {"idle", "send", "wait", "done"}]
      /\ job \in [Writer -> Job] /\ reply \in [Writer -> Reply]
  BY DEF SingleWriter, Inv, TypeOK, WriterActs, OpenStream, StreamFails, SendRange, HandleReply, StartsOver
<1>2. ASSUME pc'[w] \in {"send", "wait"} /\ job'[w].good /\ job'[w].offset > 0 => dev.clean,
             pc'[w] = "wait" => reply'[w].status \notin {"written", "partial", "range_mismatch"},
             pc'[w] = "done" /\ job'[w].good => dev.staged = "written"
      PROVE  StagedInv'
  BY <1>1, <1>2 DEF StagedInv, WholeIsStaged, OwnSession, AnswerIsTrue, DoneIsStaged
<1>3. pc[w] \in {"send", "wait"} /\ job[w].good /\ job[w].offset > 0 => dev.clean
  BY DEF StagedInv, OwnSession
<1>4. CASE \E good \in BOOLEAN : OpenStream(w, good)
  <2>1. pc'[w] = "send" /\ job'[w].offset = 0
    BY <1>1, <1>4 DEF OpenStream, StreamBlob, ChunkFrom, Goes
  <2>2. QED
    BY <1>2, <2>1
<1>5. CASE StreamFails(w) \/ StartsOver(w)
  <2>1. pc'[w] = "idle"
    BY <1>1, <1>5 DEF StreamFails, StartsOver, Goes
  <2>2. QED
    BY <1>2, <2>1
<1>6. CASE SendRange(w)
  <2>1. pc[w] = "send" /\ pc'[w] = "wait" /\ job' = job /\ reply'[w].status = "none"
    BY <1>1, <1>6 DEF SendRange, Goes, NoReply, Answer
  <2>2. QED
    BY <1>2, <1>3, <2>1
<1>7. CASE HandleReply(w)
  <2>1. pc[w] = "wait" /\ job[w] \in Job /\ job[w].offset \in Nat /\ End(job[w].start) \in Nat
    BY <1>1, <1>7 DEF HandleReply, Job, Position, End
  <2>2. job[w].good /\ Confirmed(w) => dev.clean /\ dev.written = End(job[w].start)
    BY <1>3, <2>1 DEF Confirmed, StagedInv, AnswerIsTrue
  <2>3. CASE RetryRange(w) \/ Refused(w)
    <3>1. pc'[w] \in {"idle", "send"} /\ job'[w].good = job[w].good /\ job'[w].offset = job[w].offset
      BY <1>1, <2>1, <2>3 DEF RetryRange, Refused, Retried, Goes, Job
    <3>2. QED
      BY <1>2, <1>3, <2>1, <3>1
  <2>4. CASE NextRange(w)
    <3>1. pc'[w] = "send" /\ job'[w].good = job[w].good
      BY <1>1, <2>4 DEF NextRange, ChunkFrom, Goes
    <3>2. QED
      BY <1>2, <2>2, <2>4, <3>1 DEF NextRange
  <2>5. CASE LastRange(w)
    <3>1. pc'[w] \in {"idle", "done"} /\ job' = job
      BY <1>1, <2>5 DEF LastRange, Goes
    <3>2. job[w].good => dev.clean /\ dev.written = Size
      BY <2>2, <2>5 DEF LastRange
    <3>3. QED
      BY <1>2, <3>1, <3>2 DEF StagedInv, WholeIsStaged
  <2>6. CASE Resync(w)
    <3>1. pc'[w] \in {"idle", "send"} /\ job'[w].good = job[w].good
      BY <1>1, <2>1, <2>6 DEF Resync, Resynced, Goes
    <3>2. job[w].good => dev.clean
      BY <1>3, <2>1, <2>6 DEF Resync, StagedInv, AnswerIsTrue
    <3>3. QED
      BY <1>2, <3>1, <3>2
  <2>7. QED
    BY <1>7, <2>3, <2>4, <2>5, <2>6 DEF HandleReply
<1>8. QED
  BY <1>4, <1>5, <1>6, <1>7 DEF WriterActs

\* With one writer, OTAWrite returns nil for the image only when the device has
\* staged all of it, whatever answers were lost on the way.
THEOREM SuccessIsStaged == ASSUME SingleWriter PROVE Spec => []DoneIsStaged
<1>1. Inv /\ StagedInv /\ [Next]_vars => StagedInv'
  <2>1. StagedInv /\ UNCHANGED vars => StagedInv'
    BY DEF vars, StagedInv, WholeIsStaged, OwnSession, AnswerIsTrue, DoneIsStaged
  <2>2. QED
    BY <2>1, StagedWriter, StagedDevice DEF Next
<1>2. StagedInv => DoneIsStaged
  BY DEF StagedInv
<1>3. QED
  BY <1>1, <1>2, StagedInit, Invariant, PTL DEF Spec

(***************************************************************************)
(* Progress.  That a transfer ends is left to TLC; what it rests on is a   *)
(* pair of numbers that every answer moves one way, within bounds: the     *)
(* start of the range goes up, or it stays and an attempt is used up.      *)
(***************************************************************************)
InTransfer(step) == step \in {"send", "wait"}

\* The range that follows, which is not empty, with all its attempts.
TakesNext(j, k) ==
    /\ k.start = End(j.start) /\ k.start < Size /\ k.start > j.start
    /\ k.offset = k.start /\ k.attempt = 0

\* The same range, from the same byte or a later one of it.
TriesAgain(j, k) ==
    /\ k.start = j.start /\ k.offset >= j.offset /\ k.offset < End(j.start)
    /\ k.attempt = j.attempt + 1 /\ k.attempt < MaxAttempts

\* While a transfer goes on it never goes back to a range that was confirmed, nor to
\* bytes of a range the device said it has ("sans retransmettre les plages deja
\* confirmees"), and each request it repeats costs one of the attempts.
OnlyForward ==
    [][\A w \in Writer :
         InTransfer(pc[w]) /\ InTransfer(pc'[w]) /\ job'[w] # job[w] =>
             TakesNext(job[w], job'[w]) \/ TriesAgain(job[w], job'[w])]_vars

\* What an answer does to the transfer of its writer.
LEMMA ForwardOnReply ==
    ASSUME Inv, NEW w \in Writer, HandleReply(w), pc'[w] = "send"
    PROVE  TakesNext(job[w], job'[w]) \/ TriesAgain(job[w], job'[w])
<1> USE SizeAssumption, ChunkSizeAssumption, MaxAttemptsAssumption
<1>1. /\ pc \in [Writer -> {"idle", "send", "wait", "done"}] /\ job \in [Writer -> Job]
      /\ reply[w].written \in Nat /\ pc[w] = "wait"
  BY DEF Inv, TypeOK, Reply, Position, HandleReply
<1>2. /\ job[w] \in Job /\ job[w].start \in Nat /\ job[w].offset \in Nat
      /\ job[w].attempt \in Nat /\ job[w].start < End(job[w].start)
      /\ job[w].offset < End(job[w].start)
  <2>1. job[w] \in Job
    BY <1>1
  <2>2. job[w].start <= job[w].offset /\ job[w].offset < End(job[w].start)
    BY <1>1 DEF Inv, BodyAtOffset
  <2>3. job[w].start \in Nat /\ job[w].offset \in Nat /\ job[w].attempt \in Nat
    BY <2>1 DEF Job, Position
  <2>4. End(job[w].start) \in Int
    BY <2>3 DEF End
  <2>5. QED
    BY <2>1, <2>2, <2>3, <2>4
<1>3. CASE RetryRange(w)
  <2>1. RetriesLeft(job[w]) /\ job'[w] = Retried(job[w])
    BY <1>1, <1>3 DEF RetryRange, Goes
  <2>2. QED
    BY <1>2, <2>1 DEF TriesAgain, RetriesLeft, Retried, Job
<1>4. CASE Refused(w)
  BY <1>1, <1>4 DEF Refused, Goes
<1>5. CASE NextRange(w)
  <2>1. job'[w] = ChunkFrom(job[w], End(job[w].start)) /\ End(job[w].start) < Size
    BY <1>1, <1>5 DEF NextRange
  <2>2. QED
    BY <1>2, <2>1 DEF TakesNext, ChunkFrom
<1>6. CASE LastRange(w)
  BY <1>1, <1>6 DEF LastRange, Goes
<1>7. CASE Resync(w)
  <2>1. /\ job'[w] = Resynced(job[w], reply[w].written) /\ RetriesLeft(job[w])
        /\ job[w].offset <= reply[w].written /\ reply[w].written < End(job[w].start)
    BY <1>1, <1>7 DEF Resync, Goes
  <2>2. QED
    BY <1>1, <1>2, <2>1 DEF TriesAgain, RetriesLeft, Resynced
<1>8. QED
  BY <1>3, <1>4, <1>5, <1>6, <1>7 DEF HandleReply

\* For any sizes, attempts and writers, whatever is answered, lost or cut: a transfer
\* that goes on goes forward.
THEOREM TransferGoesForward == Spec => OnlyForward
<1> DEFINE Forward == \A w \in Writer :
               InTransfer(pc[w]) /\ InTransfer(pc'[w]) /\ job'[w] # job[w] =>
                   TakesNext(job[w], job'[w]) \/ TriesAgain(job[w], job'[w])
<1>1. ASSUME Inv, NEW v \in Writer, DeviceActs(v) PROVE Forward
  <2>1. job' = job
    BY <1>1 DEF DeviceActs, ReceivesPart, ReceivesRange, ReportsPosition, Fails, Replies
  <2>2. QED
    BY <2>1
<1>2. ASSUME Inv, NEW v \in Writer, WriterActs(v) PROVE Forward
  <2>1. SUFFICES ASSUME NEW w \in Writer, InTransfer(pc[w]), InTransfer(pc'[w]), job'[w] # job[w]
                 PROVE  TakesNext(job[w], job'[w]) \/ TriesAgain(job[w], job'[w])
    OBVIOUS
  <2>2. /\ pc \in [Writer -> {"idle", "send", "wait", "done"}] /\ job \in [Writer -> Job]
    BY <1>2 DEF Inv, TypeOK
  <2>3. CASE \E good \in BOOLEAN : OpenStream(v, good)
    BY <2>1, <2>2, <2>3 DEF OpenStream, InTransfer
  <2>4. CASE StreamFails(v) \/ SendRange(v) \/ StartsOver(v)
    BY <2>1, <2>4 DEF StreamFails, SendRange, StartsOver
  <2>5. CASE HandleReply(v)
    <3>1. v = w /\ pc'[w] = "send"
      BY <2>1, <2>2, <2>5
         DEF HandleReply, RetryRange, Refused, NextRange, LastRange, Resync, Goes, InTransfer
    <3>2. QED
      BY <1>2, <2>5, <3>1, ForwardOnReply
  <2>6. QED
    BY <1>2, <2>3, <2>4, <2>5 DEF WriterActs
<1>3. Inv /\ [Next]_vars => [Forward]_vars
  BY <1>1, <1>2 DEF Next
<1>4. QED
  BY <1>3, Invariant, PTL DEF Spec, OnlyForward
=============================================================================
