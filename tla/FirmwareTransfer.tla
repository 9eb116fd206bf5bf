-------------------------- MODULE FirmwareTransfer --------------------------
(***************************************************************************)
(* The transfer of one firmware image to one device: phaseWriting streams  *)
(* the blob of the registry to PUT /ota/write, range by range              *)
(* (src/internal/agent/client.go), and checks the digest on the way        *)
(* (src/internal/oci/client.go).  A writer is a controller in phaseWriting *)
(* for the deployment; there are two of them during a rolling update.      *)
(*                                                                         *)
(*  - A byte is its offset in the image: the slot of the device remembers, *)
(*    for each position, which byte of the image was written there.        *)
(*  - A connection may break before, inside or after any range.  The       *)
(*    device serves one request at a time.                                 *)
(*  - The blob that is streamed may not be the image (good is FALSE), which*)
(*    the device finds out at the last byte, and the Core only if its last *)
(*    read meets the end of the stream.                                    *)
(*  - The device is external; what it does is the contract the client is   *)
(*    written for (range 0 opens a session, a range that starts where the  *)
(*    session is continues it, any other is a 416 with the position).      *)
(***************************************************************************)
EXTENDS Integers

CONSTANTS Writer,      \* controllers that run phaseWriting
          Size,        \* bytes of the image
          ChunkSize,   \* otaChunkSize
          MaxAttempts, \* otaChunkMaxAttempts
          Blank        \* a position of the slot nothing was written to

ASSUME SizeAssumption == Size \in Nat \ {0}
ASSUME ChunkSizeAssumption == ChunkSize \in Nat \ {0}
ASSUME MaxAttemptsAssumption == MaxAttempts \in Nat \ {0}
ASSUME BlankAssumption == Blank \notin Nat

VARIABLES dev,   \* the update session of the device
          pc,    \* what each writer does next
          job,   \* the transfer of each writer
          reply  \* the answer each writer waits for

vars == <<dev, pc, job, reply>>

Byte == 0 .. Size - 1
Position == 0 .. Size

\* clean: every byte of the session comes from a blob that is the image.
Device == [written : Position, slot : [Byte -> Byte \cup {Blank}], clean : BOOLEAN,
           staged : {"none", "writing", "written"}]

\* The range in hand starts at start; what remains of it starts at offset and
\* its body with the byte body of the blob.
Job == [start : Position, offset : Position, body : Position, attempt : 0 .. MaxAttempts,
        good : BOOLEAN]

\* Statuses of the answers; "broken" is an error of the connection.
Reply == [status : {"none", "broken", "written", "partial", "refused", "range_mismatch"},
          written : Position]

Answer(status, written) == [status |-> status, written |-> written]
NoReply == Answer("none", 0)

NoJob == [start |-> 0, offset |-> 0, body |-> 0, attempt |-> 0, good |-> TRUE]

Goes(w, step) == pc' = [pc EXCEPT ![w] = step]

(***************************************************************************)
(* Ranges                                                                  *)
(***************************************************************************)
\* Mutated form: the last range is not cut at the size.
EndUncut(start) == start + ChunkSize

\* One past the last byte of the range that starts at start.
End(start) == IF start + ChunkSize >= Size THEN Size ELSE start + ChunkSize

ChunkFrom(j, start) ==
    [start |-> start, offset |-> start, body |-> start, attempt |-> 0, good |-> j.good]

\* Mutated form: the whole range is sent again, at the new offset.
ResyncedOffsetOnly(j, written) == [j EXCEPT !.offset = written, !.attempt = @ + 1]

\* remaining = chunk[written - start:], offset = written.
Resynced(j, written) ==
    [start |-> j.start, offset |-> written, body |-> written, attempt |-> j.attempt + 1,
     good |-> j.good]

\* Mutated form: an error of the connection is not counted.
RetriedUncounted(j) == j

Retried(j) == [j EXCEPT !.attempt = @ + 1]

(***************************************************************************)
(* phaseWriting and OTAWrite                                               *)
(***************************************************************************)
\* StreamBlob asks the registry for the blob of the digest that was prepared;
\* what comes may be something else.
StreamBlob(good) == ChunkFrom([NoJob EXCEPT !.good = good], 0)

OpenStream(w, good) ==
    /\ pc[w] = "idle"
    /\ job' = [job EXCEPT ![w] = StreamBlob(good)]
    /\ Goes(w, "send")
    /\ UNCHANGED <<dev, reply>>

\* The blob ends or breaks before the range is full.
StreamFails(w) ==
    /\ pc[w] = "send" /\ job[w].attempt = 0
    /\ Goes(w, "idle")
    /\ UNCHANGED <<dev, job, reply>>

SendRange(w) ==
    /\ pc[w] = "send"
    /\ Goes(w, "wait")
    /\ reply' = [reply EXCEPT ![w] = NoReply]
    /\ UNCHANGED <<dev, job>>

RetriesLeft(j) == j.attempt + 1 < MaxAttempts

\* The same bytes again, or the transfer is given up until the next reconcile.
RetryRange(w) ==
    /\ reply[w].status = "broken"
    /\ IF RetriesLeft(job[w])
       THEN Goes(w, "send") /\ job' = [job EXCEPT ![w] = Retried(job[w])]
       ELSE Goes(w, "idle") /\ UNCHANGED job

Refused(w) ==
    /\ reply[w].status = "refused"
    /\ Goes(w, "idle")
    /\ UNCHANGED job

\* Mutated form: off by one, the range is taken for written at its last byte.
ConfirmedShort(w) ==
    \/ reply[w].status \in {"written", "partial"}
    \/ reply[w].status = "range_mismatch" /\ reply[w].written + 1 = End(job[w].start)

\* The device has the range; a 416 says so when the answer before it was lost.
Confirmed(w) ==
    \/ reply[w].status \in {"written", "partial"}
    \/ reply[w].status = "range_mismatch" /\ reply[w].written = End(job[w].start)

NextRange(w) ==
    /\ Confirmed(w)
    /\ End(job[w].start) < Size
    /\ job' = [job EXCEPT ![w] = ChunkFrom(job[w], End(job[w].start))]
    /\ Goes(w, "send")

\* BlobStream compares the digest when a read meets the end of the stream, which
\* the read of the last byte may or may not do; Err is nil until then.
Mismatch(j, eof) == eof /\ ~j.good

\* The phase goes to Activating, or starts again.
LastRange(w) ==
    /\ Confirmed(w)
    /\ End(job[w].start) = Size
    /\ \E eof \in BOOLEAN : Goes(w, IF Mismatch(job[w], eof) THEN "idle" ELSE "done")
    /\ UNCHANGED job

\* A 416 outside the range ends the transfer; inside, the rest of it is sent.
Resync(w) ==
    /\ reply[w].status = "range_mismatch" /\ ~Confirmed(w)
    /\ IF job[w].offset <= reply[w].written /\ reply[w].written < End(job[w].start)
          /\ RetriesLeft(job[w])
       THEN Goes(w, "send") /\ job' = [job EXCEPT ![w] = Resynced(job[w], reply[w].written)]
       ELSE Goes(w, "idle") /\ UNCHANGED job

HandleReply(w) ==
    /\ pc[w] = "wait"
    /\ RetryRange(w) \/ Refused(w) \/ NextRange(w) \/ LastRange(w) \/ Resync(w)
    /\ reply' = [reply EXCEPT ![w] = NoReply]
    /\ UNCHANGED dev

\* The patch to Activating fails, or the controller is replaced: the phase runs again.
StartsOver(w) ==
    /\ pc[w] # "idle"
    /\ Goes(w, "idle")
    /\ reply' = [reply EXCEPT ![w] = NoReply]
    /\ UNCHANGED <<dev, job>>

(***************************************************************************)
(* The device (external)                                                   *)
(***************************************************************************)
\* k bytes of the body of j are written at position at.
Filled(slot, at, k, j) ==
    [i \in Byte |-> IF at <= i /\ i < at + k THEN j.body + (i - at) ELSE slot[i]]

Waits(w) == pc[w] = "wait" /\ reply[w].status = "none"

Replies(w, answer) ==
    /\ \E r \in {answer, Answer("broken", 0)} : reply' = [reply EXCEPT ![w] = r]
    /\ UNCHANGED <<pc, job>>

Continues(j) == j.offset = 0 \/ j.offset = dev.written

\* The session after k more bytes of j.
Extended(j, k) ==
    [written |-> j.offset + k, slot |-> Filled(dev.slot, j.offset, k, j),
     clean |-> j.good /\ (dev.clean \/ j.offset = 0), staged |-> "writing"]

\* The connection breaks after k bytes of the range.
ReceivesPart(w, k) ==
    /\ Waits(w) /\ Continues(job[w])
    /\ k < End(job[w].start) - job[w].offset
    /\ dev' = Extended(job[w], k)
    /\ reply' = [reply EXCEPT ![w] = Answer("broken", 0)]
    /\ UNCHANGED <<pc, job>>

\* A whole range; the digest is checked after the last byte, and the session of
\* a wrong image stays where it is or is forgotten.
ReceivesRange(w) ==
    /\ Waits(w) /\ Continues(job[w])
    /\ LET s == Extended(job[w], End(job[w].start) - job[w].offset) IN
       \/ s.written # Size /\ dev' = s /\ Replies(w, Answer("partial", s.written))
       \/ /\ s.written = Size /\ s.clean
          /\ dev' = [s EXCEPT !.staged = "written"]
          /\ Replies(w, Answer("written", Size))
       \/ /\ s.written = Size /\ ~s.clean
          /\ \E n \in {0, Size} : dev' = [s EXCEPT !.staged = "none", !.written = n]
          /\ Replies(w, Answer("refused", 0))

ReportsPosition(w) ==
    /\ Waits(w) /\ ~Continues(job[w])
    /\ UNCHANGED dev
    /\ Replies(w, Answer("range_mismatch", dev.written))

\* The request never arrives, or the flash refuses it and the session is over.
Fails(w) ==
    /\ Waits(w)
    /\ \/ dev' = dev /\ reply' = [reply EXCEPT ![w] = Answer("broken", 0)] /\ UNCHANGED <<pc, job>>
       \/ dev' = [dev EXCEPT !.written = 0, !.staged = "none"] /\ Replies(w, Answer("refused", 0))

(***************************************************************************)
(* Specification                                                           *)
(***************************************************************************)
\* Prepared: no session yet.
Init ==
    /\ dev = [written |-> 0, slot |-> [i \in Byte |-> Blank], clean |-> TRUE, staged |-> "none"]
    /\ pc = [w \in Writer |-> "idle"]
    /\ job = [w \in Writer |-> NoJob]
    /\ reply = [w \in Writer |-> NoReply]

WriterActs(w) ==
    \/ \E good \in BOOLEAN : OpenStream(w, good)
    \/ StreamFails(w) \/ SendRange(w) \/ HandleReply(w) \/ StartsOver(w)

DeviceActs(w) ==
    \/ \E k \in Byte : ReceivesPart(w, k)
    \/ ReceivesRange(w) \/ ReportsPosition(w) \/ Fails(w)

Next == \E w \in Writer : WriterActs(w) \/ DeviceActs(w)

Spec == Init /\ [][Next]_vars

\* A writer goes on, and every request ends with an answer or with an error of
\* the connection.  The client has no timeout of its own for PUT /ota/write: that
\* a silent device ends as a broken connection is left to TCP.
FairSpec ==
    /\ Spec
    /\ \A w \in Writer : WF_vars(SendRange(w)) /\ WF_vars(HandleReply(w)) /\ WF_vars(DeviceActs(w))

(***************************************************************************)
(* Properties                                                              *)
(***************************************************************************)
\* Every variable keeps its type: no range, offset or position passes the size.
TypeOK ==
    /\ dev \in Device
    /\ pc \in [Writer -> {"idle", "send", "wait", "done"}]
    /\ job \in [Writer -> Job]
    /\ reply \in [Writer -> Reply]

\* Whatever is lost, cut, resumed or started over, the bytes of the session are
\* those of the image, each at its place.
SlotInOrder == \A i \in Byte : i < dev.written => dev.slot[i] = i

\* With one writer: OTAWrite returns nil for a blob that is the image only when
\* the device has staged the whole of it.
DoneIsStaged ==
    \A w \in Writer : pc[w] = "done" /\ job[w].good => dev.staged = "written"

\* A transfer ends, whatever the device answers and however often it breaks.
TransferEnds == \A w \in Writer : pc[w] \in {"send", "wait"} ~> pc[w] \in {"idle", "done"}
=============================================================================
