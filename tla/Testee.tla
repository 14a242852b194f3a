-------------------------------- MODULE Testee --------------------------------
(***************************************************************************)
(* cmd/entid-testee: the loop that reads one framed request on standard    *)
(* input, writes one framed response on standard output, and repeats; and  *)
(* the conformance runner at the other end of the two pipes, as            *)
(* spec/testee.proto requires it to behave.  The runner is external: it    *)
(* may close its end between two exchanges, and it may die anywhere.       *)
(*                                                                         *)
(* Bytes travel through bounded pipes and through the bufio buffers of the *)
(* testee, in pieces of any size.  A byte is known by the message it       *)
(* belongs to and its position in it; what a request says is abstracted to *)
(* the length its header announces and to whether its body decodes.        *)
(***************************************************************************)
EXTENDS Naturals, SequencesExt

CONSTANTS
  HeaderBytes,    (* bytes of a length header                              *)
  MaxFrame,       (* largest message accepted                              *)
  Bodies,         (* lengths of the bodies the runner sends                *)
  Answers,        (* lengths of the responses the engine may produce       *)
  PipeCapacity,   (* bytes a pipe holds                                    *)
  ReadBuffer,     (* bytes of the bufio.Reader                             *)
  WriteBuffer,    (* bytes of the bufio.Writer                             *)
  MaxExchanges    (* bound on the requests the runner sends                *)

ASSUME TesteeAssumption ==
  /\ { HeaderBytes, PipeCapacity, ReadBuffer, WriteBuffer } \subseteq Nat \ {0}
  /\ { MaxFrame, MaxExchanges } \subseteq Nat
  /\ Bodies \subseteq Nat /\ Answers \subseteq Nat

VARIABLES
  runner,     (* what the runner is doing                                  *)
  requests,   (* the requests it has begun to send, in order               *)
  written,    (* how much of the last one is in the pipe                   *)
  stdin,      (* the pipe from the runner to the testee                    *)
  pc,         (* where the testee is in serve()                            *)
  inbuf,      (* the bufio.Reader: read from the pipe, not yet consumed    *)
  have,       (* what readFrame has of the header, or of the body          *)
  size,       (* the length the header announced                           *)
  answers,    (* the lengths of the responses produced, in order           *)
  toSend,     (* what writeFrame has still to hand to the bufio.Writer     *)
  outbuf,     (* the bufio.Writer: written, not yet in the pipe            *)
  stdout,     (* the pipe from the testee to the runner                    *)
  got,        (* every byte the runner has read                            *)
  exit        (* the exit status of the testee                             *)

runnerVars == <<runner, requests, written, got>>
readerVars == <<inbuf, have, size>>
writerVars == <<answers, toSend, outbuf>>
vars == <<runner, requests, written, stdin, pc, inbuf, have, size, answers,
          toSend, outbuf, stdout, got, exit>>

Request == [size : Bodies, decodes : BOOLEAN]
WireByte == [of : Nat, at : Nat]

(* The bytes of message number i, header included.                         *)
Frame(i, length) ==
  [k \in 1 .. HeaderBytes + length |-> [of |-> i, at |-> k]]

LastRequest == Frame(Len(requests), requests[Len(requests)].size)

Init ==
  /\ runner = "idle"
  /\ requests = <<>> /\ written = 0
  /\ stdin = <<>> /\ stdout = <<>>
  /\ pc = "header"
  /\ inbuf = <<>> /\ have = <<>> /\ size = 0
  /\ answers = <<>> /\ toSend = <<>> /\ outbuf = <<>>
  /\ got = <<>>
  /\ exit = "running"

-----------------------------------------------------------------------------
(***************************************************************************)
(* The runner: one request, then exactly one response.                     *)
(***************************************************************************)

InputEnded == runner \in { "closed", "died" }

RunnerBegins ==
  /\ runner = "idle"
  /\ Len(requests) < MaxExchanges
  /\ \E request \in Request : requests' = Append(requests, request)
  /\ written' = 0
  /\ runner' = "writing"
  /\ UNCHANGED <<stdin, pc, readerVars, writerVars, stdout, got, exit>>

RunnerWrites ==
  /\ runner = "writing"
  /\ \E k \in 1 .. Min({ PipeCapacity - Len(stdin), Len(LastRequest) - written }) :
       /\ stdin' = stdin \o SubSeq(LastRequest, written + 1, written + k)
       /\ written' = written + k
       /\ runner' = IF written + k = Len(LastRequest) THEN "reading" ELSE runner
  /\ UNCHANGED <<requests, pc, readerVars, writerVars, stdout, got, exit>>

(* Whether the response to the last request has been read whole.           *)
Answered(bytes) ==
  /\ Len(answers) = Len(requests)
  /\ bytes # <<>>
  /\ Last(bytes) = [of |-> Len(answers), at |-> HeaderBytes + Last(answers)]

RunnerReads ==
  /\ runner = "reading"
  /\ \E k \in 1 .. Len(stdout) :
       /\ got' = got \o SubSeq(stdout, 1, k)
       /\ stdout' = SubSeq(stdout, k + 1, Len(stdout))
       /\ runner' = IF Answered(got') THEN "idle" ELSE runner
  /\ UNCHANGED <<requests, written, stdin, pc, readerVars, writerVars, exit>>

(* Between two exchanges, or once the testee is gone, it closes the input. *)
RunnerCloses ==
  /\ \/ runner = "idle"
     \/ runner \in { "writing", "reading" } /\ exit # "running" /\ stdout = <<>>
  /\ runner' = "closed"
  /\ UNCHANGED <<requests, written, stdin, pc, readerVars, writerVars, stdout,
                 got, exit>>

(* Both its ends of the pipes are closed; what it has written stays there. *)
RunnerDies ==
  /\ ~InputEnded
  /\ runner' = "died"
  /\ UNCHANGED <<requests, written, stdin, pc, readerVars, writerVars, stdout,
                 got, exit>>

-----------------------------------------------------------------------------
(***************************************************************************)
(* The testee.                                                             *)
(***************************************************************************)

Wanted == IF pc = "header" THEN HeaderBytes ELSE size

(* readFrame waits for bytes: of the header, or of the body.               *)
Reading == exit = "running" /\ pc \in { "header", "body" } /\ Len(have) < Wanted

(* The reader's buffer is empty: one read of the pipe refills it.  A read  *)
(* at least as large as the buffer goes past it.                           *)
Fill ==
  /\ Reading
  /\ inbuf = <<>> /\ stdin # <<>>
  /\ LET missing == Wanted - Len(have)
         direct == missing >= ReadBuffer
         k == Min({ Len(stdin), IF direct THEN missing ELSE ReadBuffer })
         bytes == SubSeq(stdin, 1, k)
     IN  /\ stdin' = SubSeq(stdin, k + 1, Len(stdin))
         /\ IF direct THEN have' = have \o bytes /\ inbuf' = inbuf
            ELSE inbuf' = bytes /\ have' = have
  /\ UNCHANGED <<runnerVars, pc, size, writerVars, stdout, exit>>

Consume ==
  /\ Reading
  /\ inbuf # <<>>
  /\ LET k == Min({ Len(inbuf), Wanted - Len(have) })
     IN  /\ have' = have \o SubSeq(inbuf, 1, k)
         /\ inbuf' = SubSeq(inbuf, k + 1, Len(inbuf))
  /\ UNCHANGED <<runnerVars, stdin, pc, size, writerVars, stdout, exit>>

(* Mutant: the end of the pipe is taken for the end of what was read.      *)
EndOfPipe == Reading /\ stdin = <<>> /\ InputEnded

EndOfInput == Reading /\ inbuf = <<>> /\ stdin = <<>> /\ InputEnded

(* io.ReadFull reports io.EOF when it has read nothing, and serve takes it *)
(* for the end of the exchange.                                            *)
CleanEnd ==
  /\ EndOfInput
  /\ have = <<>>
  /\ pc' = "end"
  /\ UNCHANGED <<runnerVars, stdin, readerVars, writerVars, stdout, exit>>

(* Mutant: only a header can be cut.                                       *)
TruncatedHeader ==
  /\ EndOfInput
  /\ have # <<>> /\ pc = "header"
  /\ exit' = "failed"
  /\ UNCHANGED <<runnerVars, stdin, pc, readerVars, writerVars, stdout>>

(* It reports io.ErrUnexpectedEOF after a part.                            *)
TruncatedEnd ==
  /\ EndOfInput
  /\ have # <<>>
  /\ exit' = "failed"
  /\ UNCHANGED <<runnerVars, stdin, pc, readerVars, writerVars, stdout>>

(* The length a header announces, which covers the message alone.          *)
Announced(header) == requests[header[1].of].size

HeaderRead ==
  /\ exit = "running" /\ pc = "header" /\ Len(have) = HeaderBytes
  /\ IF Announced(have) > MaxFrame
     THEN exit' = "failed" /\ UNCHANGED <<pc, have, size>>
     ELSE /\ pc' = "body" /\ have' = <<>> /\ size' = Announced(have)
          /\ UNCHANGED exit
  /\ UNCHANGED <<runnerVars, stdin, inbuf, writerVars, stdout>>

(* The request of which have is the body; an empty one is read at once.    *)
Current == Len(answers) + 1

(* Mutant: the case identifier of the previous response is echoed.         *)
StaleResponse(length) == Frame(Len(answers), length)

(* The response echoes the identifier of the request.                      *)
Response(length) == Frame(Current, length)

(* decodeRequest refuses the body, or the engine answers it; a response    *)
(* above the limit is refused too.                                         *)
BodyRead ==
  /\ exit = "running" /\ pc = "body" /\ Len(have) = size
  /\ IF ~requests[Current].decodes
     THEN exit' = "failed" /\ UNCHANGED <<pc, have, answers, toSend>>
     ELSE \E length \in Answers :
            IF length > MaxFrame
            THEN exit' = "failed" /\ UNCHANGED <<pc, have, answers, toSend>>
            ELSE /\ answers' = Append(answers, length)
                 /\ toSend' = Response(length)
                 /\ pc' = "write" /\ have' = <<>>
                 /\ UNCHANGED exit
  /\ UNCHANGED <<runnerVars, stdin, inbuf, size, outbuf, stdout>>

(* Mutant: the response is left in the writer's buffer.                    *)
BufferWithoutFlush ==
  /\ exit = "running" /\ pc = "write"
  /\ LET k == Min({ Len(toSend), WriteBuffer - Len(outbuf) })
     IN  /\ outbuf' = outbuf \o SubSeq(toSend, 1, k)
         /\ toSend' = SubSeq(toSend, k + 1, Len(toSend))
         /\ pc' = IF k = Len(toSend) THEN "header" ELSE "spill"
  /\ UNCHANGED <<runnerVars, stdin, readerVars, answers, stdout, exit>>

(* writeFrame fills the writer's buffer, and empties it when it is full;   *)
(* serve flushes what is left.                                             *)
Buffer ==
  /\ exit = "running" /\ pc = "write"
  /\ LET k == Min({ Len(toSend), WriteBuffer - Len(outbuf) })
     IN  /\ outbuf' = outbuf \o SubSeq(toSend, 1, k)
         /\ toSend' = SubSeq(toSend, k + 1, Len(toSend))
         /\ pc' = IF k = Len(toSend) THEN "flush" ELSE "spill"
  /\ UNCHANGED <<runnerVars, stdin, readerVars, answers, stdout, exit>>

Flushing == exit = "running" /\ pc \in { "spill", "flush", "end" }

(* A write to the pipe puts in it what fits, and waits for the rest.       *)
Drain ==
  /\ Flushing
  /\ runner # "died"
  /\ LET k == Min({ Len(outbuf), PipeCapacity - Len(stdout) })
     IN  /\ k > 0
         /\ stdout' = stdout \o SubSeq(outbuf, 1, k)
         /\ outbuf' = SubSeq(outbuf, k + 1, Len(outbuf))
  /\ UNCHANGED <<runnerVars, stdin, pc, readerVars, answers, toSend, exit>>

(* Nobody reads the other end any more.                                    *)
WriteFails ==
  /\ Flushing
  /\ outbuf # <<>> /\ runner = "died"
  /\ exit' = "failed"
  /\ UNCHANGED <<runnerVars, stdin, pc, readerVars, writerVars, stdout>>

Flushed ==
  /\ Flushing
  /\ outbuf = <<>>
  /\ IF pc = "end" THEN exit' = "clean" /\ pc' = pc
     ELSE pc' = (IF pc = "spill" THEN "write" ELSE "header") /\ exit' = exit
  /\ UNCHANGED <<runnerVars, stdin, readerVars, writerVars, stdout>>

Testee ==
  \/ Fill \/ Consume \/ CleanEnd \/ TruncatedEnd \/ HeaderRead \/ BodyRead
  \/ Buffer \/ Drain \/ WriteFails \/ Flushed

(* Both programs have ended.                                               *)
Ended == InputEnded /\ exit # "running" /\ UNCHANGED vars

Next ==
  \/ RunnerBegins \/ RunnerWrites \/ RunnerReads \/ RunnerCloses \/ RunnerDies
  \/ Testee
  \/ Ended

(* The testee is one goroutine that runs until it blocks on a pipe, and a  *)
(* runner that has begun an exchange writes its request and reads the      *)
(* response; nothing obliges it to begin one, or to close its end.         *)
Fairness ==
  WF_vars(Testee) /\ WF_vars(RunnerWrites) /\ WF_vars(RunnerReads)

Spec == Init /\ [][Next]_vars /\ Fairness

-----------------------------------------------------------------------------
TypeOK ==
  /\ runner \in { "idle", "writing", "reading", "closed", "died" }
  /\ requests \in Seq(Request) /\ Len(requests) <= MaxExchanges
  /\ written \in Nat
  /\ stdin \in Seq(WireByte) /\ Len(stdin) <= PipeCapacity
  /\ stdout \in Seq(WireByte) /\ Len(stdout) <= PipeCapacity
  /\ pc \in { "header", "body", "write", "spill", "flush", "end" }
  /\ inbuf \in Seq(WireByte) /\ Len(inbuf) <= ReadBuffer
  /\ have \in Seq(WireByte) /\ size \in Nat /\ Len(have) <= Wanted
  /\ outbuf \in Seq(WireByte) /\ Len(outbuf) <= WriteBuffer
  /\ toSend \in Seq(WireByte) /\ got \in Seq(WireByte)
  /\ answers \in Seq(Nat)
  /\ exit \in { "running", "clean", "failed" }

(* Every response there has been, one after the other.                     *)
Responses == FlattenSeq([i \in 1 .. Len(answers) |-> Frame(i, answers[i])])

(* Requests are answered once each, in order, each response whole before   *)
(* the next: what the runner has read, and what is on its way to it, is    *)
(* the responses to the requests so far.  A testee that waits for the next *)
(* request, or that ended cleanly, holds nothing back ("nothing may sit in *)
(* the buffer"): it is all in the pipe or read.                            *)
LockStep ==
  /\ TypeOK
  /\ got \o stdout \o outbuf \o toSend = Responses
  /\ pc = "header" \/ exit = "clean" => got \o stdout = Responses

(* Whole requests the runner has put in the pipe.                          *)
Submitted ==
  IF requests = <<>> \/ written = Len(LastRequest)
  THEN Len(requests) ELSE Len(requests) - 1

(* The testee never answers a request it does not have in full, and does   *)
(* not report success while one it was given is unanswered.                *)
NothingUnanswered ==
  /\ Len(answers) <= Submitted
  /\ exit = "clean" => Len(answers) = Submitted

(* "A truncated frame must be refused" (main_test.go): the testee ends     *)
(* cleanly only when the runner's last request was whole.                  *)
TruncationRefused ==
  exit = "clean" => written = 0 \/ Submitted = Len(requests)

(* The runner has read all of response i.                                  *)
ReadWhole(i) ==
  i <= Len(answers) /\ [of |-> i, at |-> HeaderBytes + answers[i]] \in Range(got)

Acceptable(i) == requests[i].decodes /\ requests[i].size <= MaxFrame

(* The engine produced a response above the limit for an acceptable        *)
(* request, and the testee stopped there.                                  *)
ResponseRefused ==
  /\ exit = "failed" /\ pc = "body" /\ Len(have) = size
  /\ Acceptable(Len(requests))

(* A request that is acceptable is answered in full, unless the runner     *)
(* dies or the response is above the limit: no exchange ends with both     *)
(* sides waiting on a pipe ("removes any risk of both sides blocking on a  *)
(* full pipe", testee.proto).                                              *)
EveryRequestAnswered ==
  \A i \in 1 .. MaxExchanges :
    (Submitted >= i /\ Acceptable(i)) ~>
      (ReadWhole(i) \/ runner = "died" \/ ResponseRefused)

(* Once its input ends, the testee ends.                                   *)
EndsWithItsInput == InputEnded ~> exit # "running"
=============================================================================
