--------------------------------- MODULE Grpc ---------------------------------
(***************************************************************************)
(* Package checks/grpccheck: one call of the health service, its messages  *)
(* encoded by hand.  A frame is a sequence of bytes, its length field one  *)
(* number.                                                                 *)
(***************************************************************************)
EXTENDS Probing

GrpcConfig == [caReadable : BOOLEAN]

GrpcServer == {<<>>}

\* grpcStatus: 0 stands for OK and for a status that was not sent at all.  field: the
\* number and type byte that the answer's message begins with.
GrpcScale == [connects |-> Bool, grpcStatus |-> <<0, 12, 5, 14>>, serving |-> <<1, 0, 2, 3>>,
          whole |-> Bool, field |-> <<8, 18>>]

\* Seven bits to a byte, the last without the eighth bit.
readVarint[b \in Seq(0 .. 255)] ==
  IF b = <<>> THEN [value |-> 0, ok |-> FALSE]
  ELSE IF b[1] < 128 THEN [value |-> b[1], ok |-> TRUE]
  ELSE [value |-> (b[1] % 128) + 128 * readVarint[Tail(b)].value, ok |-> readVarint[Tail(b)].ok]

\* What the server sends, its last byte perhaps lost; the empty message stands for
\* the status zero.
Frame(o) ==
  LET msg == IF o.field = 8 /\ o.serving = 0 THEN <<>> ELSE <<o.field, o.serving>>
      frame == <<0, Len(msg)>> \o msg
  IN  IF o.whole THEN frame ELSE Front(frame)

\* A field that is not the status is not skipped.
decodeHealthResponse(frame) ==
  LET msg == SubSeq(frame, 3, Len(frame))
      varint == readVarint[Tail(msg)]
  IN  IF Len(frame) < 2 \/ frame[2] > Len(msg) THEN [status |-> 0, ok |-> FALSE]
      ELSE IF msg = <<>> THEN [status |-> 0, ok |-> TRUE]
      ELSE [status |-> varint.value, ok |-> msg[1] = 8 /\ varint.ok]

ofGrpcStatus(n) == CASE n = 12 -> "WARN" [] n = 5 -> "BAD" [] OTHER -> "ERROR"
ofServing(n)    == CASE n = 1 -> "OK" [] n \in {2, 3} -> "BAD" [] OTHER -> "WARN"

GrpcProbe(c, o) ==
  LET answer == decodeHealthResponse(Frame(o))
  IN  FirstOf(<<Error(~c.caReadable \/ ~o.connects),
                IF o.grpcStatus # 0 THEN ofGrpcStatus(o.grpcStatus) ELSE "OK",
                Error(~answer.ok),
                ofServing(answer.status)>>)

GrpcRun(c, o) == Say("given", Absent, GrpcProbe(c, o))
=============================================================================
