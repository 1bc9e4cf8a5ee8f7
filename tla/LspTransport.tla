---------------------------- MODULE LspTransport ----------------------------
(* lsp_protocol.ts and lsp_bridge.ts: the connection between the Monaco client    *)
(* and the analyzer.  What the analyzer writes arrives as chunks of bytes that    *)
(* keep no frame together, and is put together by LspFrameDecoder; what the       *)
(* client writes goes through OrderedLspSender, one call at a time.               *)
(*                                                                                *)
(* A byte is a token: the length line of a header, the blank line that ends it,   *)
(* or one of the body, with the number of the frame it belongs to.                *)
EXTENDS Naturals, Sequences, SequencesExt

CONSTANTS Frames,        \* what the analyzer writes: lengths, and Bad for no length
          Bad,
          MaxChunk,      \* bound: bytes of a chunk
          MaxWrites      \* bound: messages of the client

TransportAssumption == Frames \in Seq(Nat \cup {Bad}) /\ MaxChunk \in Nat /\ MaxWrites \in Nat

VARIABLES listening,     \* the reader has its shared object
          readerClosed, writerClosed,
          stream,        \* the bytes on their way to the page
          buffer,        \* of the decoder
          delivered,     \* the frames handed to the client
          closeFired,
          queue, sending,    \* the writes that wait, and those being sent
          arrived,       \* the messages that the guest got
          outcome        \* of each write, in the order of the calls

transportVars == <<listening, readerClosed, writerClosed, stream, buffer, delivered, closeFired,
                   queue, sending, arrived, outcome>>

Bytes(i) == <<[of |-> i, at |-> "length"], [of |-> i, at |-> "blank"]>> \o
            [n \in 1..(IF Frames[i] = Bad THEN 0 ELSE Frames[i]) |-> [of |-> i, at |-> "body"]]

Init == /\ listening = FALSE /\ readerClosed = FALSE /\ writerClosed = FALSE
        /\ stream = FlattenSeq([i \in DOMAIN Frames |-> Bytes(i)])
        /\ buffer = << >> /\ delivered = << >> /\ closeFired = FALSE
        /\ queue = << >> /\ sending = {} /\ arrived = << >> /\ outcome = << >>

(* --- the reader ------------------------------------------------------------ *)

\* findHeaderEnd(), 0 when the header is incomplete.
HeaderEnd(bytes) == LET ends == {n \in DOMAIN bytes : bytes[n].at = "blank"} IN
                    IF ends = {} THEN 0 ELSE CHOOSE n \in ends : \A m \in ends : n <= m
\* What the first header of the bytes says its body takes.
BodyLength(bytes) == Frames[bytes[HeaderEnd(bytes)].of]

Complete(bytes) == /\ HeaderEnd(bytes) # 0 /\ BodyLength(bytes) # Bad
                   /\ Len(bytes) >= HeaderEnd(bytes) + BodyLength(bytes)
AfterFrame(bytes) == SubSeq(bytes, HeaderEnd(bytes) + BodyLength(bytes) + 1, Len(bytes))

\* The loop of push(), on what is left after n of the frames.
Left(bytes) == LET left[n \in Nat] == IF n = 0 THEN bytes ELSE AfterFrame(left[n - 1])
               IN left
\* How many whole frames it finds, and whether the next one is malformed.
Whole(bytes) == CHOOSE n \in 0..Len(bytes) :
                  /\ \A m \in 0..(n - 1) : Complete(Left(bytes)[m])
                  /\ ~Complete(Left(bytes)[n])
Malformed(bytes) == HeaderEnd(bytes) # 0 /\ BodyLength(bytes) = Bad

Listen ==
  /\ ~listening /\ ~readerClosed
  /\ \/ listening' = TRUE /\ UNCHANGED <<readerClosed, writerClosed>>
     \/ readerClosed' = TRUE /\ writerClosed' = TRUE /\ UNCHANGED listening \* rollbackConnection()
  /\ UNCHANGED <<stream, buffer, delivered, closeFired, queue, sending, arrived, outcome>>

\* A chunk arrives.  What push() decoded before it met a malformed frame is lost
\* with it, and the reader closes.
Receive ==
  /\ listening /\ stream # << >>
  /\ \E n \in 1..(IF Len(stream) < MaxChunk THEN Len(stream) ELSE MaxChunk) :
       LET bytes == buffer \o SubSeq(stream, 1, n)
           rest == Left(bytes)[Whole(bytes)] IN
       /\ stream' = SubSeq(stream, n + 1, Len(stream))
       /\ IF readerClosed THEN UNCHANGED <<buffer, delivered, readerClosed, closeFired>>
          ELSE IF Malformed(rest)
          THEN /\ readerClosed' = TRUE /\ closeFired' = TRUE /\ buffer' = rest /\ UNCHANGED delivered
          ELSE /\ buffer' = rest /\ UNCHANGED <<readerClosed, closeFired>>
               /\ delivered' = delivered \o
                    [k \in 1..Whole(bytes) |-> Left(bytes)[k - 1][1].of]
  /\ UNCHANGED <<listening, writerClosed, queue, sending, arrived, outcome>>

(* --- the writer ------------------------------------------------------------ *)

\* write(): refused when closed; else its send waits for the pending ones.
Write ==
  /\ Len(outcome) < MaxWrites
  /\ IF writerClosed THEN outcome' = Append(outcome, "refused") /\ UNCHANGED queue
     ELSE outcome' = Append(outcome, "pending") /\ queue' = Append(queue, Len(outcome) + 1)
  /\ UNCHANGED <<listening, readerClosed, writerClosed, stream, buffer, delivered, closeFired,
                 sending, arrived>>

\* Mutant: a message is sent though the one before it has not settled.
TurnAtOnce == queue # << >>

Turn == sending = {} /\ queue # << >>

\* The send of the next message begins: it may reach the guest at any time until
\* it settles, and does not over a closed channel.
Send ==
  /\ Turn /\ sending' = sending \cup {Head(queue)} /\ queue' = Tail(queue)
  /\ UNCHANGED <<listening, readerClosed, writerClosed, stream, buffer, delivered, closeFired,
                 arrived, outcome>>

\* A send settled; one that fails does not hold the next one back.
Sent == \E m \in sending :
  /\ sending' = sending \ {m}
  /\ \/ ~writerClosed /\ arrived' = Append(arrived, m) /\ outcome' = [outcome EXCEPT ![m] = "sent"]
     \/ outcome' = [outcome EXCEPT ![m] = "failed"] /\ UNCHANGED arrived
  /\ UNCHANGED <<listening, readerClosed, writerClosed, stream, buffer, delivered, closeFired, queue>>

\* dispose() of the connection: the reader, which tells of its end once, then the
\* writer.
Dispose ==
  /\ ~(readerClosed /\ writerClosed)
  /\ readerClosed' = TRUE /\ writerClosed' = TRUE /\ closeFired' = TRUE
  /\ UNCHANGED <<listening, stream, buffer, delivered, queue, sending, arrived, outcome>>

Next == Listen \/ Receive \/ Write \/ Send \/ Sent \/ Dispose

Spec == Init /\ [][Next]_transportVars
\* The calls of the writer's channel settle.
Fairness == WF_transportVars(Send) /\ WF_transportVars(Sent)
FairSpec == Spec /\ Fairness

(* --- properties ------------------------------------------------------------ *)

TypeOK ==
  /\ {listening, readerClosed, writerClosed, closeFired} \subseteq BOOLEAN
  /\ delivered \in Seq(DOMAIN Frames) /\ sending \subseteq 1..MaxWrites
  /\ queue \in Seq(1..MaxWrites) /\ arrived \in Seq(1..MaxWrites)
  /\ outcome \in Seq({"pending", "sent", "failed", "refused"})

\* However the bytes are cut, the client gets the frames in order, each once, and
\* while the reader is open every frame whose last byte has come: a frame that
\* waited for the next chunk would be an answer that never comes
\* (lsp_protocol.ts:41-77).
FramesWhole ==
  /\ \A i \in DOMAIN delivered : delivered[i] = i
  /\ ~readerClosed =>
       \A i \in DOMAIN Frames :
         (Frames[i] # Bad /\ \A n \in DOMAIN stream : stream[n].of > i) => i <= Len(delivered)

\* The guest gets the messages in the order of the calls: none overtakes another,
\* and one that failed is not sent later (lsp_protocol.ts:115-120).
WritesInOrder == \A i, j \in DOMAIN arrived : i < j => arrived[i] < arrived[j]

\* Every write settles, whatever became of the ones before it.
WritesSettle == \A n \in 1..MaxWrites :
  []<>(n \in DOMAIN outcome => outcome[n] # "pending")

=============================================================================
