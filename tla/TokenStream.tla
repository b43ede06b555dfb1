---------------------------- MODULE TokenStream -----------------------------
(***************************************************************************)
(* One provider invocation: execute_cancellable, TokenSink and             *)
(* CancellationHandle of crates/syllog-proxy/src/stream.rs, the adapter    *)
(* loops of the provider crates, and the tasks that read a reply:          *)
(* decode_response of crates/syllog-proxy/src/http_transport.rs and        *)
(* read_frames of crates/syllog-provider-local/src/transport.rs.           *)
(*                                                                         *)
(* The actors are the adapter task (adapter), the transport task           *)
(* (transport), the thread that cancels (notify) and the consumer, who     *)
(* reads, stops reading or drops the stream.  Two bounded channels connect *)
(* them: frames from transport to adapter, tokens from adapter to          *)
(* consumer.  A channel is closed when its receiver is dropped and ends    *)
(* when its senders are.                                                   *)
(***************************************************************************)
EXTENDS SseDecoder

CONSTANTS
  Replies,     \* what providers send: transport kind, body and exit status
  FrameCap,    \* capacity of the frame channel
  TokenCap     \* capacity of the token channel

ASSUME StreamAssumption ==
  /\ \A r \in Replies : r.kind \in {"http", "local"} /\ r.exit \in {"ok", "failed"}
  /\ FrameCap \in Nat \ {0} /\ TokenCap \in Nat \ {0} /\ MaxEvent \in Nat \ {0}

VARIABLES
  reply,      \* the provider's reply
  rest,       \* the part of the body not yet read
  dec,        \* decoder of the transport task
  out,        \* events it has decoded and not yet sent
  fail,       \* the error it sends last, or "none"
  over,       \* it has read all it will read
  transport,  \* its control point
  frames,     \* the frame channel
  adapter,    \* control point of the adapter task
  holding,    \* the token being sent
  error,      \* the error the adapter returned, or "none"
  wake,       \* the Notified future: "none", "waiting" or "woken"
  cancelled,  \* the cancellation flag
  notify,     \* cancel() has set the flag and not yet notified
  tokens,     \* the token channel
  open,       \* the consumer holds the stream
  got,        \* what the consumer received
  ended,      \* it saw the end of the stream
  expired,    \* the deadline of the invocation has passed
  late        \* tokens that entered the channel after cancel() set the flag

transportVars == <<rest, dec, out, fail, over, transport>>
adapterVars == <<adapter, holding, error, wake>>
consumerVars == <<open, got, ended>>
streamVars == <<reply, transportVars, frames, adapterVars, cancelled, notify, tokens,
                consumerVars, expired, late>>

Err(c) == [error |-> c]
Data(text) == [text |-> text]
Tok(t) == [token |-> t]
IsErr(e) == "error" \in DOMAIN e

StreamInit ==
  /\ reply \in Replies
  /\ rest = reply.body /\ dec = Decoder /\ out = <<>> /\ fail = "none" /\ over = FALSE
  /\ transport = "idle" /\ frames = <<>>
  /\ adapter = "open" /\ holding = "none" /\ error = "none" /\ wake = "none"
  /\ cancelled = FALSE /\ notify = FALSE
  /\ tokens = <<>> /\ open = TRUE /\ got = <<>> /\ ended = FALSE
  /\ expired = FALSE /\ late = 0

FramesClosed == adapter \in {"terminal", "done"}
TokenRoom == Len(tokens) < TokenCap
FrameRoom == Len(frames) < FrameCap

-----------------------------------------------------------------------------
(***************************************************************************)
(* Opening the transport: frames().await of the adapters.                  *)
(***************************************************************************)
HttpOpenFailures == {"Timeout", "Unavailable", "Authentication", "RateLimited", "Protocol"}
LocalOpenFailures == {"Timeout", "Unavailable"}
OpenFailures == IF reply.kind = "http" THEN HttpOpenFailures ELSE LocalOpenFailures

\* provider.stream returned an error: all but cancellations are reported.
LeaveWith(c) ==
  /\ error' = c
  /\ adapter' = IF c = "Cancelled" THEN "done" ELSE "terminal"

Opened ==
  /\ adapter = "open"
  /\ adapter' = "recv" /\ transport' = "read"
  /\ UNCHANGED <<reply, rest, dec, out, fail, over, frames, holding, error, wake, cancelled,
                 notify, tokens, consumerVars, expired, late>>

OpenFails ==
  /\ adapter = "open"
  /\ \E c \in OpenFailures : LeaveWith(c)
  /\ UNCHANGED <<reply, transportVars, frames, holding, wake, cancelled, notify, tokens,
                 consumerVars, expired, late>>

-----------------------------------------------------------------------------
(***************************************************************************)
(* The transport task.                                                     *)
(***************************************************************************)
\* The [DONE] markers among events, and the events in front of the first.
DoneIn(texts) == {k \in DOMAIN texts : texts[k] = <<"DONE">>}
BeforeDone(texts) ==
  LET done == DoneIn(texts)
  IN IF done = {} THEN texts
     ELSE SubSeq(texts, 1, (CHOOSE k \in done : \A j \in done : k <= j) - 1)

\* What is sent for the events of decoder d: HTTP drops the events decoded
\* together with an error, the local reader has sent them.
Emit(d) ==
  /\ dec' = d
  /\ out' = IF reply.kind = "local" THEN d.events
            ELSE IF d.error THEN <<>> ELSE BeforeDone(d.events)
  /\ transport' = "send"

Decoded(d) ==
  /\ Emit(d)
  /\ fail' = IF d.error THEN "Protocol" ELSE "none"
  /\ over' = (d.error \/ (reply.kind = "http" /\ DoneIn(d.events) # {}))

ReadChunk ==
  /\ transport = "read" /\ rest # <<>>
  /\ reply.kind = "http" => ~expired
  /\ \E n \in 1 .. Len(rest) :
       /\ rest' = SubSeq(rest, n + 1, Len(rest))
       /\ Decoded(IF reply.kind = "http" THEN Push(dec, SubSeq(rest, 1, n))
                  ELSE Read(dec, SubSeq(rest, 1, n)))
  /\ UNCHANGED <<reply, frames, adapterVars, cancelled, notify, tokens, consumerVars, expired, late>>

\* Mutant: the exit status of the local model is not looked at.
EndOfBodyIgnoringStatus(d) ==
  /\ Emit(d) /\ over' = TRUE
  /\ fail' = IF d.error THEN "Protocol" ELSE "none"

\* A local model must also have exited successfully.
EndOfBody(d) ==
  /\ Emit(d) /\ over' = TRUE
  /\ fail' = CASE d.error -> "Protocol"
               [] ~d.error /\ reply.kind = "local" /\ reply.exit = "failed" -> "Unavailable"
               [] OTHER -> "none"

ReadEof ==
  /\ transport = "read" /\ rest = <<>>
  /\ reply.kind = "http" => ~expired
  /\ EndOfBody(IF reply.kind = "http" THEN Finish(dec) ELSE ReadEnd(dec))
  /\ UNCHANGED <<reply, rest, frames, adapterVars, cancelled, notify, tokens, consumerVars, expired, late>>

\* The connection breaks, or the deadline of the HTTP client passed.
ReadFails ==
  /\ transport = "read"
  /\ transport' = "terminal" /\ over' = TRUE
  /\ fail' = IF expired /\ reply.kind = "http" THEN "Timeout" ELSE "Unavailable"
  /\ UNCHANGED <<reply, rest, dec, out, frames, adapterVars, cancelled, notify, tokens, consumerVars,
                 expired, late>>

\* timeout_at around the local reader drops it wherever it waits.
LocalDeadline ==
  /\ reply.kind = "local" /\ expired /\ transport \in {"read", "send"}
  /\ transport' = "terminal" /\ out' = <<>> /\ over' = TRUE /\ fail' = "Timeout"
  /\ UNCHANGED <<reply, rest, dec, frames, adapterVars, cancelled, notify, tokens, consumerVars,
                 expired, late>>

SendFrame ==
  /\ transport = "send" /\ out # <<>> /\ ~FramesClosed /\ FrameRoom
  /\ frames' = Append(frames, Data(Head(out))) /\ out' = Tail(out)
  /\ UNCHANGED <<reply, rest, dec, fail, over, transport, adapterVars, cancelled, notify, tokens,
                 consumerVars, expired, late>>

\* The adapter has dropped its receiver.
SendRefused ==
  /\ transport \in {"send", "terminal"} /\ FramesClosed
  /\ transport = "send" => out # <<>>
  /\ transport' = "done" /\ out' = <<>>
  /\ UNCHANGED <<reply, rest, dec, fail, over, frames, adapterVars, cancelled, notify, tokens,
                 consumerVars, expired, late>>

AllSent ==
  /\ transport = "send" /\ out = <<>>
  /\ transport' = IF ~over THEN "read" ELSE IF fail # "none" THEN "terminal" ELSE "done"
  /\ UNCHANGED <<reply, rest, dec, out, fail, over, frames, adapterVars, cancelled, notify, tokens,
                 consumerVars, expired, late>>

SendTerminalError ==
  /\ transport = "terminal" /\ ~FramesClosed /\ FrameRoom
  /\ frames' = Append(frames, Err(fail)) /\ transport' = "done"
  /\ UNCHANGED <<reply, rest, dec, out, fail, over, adapterVars, cancelled, notify, tokens,
                 consumerVars, expired, late>>

-----------------------------------------------------------------------------
(***************************************************************************)
(* The adapter task: the loop of ProviderAdapter::stream and TokenSink.    *)
(***************************************************************************)
\* The token of an event goes to the sink, one without a token is skipped.
Handle(t) ==
  CASE t = "malformed" -> LeaveWith("Protocol") /\ UNCHANGED holding
    [] t = "nothing" -> UNCHANGED <<adapter, holding, error>>
    [] OTHER -> adapter' = "check" /\ holding' = t /\ UNCHANGED error

Recv ==
  /\ adapter = "recv" /\ frames # <<>>
  /\ frames' = Tail(frames)
  /\ IF IsErr(Head(frames)) THEN LeaveWith(Head(frames).error) /\ UNCHANGED holding
     ELSE Handle(Parse(reply.kind, Head(frames).text))
  /\ UNCHANGED <<reply, transportVars, wake, cancelled, notify, tokens, consumerVars, expired, late>>

RecvEnd ==
  /\ adapter = "recv" /\ frames = <<>> /\ transport = "done"
  /\ adapter' = "done"
  /\ UNCHANGED <<reply, transportVars, frames, holding, error, wake, cancelled, notify, tokens,
                 consumerVars, expired, late>>

\* Mutant: the flag only holds while waiters are being notified.
IsCancelledWhileNotifying == notify

IsCancelled == cancelled

\* The flag is read at the start of send and again when cancelled() starts;
\* it is never reset, so one read stands for the two.
Check ==
  /\ adapter = "check"
  /\ IF IsCancelled THEN LeaveWith("Cancelled") ELSE adapter' = "enroll" /\ UNCHANGED error
  /\ UNCHANGED <<reply, transportVars, frames, holding, wake, cancelled, notify, tokens,
                 consumerVars, expired, late>>

\* notified(): from here on a notification is not lost.
Enroll ==
  /\ adapter = "enroll"
  /\ adapter' = "recheck" /\ wake' = "waiting"
  /\ UNCHANGED <<reply, transportVars, frames, holding, error, cancelled, notify, tokens,
                 consumerVars, expired, late>>

\* Mutant: the flag is not read again after enrolling.
RecheckBlindly ==
  /\ adapter = "recheck"
  /\ adapter' = "poll"
  /\ UNCHANGED <<reply, transportVars, frames, holding, error, wake, cancelled, notify, tokens,
                 consumerVars, expired, late>>

Recheck ==
  /\ adapter = "recheck"
  /\ IF IsCancelled THEN LeaveWith("Cancelled") ELSE adapter' = "poll" /\ UNCHANGED error
  /\ UNCHANGED <<reply, transportVars, frames, holding, wake, cancelled, notify, tokens,
                 consumerVars, expired, late>>

\* The biased select polls the notification first.
Poll ==
  /\ adapter = "poll"
  /\ IF wake = "woken" THEN LeaveWith("Cancelled") ELSE adapter' = "offer" /\ UNCHANGED error
  /\ UNCHANGED <<reply, transportVars, frames, holding, wake, cancelled, notify, tokens,
                 consumerVars, expired, late>>

\* Mutant: the channel is tried again when the stream was dropped.
OfferRetrying ==
  /\ adapter = "offer"
  /\ IF open /\ TokenRoom
     THEN /\ tokens' = Append(tokens, Tok(holding))
          /\ late' = late + (IF cancelled THEN 1 ELSE 0)
          /\ adapter' = "recv" /\ wake' = "none" /\ holding' = "none" /\ UNCHANGED error
     ELSE adapter' = "parked" /\ UNCHANGED <<tokens, wake, late, error, holding>>
  /\ UNCHANGED <<reply, transportVars, frames, cancelled, notify, consumerVars, expired>>

\* Then the channel.
Offer ==
  /\ adapter = "offer"
  /\ IF ~open THEN LeaveWith("Cancelled") /\ UNCHANGED <<tokens, wake, late, holding>>
     ELSE IF TokenRoom
       THEN /\ tokens' = Append(tokens, Tok(holding))
            /\ late' = late + (IF cancelled THEN 1 ELSE 0)
            /\ adapter' = "recv" /\ wake' = "none" /\ holding' = "none" /\ UNCHANGED error
     ELSE adapter' = "parked" /\ UNCHANGED <<tokens, wake, late, error, holding>>
  /\ UNCHANGED <<reply, transportVars, frames, cancelled, notify, consumerVars, expired>>

Parked ==
  /\ adapter = "parked" /\ (wake = "woken" \/ ~open \/ TokenRoom)
  /\ adapter' = "poll"
  /\ UNCHANGED <<reply, transportVars, frames, holding, error, wake, cancelled, notify, tokens,
                 consumerVars, expired, late>>

\* send_terminal: a plain send, which does not look at the cancellation.
SendTerminal ==
  /\ adapter = "terminal" /\ (~open \/ TokenRoom)
  /\ tokens' = IF open THEN Append(tokens, Err(error)) ELSE tokens
  /\ adapter' = "done"
  /\ UNCHANGED <<reply, transportVars, frames, holding, error, wake, cancelled, notify,
                 consumerVars, expired, late>>

-----------------------------------------------------------------------------
(***************************************************************************)
(* cancel(), the consumer and the clock.                                   *)
(***************************************************************************)
Cancel ==
  /\ ~cancelled
  /\ cancelled' = TRUE /\ notify' = TRUE
  /\ UNCHANGED <<reply, transportVars, frames, adapterVars, tokens, consumerVars, expired, late>>

NotifyWaiters ==
  /\ notify
  /\ notify' = FALSE
  /\ wake' = IF wake = "waiting" THEN "woken" ELSE wake
  /\ UNCHANGED <<reply, transportVars, frames, adapter, holding, error, cancelled, tokens,
                 consumerVars, expired, late>>

Receive ==
  /\ open /\ tokens # <<>>
  /\ got' = Append(got, Head(tokens)) /\ tokens' = Tail(tokens)
  /\ UNCHANGED <<reply, transportVars, frames, adapterVars, cancelled, notify, open, ended, expired, late>>

SeeEnd ==
  /\ open /\ tokens = <<>> /\ adapter = "done" /\ ~ended
  /\ ended' = TRUE
  /\ UNCHANGED <<reply, transportVars, frames, adapterVars, cancelled, notify, tokens, open, got,
                 expired, late>>

DropStream ==
  /\ open
  /\ open' = FALSE /\ tokens' = <<>>
  /\ UNCHANGED <<reply, transportVars, frames, adapterVars, cancelled, notify, got, ended, expired, late>>

Deadline ==
  /\ ~expired
  /\ expired' = TRUE
  /\ UNCHANGED <<reply, transportVars, frames, adapterVars, cancelled, notify, tokens, consumerVars, late>>

TransportStep == SendFrame \/ SendRefused \/ AllSent \/ SendTerminalError
Reading == ReadChunk \/ ReadEof \/ ReadFails \/ LocalDeadline
AdapterStep == Recv \/ RecvEnd \/ Check \/ Enroll \/ Recheck \/ Poll \/ Offer \/ Parked \/ SendTerminal

StreamNext ==
  \/ Opened \/ OpenFails \/ Reading \/ TransportStep \/ AdapterStep
  \/ Cancel \/ NotifyWaiters \/ Receive \/ SeeEnd \/ DropStream \/ Deadline

\* The runtime polls both tasks, cancel() finishes, and time passes.  Opening and
\* reading wait on the provider, but not beyond the deadline of the invocation.
StreamFairness ==
  /\ WF_streamVars(AdapterStep \/ (expired /\ (Opened \/ OpenFails)))
  /\ WF_streamVars(TransportStep \/ (expired /\ Reading))
  /\ WF_streamVars(NotifyWaiters) /\ WF_streamVars(Deadline)

StreamSpec == StreamInit /\ [][StreamNext]_streamVars /\ StreamFairness

-----------------------------------------------------------------------------
Delivered == LET t == SelectSeq(got, LAMBDA e : ~IsErr(e)) IN [k \in DOMAIN t |-> t[k].token]

\* An error is the last event of a stream, and a cancellation is not reported.
ErrorsLast == \A k \in DOMAIN got : IsErr(got[k]) => k = Len(got) /\ got[k].error # "Cancelled"

EndedQuietly == ended /\ ~cancelled /\ \A k \in DOMAIN got : ~IsErr(got[k])

\* The transport has read and sent all it will, without a failure; a local
\* model has written its whole reply and exited successfully.
NothingFailed ==
  /\ transport = "done" /\ over /\ fail = "none" /\ ~dec.error /\ out = <<>> /\ frames = <<>>
  /\ reply.kind = "local" => rest = <<>> /\ reply.exit = "ok"

\* However the reply is cut into chunks and whatever fails, the consumer gets
\* the reply's tokens in order without gaps, and an error only as the last
\* event: decode_response, read_frames, the adapters and execute_cancellable.
TokensInOrder ==
  /\ \/ Delivered = <<>>
     \/ LET expected == Expected(reply.kind, reply.body).tokens
        IN \E n \in 0 .. Len(expected) : Delivered = SubSeq(expected, 1, n)
  /\ ErrorsLast

\* A stream that ends without an error and was not cancelled is complete: no
\* failure of the body, the decoder, the local model or a deadline passes for
\* the end of the reply.
NoSilentTruncation ==
  EndedQuietly =>
    /\ Expected(reply.kind, reply.body) = [tokens |-> Delivered, clean |-> TRUE]
    /\ NothingFailed

\* After cancel() has set the flag at most one more token enters the channel:
\* the one whose send had polled the notification already.
OneTokenAfterCancel == late <= 1

InSink == adapter \in {"enroll", "recheck", "poll", "offer", "parked"}

\* cancel() gets the adapter out of TokenSink::send, also when nobody reads the
\* full channel and when the flag is set between the sink's check and its
\* registration.
SinkWakes == cancelled /\ InSink ~> ~InSink

\* Once the consumer has dropped the stream, both tasks of the invocation end.
InvocationEnds == ~open ~> adapter = "done" /\ transport \in {"idle", "done"}
=============================================================================
