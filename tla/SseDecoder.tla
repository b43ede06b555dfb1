----------------------------- MODULE SseDecoder -----------------------------
(***************************************************************************)
(* Framing of provider replies: SseDecoder of                              *)
(* crates/syllog-proxy/src/http_transport.rs and the line reader of        *)
(* crates/syllog-provider-local/src/transport.rs, as functions of the      *)
(* bytes received.                                                         *)
(*                                                                         *)
(* A body is a sequence of symbols, each a run of bytes.  "da" and "ta:"   *)
(* are the halves of the field name `data:' and "u1" and "u2" the halves   *)
(* of one multi-byte character, so that a chunk may end inside either.     *)
(* "t1" and "t2" are JSON events that carry a token, "u1u2" one too,       *)
(* "meta" is a JSON event without a token, "DONE" the marker [DONE] and    *)
(* every other text is no JSON.                                            *)
(***************************************************************************)
EXTENDS Naturals, Sequences

CONSTANT MaxEvent   \* MAX_SSE_EVENT_BYTES and MAX_LOCAL_FRAME_BYTES, in symbols

Space == {"SP", "CR", "NL"}
Tokens == {"t1", "t2", "u"}

\* The bytes form UTF-8: no half of a multi-byte character stands alone.
Utf8(s) ==
  \A k \in DOMAIN s : /\ s[k] = "u1" => k < Len(s) /\ s[k + 1] = "u2"
                      /\ s[k] = "u2" => k > 1 /\ s[k - 1] = "u1"

\* Step after step over the elements of s.
Fold(Step(_, _), start, s) ==
  LET after[n \in 0 .. Len(s)] == IF n = 0 THEN start ELSE Step(after[n - 1], s[n])
  IN after[Len(s)]

Positions(s) == [k \in DOMAIN s |-> k]
Ends(s) == SelectSeq(Positions(s), LAMBDA k : s[k] = "NL")

\* The pieces of s in front of the positions cuts; what follows the last of them.
Pieces(s, cuts) ==
  [k \in DOMAIN cuts |-> SubSeq(s, IF k = 1 THEN 1 ELSE cuts[k - 1] + 1, cuts[k] - 1)]
Remainder(s, cuts) == IF cuts = <<>> THEN s ELSE SubSeq(s, cuts[Len(cuts)] + 1, Len(s))

\* The lines of s that end with a newline, without it.
Lines(s) == Pieces(s, Ends(s))
Unfinished(s) == Remainder(s, Ends(s))

WithoutCR(s) == IF s # <<>> /\ s[Len(s)] = "CR" THEN SubSeq(s, 1, Len(s) - 1) ELSE s

\* trim_end_matches('\r')
TrimCR(s) == LET keep == {k \in DOMAIN s : s[k] # "CR"}
             IN SubSeq(s, 1, IF keep = {} THEN 0 ELSE CHOOSE k \in keep : \A j \in keep : j <= k)

IsData(line) == Len(line) >= 2 /\ line[1] = "da" /\ line[2] = "ta:"
Value(line) == LET v == SubSeq(line, 3, Len(line))
               IN IF v # <<>> /\ v[1] = "SP" THEN Tail(v) ELSE v

Joined(data) == Fold(LAMBDA text, v : text \o <<"NL">> \o v, Head(data), Tail(data))

-----------------------------------------------------------------------------
(***************************************************************************)
(* SseDecoder.  `data' holds the values of the event being read, `bytes'   *)
(* their length with separators, `events' the events of the current push.  *)
(***************************************************************************)
Decoder == [pending |-> <<>>, data |-> <<>>, bytes |-> 0, events |-> <<>>, error |-> FALSE]

PushData(d, v) ==
  LET bytes == d.bytes + Len(v) + (IF d.data = <<>> THEN 0 ELSE 1)
  IN IF bytes > MaxEvent THEN [d EXCEPT !.bytes = bytes, !.error = TRUE]
     ELSE [d EXCEPT !.bytes = bytes, !.data = Append(@, v)]

\* One line; after an error nothing more is read.
PushLine(d, raw) ==
  LET line == WithoutCR(raw)
  IN IF d.error THEN d
     ELSE IF ~Utf8(line) THEN [d EXCEPT !.error = TRUE]
     ELSE IF line = <<>> /\ d.data # <<>>
       THEN [d EXCEPT !.events = Append(@, Joined(d.data)), !.data = <<>>, !.bytes = 0]
     ELSE IF IsData(line) THEN PushData(d, Value(line))
     ELSE d

\* Mutant: the events of the previous push are returned again.
PushKeepingEvents(dec, chunk) ==
  LET all == dec.pending \o chunk
  IN IF Len(all) > MaxEvent THEN [dec EXCEPT !.pending = all, !.events = <<>>, !.error = TRUE]
     ELSE Fold(PushLine, [dec EXCEPT !.pending = Unfinished(all)], Lines(all))

\* push: the limit is on what is pending, before lines are taken out of it.
Push(dec, chunk) ==
  LET all == dec.pending \o chunk
  IN IF Len(all) > MaxEvent THEN [dec EXCEPT !.pending = all, !.events = <<>>, !.error = TRUE]
     ELSE Fold(PushLine, [dec EXCEPT !.pending = Unfinished(all), !.events = <<>>], Lines(all))

\* The unterminated last line, and the event it may complete.
LastLine(d, pending) ==
  IF pending = <<>> THEN d
  ELSE IF ~Utf8(pending) THEN [d EXCEPT !.error = TRUE]
  ELSE IF IsData(TrimCR(pending)) THEN PushData(d, Value(TrimCR(pending))) ELSE d
LastEvent(d) == IF d.error \/ d.data = <<>> THEN d ELSE [d EXCEPT !.events = <<Joined(d.data)>>]

Finish(dec) == LastEvent(LastLine([dec EXCEPT !.pending = <<>>, !.events = <<>>], dec.pending))

-----------------------------------------------------------------------------
(***************************************************************************)
(* read_frames of the local transports: `events' are the lines to send,    *)
(* those before a line that is not UTF-8 included.                         *)
(***************************************************************************)
ReadLine(d, raw) ==
  LET line == WithoutCR(raw)
  IN IF d.error \/ line = <<>> THEN d
     ELSE IF ~Utf8(line) THEN [d EXCEPT !.error = TRUE]
     ELSE [d EXCEPT !.events = Append(@, line)]

Read(dec, chunk) ==
  LET all == dec.pending \o chunk
  IN IF Len(all) > MaxEvent THEN [dec EXCEPT !.pending = all, !.events = <<>>, !.error = TRUE]
     ELSE Fold(ReadLine, [dec EXCEPT !.pending = Unfinished(all), !.events = <<>>], Lines(all))

ReadEnd(dec) ==
  IF dec.pending = <<>> THEN [dec EXCEPT !.events = <<>>]
  ELSE IF ~Utf8(dec.pending) THEN [dec EXCEPT !.events = <<>>, !.error = TRUE]
  ELSE [dec EXCEPT !.events = <<dec.pending>>, !.pending = <<>>]

-----------------------------------------------------------------------------
(***************************************************************************)
(* What an adapter makes of the text of one event: a token, nothing, or a  *)
(* protocol error.  The local adapter insists on a token.                  *)
(***************************************************************************)
Trimmed(s) == LET ink == {k \in DOMAIN s : s[k] \notin Space}
              IN IF ink = {} THEN <<>>
                 ELSE SubSeq(s, CHOOSE k \in ink : \A j \in ink : k <= j,
                                CHOOSE k \in ink : \A j \in ink : j <= k)

Parse(kind, text) ==
  LET s == Trimmed(text)
  IN CASE s \in {<<"t1">>, <<"t2">>} -> s[1]
       [] s = <<"u1", "u2">> -> "u"
       [] s = <<"meta">> /\ kind = "http" -> "nothing"
       [] OTHER -> "malformed"

-----------------------------------------------------------------------------
(***************************************************************************)
(* The reference: what the whole body says, without chunks.  An event is   *)
(* made of the data lines between two empty lines.                         *)
(***************************************************************************)
AllLines(ended, unfinished) ==
  [k \in DOMAIN ended |-> WithoutCR(ended[k])]
    \o (IF unfinished = <<>> THEN <<>> ELSE <<TrimCR(unfinished)>>)

Blanks(lines) == Append(SelectSeq(Positions(lines), LAMBDA k : lines[k] = <<>>), Len(lines) + 1)
HasEvent(block) == \E k \in DOMAIN block : IsData(block[k]) \/ ~Utf8(block[k])
DataValues(data) == [k \in DOMAIN data |-> Value(data[k])]
EventText(block) ==
  IF \A k \in DOMAIN block : Utf8(block[k]) THEN Joined(DataValues(SelectSeq(block, IsData)))
  ELSE <<"not UTF-8">>
EventTexts(blocks) == [k \in DOMAIN blocks |-> EventText(blocks[k])]

TextsOf(kind, lines) ==
  IF kind = "http" THEN EventTexts(SelectSeq(Pieces(lines, Blanks(lines)), HasEvent))
  ELSE SelectSeq(lines, LAMBDA l : l # <<>>)

ParsedTexts(kind, texts) == [k \in DOMAIN texts |-> Parse(kind, texts[k])]

\* The tokens in front of the first text that is none, and whether that text,
\* if there is one, ends the reply.
ExpectedUpTo(kind, texts, read, stop) ==
  [tokens |-> SelectSeq(SubSeq(read, 1, IF stop = 0 THEN Len(read) ELSE stop - 1),
                        LAMBDA t : t \in Tokens),
   clean |-> stop = 0 \/ (kind = "http" /\ texts[stop] = <<"DONE">>)]
Malformed(read) == {k \in DOMAIN read : read[k] = "malformed"}
FirstMalformed(read) ==
  IF Malformed(read) = {} THEN 0
  ELSE CHOOSE k \in Malformed(read) : \A j \in Malformed(read) : k <= j
ExpectedFrom(kind, texts, read) == ExpectedUpTo(kind, texts, read, FirstMalformed(read))
ExpectedIn(kind, texts) == ExpectedFrom(kind, texts, ParsedTexts(kind, texts))

\* The tokens of a body and whether reading it to the end is free of errors.
Expected(kind, body) ==
  ExpectedIn(kind, TextsOf(kind, AllLines(Lines(body), Unfinished(body))))
=============================================================================
