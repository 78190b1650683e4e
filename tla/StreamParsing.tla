--------------------------- MODULE StreamParsing ---------------------------
(***************************************************************************)
(* What the proxy makes of the lines of one event stream while it passes   *)
(* them on: the parser that collects events, the merging of their usage,   *)
(* the end of reading at the terminal event, and the verdict on the whole. *)
(* The upstream sends events line by line and may stop at any line; reads  *)
(* return any number of lines; the client may leave.                       *)
(* internal/proxy/stream_processor.go.                                     *)
(***************************************************************************)
EXTENDS EventParser

CONSTANT
  MaxEvents    \* bound

VARIABLES
  sends,     \* protocol of the upstream, "nothing" after its terminal event
  wire,      \* lines sent by the upstream and not yet read
  ended,     \* "no", "eof", "broken"
  emitted,
  parser,    \* TokenParser
  apiError,  \* lastAPIError is set
  gone,      \* the client has left, the tail is drained
  unsent,    \* ghost: lines of the terminal event read or sent later than the reader stopped
  verdict,   \* "none" while reading, then what ProcessStreamWithRetry returns
  reported,  \* usage it returns
  heard      \* ghost: what was in the events that were read: open blocks, usage

streamVars == <<sends, wire, ended, emitted, parser, apiError, gone, unsent, verdict, reported, heard>>

-----------------------------------------------------------------------------
Init ==
  /\ sends \in {"claude", "responses"}
  /\ wire = << >> /\ ended = "no" /\ emitted = 0
  /\ parser = NewTokenParser
  /\ apiError = FALSE /\ gone = FALSE /\ unsent = FALSE
  /\ verdict = Absent /\ reported = NoUsage
  /\ heard = [open |-> {}, last |-> NoUsage, first |-> NoUsage]

-----------------------------------------------------------------------------
(* The upstream.                                                            *)

Emit(e, named) ==
  /\ ended = "no" /\ verdict = Absent /\ emitted < MaxEvents /\ Len(wire) <= 1
  /\ sends = IF e.type \in Responses THEN "responses" ELSE "claude"
  /\ sends' = IF e.type \in Terminal THEN "nothing" ELSE sends
  /\ emitted' = emitted + 1
  /\ wire' = wire \o (IF named THEN <<TypeLine(e)>> ELSE << >>) \o <<DataLine(e), BlankLine(e)>>
  /\ UNCHANGED <<ended, parser, apiError, gone, unsent, verdict, reported, heard>>

\* The body ends, or breaks, after any line.
Stop(how) ==
  /\ ended = "no" /\ verdict = Absent
  /\ ended' = how
  /\ \E n \in 0 .. Len(wire) : wire' = SubSeq(wire, 1, n)
  /\ UNCHANGED <<sends, emitted, parser, apiError, gone, unsent, verdict, reported, heard>>

\* The client leaves; the tail is still read.
ClientLeaves ==
  /\ ~gone /\ verdict = Absent /\ gone' = TRUE
  /\ UNCHANGED <<sends, wire, ended, emitted, parser, apiError, unsent, verdict, reported, heard>>

-----------------------------------------------------------------------------
(* The reading loop.                                                        *)

\* ProcessStreamWithRetry, when ProcessStream returned without an error
Judged(p, err) ==
  CASE err -> "api_error" [] ~err /\ Complete(p) -> "complete" [] OTHER -> "incomplete"

\* heard, after the lines: what a reader of whole events would know
Newer(first, u) ==
  [f \in Fields |-> IF f # "output" /\ u[f] = 0 THEN (IF first[f] > 0 THEN first[f] ELSE 0) ELSE u[f]]
HeardEvent(h, e) ==
  CASE e.type = "block_start" /\ e.whole -> [h EXCEPT !.open = @ \cup {e.block}]
    [] e.type = "block_stop"  /\ e.whole -> [h EXCEPT !.open = @ \ {e.block}]
    [] e.type = "message_start" /\ e.usage # NoUsage -> [h EXCEPT !.first = e.usage]
    [] e.type = "message_delta" /\ e.usage # NoUsage -> [h EXCEPT !.last = Newer(h.first, e.usage)]
    [] e.type = "completed" /\ e.usage # NoUsage -> [h EXCEPT !.last = e.usage]
    [] OTHER -> h
Heard(h, ls) ==
  FoldLeft(LAMBDA g, l : IF l.kind = "data" THEN HeardEvent(g, l.of) ELSE g, h, ls)

AnyReports(p, ls) == \E n \in 1 .. Len(ls) : Reports(Lines(p, SubSeq(ls, 1, n - 1)), ls[n])

\* A chunk goes to the client and through the parser; after a terminal event
\* the reading ends, with whatever of the event is still on its way.
Read ==
  /\ verdict = Absent /\ wire # << >>
  /\ \E n \in 1 .. Len(wire) :
       LET chunk == SubSeq(wire, 1, n)
           rest  == SubSeq(wire, n + 1, Len(wire))
           p     == Lines(parser, chunk)
           err   == apiError \/ AnyReports(parser, chunk)
       IN /\ heard' = Heard(heard, chunk)
          /\ IF HasTerminalEvent(p)
             THEN /\ parser' = Flush(p)
                  /\ apiError' = (err \/ FlushReports(p))
                  /\ verdict' = Judged(Flush(p), apiError') /\ reported' = FinalUsage(p)
                  /\ unsent' = (~gone /\ rest # << >> /\ Head(rest).kind # "event" /\ Head(rest).of = Last(chunk).of)
                  /\ wire' = rest
             ELSE /\ parser' = p /\ apiError' = err /\ wire' = rest
                  /\ UNCHANGED <<verdict, reported, unsent>>
  /\ UNCHANGED <<sends, ended, emitted, gone>>

\* io.EOF: what is pending is parsed, then the usage is read.
ReadEnds ==
  /\ verdict = Absent /\ wire = << >> /\ ended = "eof"
  /\ parser' = Flush(parser)
  /\ apiError' = (apiError \/ FlushReports(parser))
  /\ verdict' = Judged(parser', apiError') /\ reported' = FinalUsage(parser')
  /\ UNCHANGED <<sends, wire, ended, emitted, gone, unsent, heard>>

\* handlePartialStreamV2; the drain's end is a broken read that counts as cancelled.
ReadBreaks ==
  /\ verdict = Absent /\ wire = << >> /\ ended = "broken"
  /\ parser' = Flush(parser)
  /\ verdict' = IF gone THEN "cancelled" ELSE "error"
  /\ reported' = Usage(parser')
  /\ UNCHANGED <<sends, wire, ended, emitted, apiError, gone, unsent, heard>>

Next ==
  \/ \E e \in Events, named \in BOOLEAN : Emit(e, named)
  \/ \E how \in {"eof", "broken"} : Stop(how)
  \/ ClientLeaves \/ Read \/ ReadEnds \/ ReadBreaks

Spec == Init /\ [][Next]_streamVars

-----------------------------------------------------------------------------
\* The usage that is booked is what the events that arrived said, merged:
\* nothing is lost when the body ends in the middle of an event, when a
\* chunk ends anywhere or when the client has left, and an earlier event
\* does not overwrite a later one.
Expected == IF heard.last = NoUsage THEN heard.first ELSE heard.last
UsageIsWhatWasSaid ==
  verdict # Absent => \/ reported = Expected
                      \/ reported = NoUsage /\ Expected = Zero

\* A stream that is judged complete had its terminal event, every block that
\* was opened was closed, and no event reported an error.
CompleteIsClosed ==
  verdict = "complete" => /\ ~apiError
                          /\ ~parser.responses => heard.open = {} /\ parser.start

\* The reading ends at the terminal event, not in the middle of it: the
\* client that is still there is sent the event whole.
TerminalIsForwarded == ~unsent
=============================================================================
