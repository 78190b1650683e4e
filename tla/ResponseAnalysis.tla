-------------------------- MODULE ResponseAnalysis --------------------------
(***************************************************************************)
(* The usage of a response that was not streamed: its form is recognised   *)
(* by structure, a JSON body is read as one message_delta, a body of       *)
(* events by the older reading of the parser, which stops at the first     *)
(* usage and knows no merging; what has neither form is tried as both.     *)
(* internal/proxy/response/analyzer.go, processor.go, token_parser.go.     *)
(***************************************************************************)
EXTENDS EventParser

\* A body: an object with or without usage, lines of events, or lines among
\* other text.  `other` counts the lines that are not of an event.
Json(u)          == [form |-> "json", usage |-> u, lines |-> << >>, other |-> 0]
Text(lines, n)   == [form |-> "text", usage |-> NoUsage, lines |-> lines, other |-> n]

SseLines(b) == Len(SelectSeq(b.lines, LAMBDA l : l.kind # "blank"))

\* detectResponseFormat: JSON first, then events if they are the majority.
Format(b) ==
  CASE b.form = "json"                                   -> "json"
    [] b.form = "text" /\ SseLines(b) > b.other          -> "sse"
    [] OTHER                                             -> "unknown"

-----------------------------------------------------------------------------
\* parseMessageDelta: the usage of the event alone
DeltaAlone(p, e) ==
  IF e.usage = NoUsage THEN DeltaSeen(p) ELSE [DeltaSeen(p) EXCEPT !.final = e.usage]

\* parseResponsesEvent and ParseSSELine, one event
OldHandled(p, e) ==
  CASE e.type = "message_delta" -> DeltaAlone(p, e)
    [] e.type \in Responses     -> ResponsesEvent(p, e)
    [] OTHER                    -> Handled(p, e)

Tells(p, l) == /\ l.kind = "blank" /\ Pending(p)
               /\ Last(p.data).type \in {"message_delta", "completed"}
               /\ Last(p.data).usage # NoUsage

OldLine(p, l) ==
  IF l.kind = "blank" /\ Pending(p) THEN Cleared(OldHandled(p, Last(p.data))) ELSE Line(p, l)

\* parseSSEForTokens: the first event that tells a usage
OldLines(lines, n) == FoldLeft(OldLine, NewTokenParser, SubSeq(lines, 1, n))
SseUsage(lines) ==
  LET telling == {n \in 1 .. Len(lines) : Tells(OldLines(lines, n - 1), lines[n])}
      first   == CHOOSE n \in telling : \A k \in telling : n <= k
  IN IF telling = {} THEN NoUsage ELSE OldLines(lines, first).final

\* parseWithFallback: as JSON if it contains a usage, which then is not whole
\* JSON, and as events if it contains any.
FallbackUsage(b) == IF b.lines = << >> THEN NoUsage ELSE SseUsage(b.lines)

\* AnalyzeResponseForTokensUnified
Analyzed(b) ==
  CASE Format(b) = "json"    -> b.usage
    [] Format(b) = "sse"     -> SseUsage(b.lines)
    [] Format(b) = "unknown" -> FallbackUsage(b)

-----------------------------------------------------------------------------
\* ProcessResponseBody, CopyResponseHeaders: a body of a known encoding is
\* decoded, any other is passed as it is; the label is dropped.
Known == {"identity", "gzip", "deflate", "br", "compress"}
Decoded(encoding) == encoding \in Known

-----------------------------------------------------------------------------
\* A body is billed no usage that no event of it told, and the analysis of a
\* whole body never bills more in any field than the streaming reader does
\* for the same lines, when one event tells the usage.
NoMoreThanTheStream(b) ==
  LET streamed == Usage(Flush(Lines(NewTokenParser, b.lines)))
      told     == {n \in 1 .. Len(b.lines) : b.lines[n].kind = "data" /\ b.lines[n].of.usage # NoUsage
                                              /\ b.lines[n].of.type # "message_start"}
  IN IF b.form = "json" THEN Analyzed(b) = b.usage
     ELSE /\ told = {} => Analyzed(b) = NoUsage
          /\ Cardinality(told) = 1 => \A f \in Fields : Analyzed(b)[f] <= streamed[f]

\* Inputs: up to two events after a message_start, with or without names
Bodies ==
  {Json(u) : u \in Usages \cup {NoUsage}}
  \cup {Text((IF s THEN <<DataLine(Event("message_start", AnyBlock, u, TRUE)), BlankLine(AnyBlock)>> ELSE << >>)
             \o <<TypeLine(e), DataLine(e), BlankLine(e)>> \o <<DataLine(d)>> \o (IF end THEN <<BlankLine(d)>> ELSE << >>), n)
        : u \in Usages \cup {NoUsage}, s \in BOOLEAN, e \in Events, d \in Events, end \in BOOLEAN, n \in {0, 4}}
=============================================================================
