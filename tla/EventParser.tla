---------------------------- MODULE EventParser ----------------------------
(***************************************************************************)
(* The parser of event streams, as functions of its state: events arrive   *)
(* as lines (name, data, blank), their usage is merged, the blocks of a    *)
(* message are paired.  internal/proxy/token_parser.go.                    *)
(***************************************************************************)
EXTENDS Integers, FiniteSets, Sequences, SequencesExt

CONSTANTS
  Blocks,      \* indices of content blocks
  Usages       \* usage records an event may carry

-----------------------------------------------------------------------------
Absent  == "none"
Fields  == {"input", "output", "cache"}
NoUsage == [f \in Fields |-> -1]
Zero    == [f \in Fields |-> 0]

Tracked   == {"message_start", "block_start", "block_delta", "block_stop", "message_delta",
              "error", "in_progress", "completed", "failed"}
Responses == {"in_progress", "completed", "failed"}
Terminal  == {"message_stop", "completed", "failed"}

\* An event of the upstream: its type, block, usage, and whether its JSON is whole.
Event(t, i, u, whole) == [type |-> t, block |-> i, usage |-> u, whole |-> whole]
AnyBlock == CHOOSE b \in Blocks : TRUE
Events ==
  {Event(t, b, NoUsage, w) : t \in {"block_start", "block_delta", "block_stop"}, b \in Blocks, w \in BOOLEAN}
  \cup {Event(t, AnyBlock, u, TRUE) : t \in {"message_start", "message_delta", "completed"}, u \in Usages \cup {NoUsage}}
  \cup {Event(t, AnyBlock, NoUsage, TRUE) : t \in {"message_stop", "error", "in_progress", "failed"}}

TypeLine(e) == [kind |-> "event", of |-> e]
DataLine(e) == [kind |-> "data", of |-> e]
BlankLine(e) == [kind |-> "blank", of |-> e]

\* NewTokenParser, Reset
NewTokenParser ==
  [event |-> Absent, data |-> << >>, collecting |-> FALSE,
   start |-> FALSE, delta |-> FALSE, deltaUsage |-> FALSE, stop |-> FALSE,
   blocks |-> [b \in Blocks |-> Absent], protocol |-> FALSE,
   responses |-> FALSE, completed |-> FALSE,
   final |-> NoUsage, partial |-> NoUsage]

-----------------------------------------------------------------------------
(* The parser, as functions of its state.                                   *)

Cleared(p) == [p EXCEPT !.event = Absent, !.data = << >>, !.collecting = FALSE]
ProtocolError(p, bad) == [p EXCEPT !.protocol = @ \/ bad]
SomeOpen(p) == \E b \in Blocks : p.blocks[b] = "open"
Ending(p)   == p.delta \/ p.stop

\* trackMessageStop, on the line that names the event
Named(p, t) ==
  [ProtocolError(p, t = "message_stop" /\ SomeOpen(p)) EXCEPT
     !.stop = @ \/ t = "message_stop",
     !.event = t, !.collecting = t \in Tracked]

\* parseContentBlockBoundary
BlockStart(p, b) ==
  IF ~p.start \/ Ending(p) \/ p.blocks[b] # Absent THEN ProtocolError(p, TRUE)
  ELSE [p EXCEPT !.blocks[b] = "open"]
BlockStop(p, b) ==
  IF p.blocks[b] # "open" \/ Ending(p) THEN ProtocolError(p, TRUE)
  ELSE [p EXCEPT !.blocks[b] = "closed"]

\* trackContentBlockDelta, trackMessageDelta
BlockDelta(p, b) == ProtocolError(p, Ending(p) \/ p.blocks[b] # "open")
DeltaSeen(p)     == [ProtocolError(p, SomeOpen(p)) EXCEPT !.delta = TRUE]

\* The value of the later event, or of message_start where that is zero;
\* the output is always the later one.
Merged(p, u) ==
  [f \in Fields |-> IF f # "output" /\ u[f] = 0 /\ p.partial # NoUsage /\ p.partial[f] > 0
                    THEN p.partial[f] ELSE u[f]]

\* parseMessageStart
MessageStart(p, e) == [p EXCEPT !.start = TRUE, !.partial = IF e.usage = NoUsage THEN @ ELSE e.usage]

\* parseMessageDeltaV2
MessageDelta(p, e) ==
  IF e.usage = NoUsage THEN DeltaSeen(p)
  ELSE [DeltaSeen(p) EXCEPT !.deltaUsage = TRUE, !.final = Merged(p, e.usage)]

\* parseResponsesEventV2
ResponsesEvent(p, e) ==
  [p EXCEPT !.responses = TRUE,
            !.completed = @ \/ e.type \in {"completed", "failed"},
            !.final = IF e.type = "completed" /\ e.usage # NoUsage THEN e.usage ELSE @]

Handled(p, e) ==
  CASE e.type = "message_start"   -> MessageStart(p, e)
    [] e.type = "message_delta"   -> MessageDelta(p, e)
    [] e.type \in {"block_start", "block_stop", "block_delta"} /\ ~e.whole -> ProtocolError(p, TRUE)
    [] e.type = "block_start" /\ e.whole -> BlockStart(p, e.block)
    [] e.type = "block_stop"  /\ e.whole -> BlockStop(p, e.block)
    [] e.type = "block_delta" /\ e.whole -> BlockDelta(p, e.block)
    [] e.type \in Responses       -> ResponsesEvent(p, e)
    [] OTHER                      -> p

Pending(p) == p.collecting /\ p.data # << >>

\* ParseSSELineV2, beginImplicitSSEEvent; an event has one data line.
Line(p, l) ==
  CASE l.kind = "event" -> [Named(p, l.of.type) EXCEPT !.data = << >>]
    [] l.kind = "data"  ->
         LET q == IF p.collecting THEN p ELSE Named(p, l.of.type)
         IN IF q.collecting THEN [q EXCEPT !.data = Append(@, l.of)] ELSE q
    [] l.kind = "blank" -> IF Pending(p) THEN Cleared(Handled(p, Last(p.data))) ELSE p

\* FlushPendingEvent
Flush(p) == IF Pending(p) THEN Cleared(Handled(p, Last(p.data))) ELSE p

Lines(p, ls) == FoldLeft(Line, p, ls)

\* processSSELine keeps an error that an event reports.
Reports(p, l) ==
  l.kind = "blank" /\ Pending(p) /\ Last(p.data).type \in {"error", "failed"}
FlushReports(p) == Pending(p) /\ Last(p.data).type \in {"error", "failed"}

HasTerminalEvent(p) == IF p.responses THEN p.completed ELSE p.stop
FallbackUsed(p)     == p.final = NoUsage /\ p.partial # NoUsage

BlocksUnchecked(p) == IF p.responses THEN p.completed ELSE p.start /\ p.stop   \* faulty variant
\* GetStreamCompleteness
Complete(p) ==
  IF p.responses THEN p.completed
  ELSE /\ p.start /\ p.stop /\ ~p.protocol /\ ~SomeOpen(p)
       /\ p.deltaUsage \/ ~FallbackUsed(p)

\* GetFinalUsage; getFinalTokenUsage gives no usage for nothing but zeros.
Usage(p)      == IF p.final # NoUsage THEN p.final ELSE p.partial
FinalUsage(p) == IF Usage(p) = Zero THEN NoUsage ELSE Usage(p)
=============================================================================
