------------------------------ MODULE CodexParser ------------------------------
(***************************************************************************)
(* CodexJsonlParser (codex_provider.py): the incremental parser that turns *)
(* the stdout of the Codex CLI, cut into chunks anywhere, into counts and  *)
(* a terminal event, keeping no more than one unfinished line.             *)
(*                                                                         *)
(* A stream is a sequence of units: the newline NL, and event texts, one   *)
(* per kind of event the parser tells apart. Two texts without a newline   *)
(* between them are one line that is no JSON. "bad" stands for every line  *)
(* the parser refuses whatever its state (no JSON, duplicate keys, no      *)
(* object, a malformed usage or message), "deep" for one on which          *)
(* json.loads raises something other than ValueError (RecursionError, on   *)
(* a deeply nested array). Limits count units in place of bytes.           *)
(***************************************************************************)
EXTENDS Integers, Sequences

CONSTANTS MaxLine,    \* max_event_line_bytes
          MaxTotal    \* max_provider_output_bytes

ASSUME LimitAssumption == MaxLine \in Nat \ {0} /\ MaxTotal \in Nat /\ MaxLine <= MaxTotal

NL == "newline"

(* "warning" is an item.completed of type error, "item" any other item     *)
(* and "unknown" an event type the parser does not know.                   *)
EventKinds ==
  {"thread", "turn", "item", "warning", "error", "completed", "failed", "unknown"}
Units == EventKinds \cup {"bad", "deep", NL}

(* `threads` and `turns` are also _thread_started and _turn_started, which *)
(* their only assignments keep equal to "the count is not zero"; `hints`   *)
(* says whether _failure_hints is non-empty.                               *)
NewParser ==
  [buffer |-> << >>, total |-> 0, events |-> 0, threads |-> 0, turns |-> 0,
   errors |-> 0, terminal |-> "none", hints |-> FALSE]

-----------------------------------------------------------------------------
(* _consume_line: one complete line.                                       *)

Admitted(p) ==
  {e \in EventKinds :
     /\ p.terminal = "none"
     /\ e = "thread" => p.threads = 0 /\ p.turns = 0
     /\ e = "turn" => p.threads > 0 /\ p.turns = 0
     /\ e = "warning" => p.threads > 0
     /\ e \in {"item", "error", "completed", "failed"} => p.threads > 0 /\ p.turns > 0
     /\ e = "completed" => p.errors = 0}

Count(p, e, kind) == IF e = kind THEN p + 1 ELSE p

Apply(p, e) ==
  [p EXCEPT
     !.events = @ + 1,
     !.threads = Count(@, e, "thread"),
     !.turns = Count(@, e, "turn"),
     !.errors = Count(@, e, "error"),
     !.terminal = CASE e = "completed" -> "turn_completed"
                    [] e = "failed" -> "turn_failed"
                    [] OTHER -> @,
     !.hints = @ \/ e \in {"warning", "error", "failed"}]

Step(p, raised) == [parser |-> p, raised |-> raised]

ConsumeLine(p, line) ==
  CASE line # << >> /\ Head(line) = "deep" -> Step(p, "exception")
    [] Len(line) = 1 /\ Head(line) \in Admitted(p) -> Step(Apply(p, Head(line)), "none")
    [] OTHER -> Step(p, "protocol_error")

-----------------------------------------------------------------------------
(* feed: a chunk, line by line. A segment that would make the line too     *)
(* long is not added to the buffer; what follows an error in the same      *)
(* chunk is dropped. `held` is the buffer when the segment began.          *)

FeedUnit(s, u) ==
  IF s.raised # "none" THEN s
  ELSE IF u = NL
  THEN LET done == ConsumeLine([s.parser EXCEPT !.buffer = << >>], s.parser.buffer)
       IN  [parser |-> done.parser, raised |-> done.raised, held |-> << >>]
  ELSE IF Len(s.parser.buffer) = MaxLine
  THEN [s EXCEPT !.parser.buffer = s.held, !.raised = "output_limit"]
  ELSE [s EXCEPT !.parser.buffer = Append(@, u)]

(* The units of a chunk in turn, from the state `start`.                   *)
Fed(start, chunk) ==
  LET fed[i \in 0 .. Len(chunk)] ==
        IF i = 0 THEN start ELSE FeedUnit(fed[i - 1], chunk[i])
  IN  fed[Len(chunk)]

Counted(p, chunk) == [p EXCEPT !.total = @ + Len(chunk)]
Feeding(p) == [parser |-> p, raised |-> "none", held |-> p.buffer]

(* Mutant: the buffer of an unfinished line is lost at the end of a chunk. *)
Feed_dropsPartialLine(p, chunk) ==
  LET fed == Fed(Feeding([Counted(p, chunk) EXCEPT !.buffer = << >>]), chunk) IN
  IF p.total + Len(chunk) > MaxTotal THEN Step(Counted(p, chunk), "output_limit")
  ELSE Step(fed.parser, fed.raised)

Feed(p, chunk) ==
  LET fed == Fed(Feeding(Counted(p, chunk)), chunk) IN
  IF p.total + Len(chunk) > MaxTotal THEN Step(Counted(p, chunk), "output_limit")
  ELSE Step(fed.parser, fed.raised)

(* finish, at the end of the stream: a last line without its newline, then *)
(* the life cycle as a whole. `buffered` marks an error of the last line   *)
(* (_CodexProtocolFailureOrigin.BUFFERED_EVENT_VALIDATION).                *)
Finish(p) ==
  LET last == IF p.buffer = << >> THEN Step(p, "none")
              ELSE ConsumeLine([p EXCEPT !.buffer = << >>], p.buffer)
      q == last.parser
      complete == \/ q.terminal = "turn_failed"
                  \/ q.terminal = "turn_completed" /\ q.threads > 0 /\ q.turns > 0
  IN  [parser |-> q,
       raised |-> IF last.raised # "none" THEN last.raised
                  ELSE IF complete THEN "none" ELSE "protocol_error",
       buffered |-> last.raised = "protocol_error"]

-----------------------------------------------------------------------------
(* The reference: which whole streams are a successful turn. No state, no  *)
(* chunks: one event per line, thread, then turn, and turn.completed last; *)
(* warnings only after the thread, items only within the turn, and events  *)
(* of unknown kinds anywhere.                                              *)

OneEventPerLine(stream) ==
  \A i \in DOMAIN stream : stream[i] = NL <=> i % 2 = 0

IsCompletedTurn(stream) ==
  /\ Len(stream) <= MaxTotal /\ OneEventPerLine(stream)
  /\ \E thread, turn, last \in DOMAIN stream :
       /\ thread < turn /\ turn < last
       /\ stream[thread] = "thread" /\ stream[turn] = "turn" /\ stream[last] = "completed"
       /\ \A i \in DOMAIN stream \ {thread, turn, last} :
            \/ stream[i] = NL
            \/ stream[i] = "unknown" /\ i < last
            \/ stream[i] = "warning" /\ thread < i /\ i < last
            \/ stream[i] = "item" /\ turn < i /\ i < last
=============================================================================
