------------------------------ MODULE CodexStream ------------------------------
(***************************************************************************)
(* The parser against every stream: a Provider writes any units, the       *)
(* collection loop (drain_once and what follows it in CodexProcessRunner)  *)
(* reads them in chunks of any size and calls feed, even again after an    *)
(* error, and finish at the end of the stream.                             *)
(***************************************************************************)
EXTENDS CodexParser

CONSTANTS Alphabet,    \* units the Provider writes, a subset of Units
          MaxStream,   \* bound on the length of the stream,
          MaxAfterError,  \* on the length to which it grows after an error,
          PipeSize     \* and on what waits in the pipe

ASSUME AlphabetAssumption == Alphabet \subseteq Units
ASSUME StreamAssumption == {MaxStream, MaxAfterError, PipeSize} \subseteq Nat

VARIABLES
  stream,     \* everything written so far (history)
  unread,     \* how much of it waits in the pipe
  reader,     \* the state of the parser
  error,      \* what the last feed or finish that raised raised
  verdict     \* "open", then "success" or "failure"

streamVars == << stream, unread, reader, error, verdict >>

StreamInit ==
  /\ stream = << >> /\ unread = 0
  /\ reader = NewParser /\ error = "none" /\ verdict = "open"

Write(u) ==
  /\ verdict = "open" /\ unread < PipeSize
  /\ Len(stream) < IF error = "none" THEN MaxStream ELSE MaxAfterError
  /\ stream' = Append(stream, u)
  /\ unread' = unread + 1
  /\ UNCHANGED << reader, error, verdict >>

(* os.read returns at least one byte and at most what there is.            *)
Chunks == {SubSeq(stream, Len(stream) - unread + 1, Len(stream) - unread + n) : n \in 1 .. unread}

Read ==
  /\ verdict = "open"
  /\ \E chunk \in Chunks :
       LET fed == Feed(reader, chunk) IN
       /\ unread' = unread - Len(chunk)
       /\ reader' = fed.parser
       /\ error' = IF fed.raised = "none" THEN error ELSE fed.raised
  /\ UNCHANGED << stream, verdict >>

(* End of file; finish is called only if no protocol error was raised.     *)
EndOfStream ==
  /\ verdict = "open" /\ unread = 0
  /\ LET finished == Finish(reader)
         last == IF error = "none" THEN finished.raised ELSE error
     IN  /\ reader' = IF error = "none" THEN finished.parser ELSE reader
         /\ error' = last
         /\ verdict' = IF last = "none" /\ reader'.terminal = "turn_completed"
                       THEN "success" ELSE "failure"
  /\ UNCHANGED << stream, unread >>

StreamDone == verdict # "open" /\ UNCHANGED streamVars

StreamNext == (\E u \in Alphabet : Write(u)) \/ Read \/ EndOfStream \/ StreamDone

StreamSpec == StreamInit /\ [][StreamNext]_streamVars

-----------------------------------------------------------------------------
(* The parser accepts a stream exactly if it is one completed turn,        *)
(* however the pipe cut it into chunks and whether or not its last line    *)
(* has a newline; no other stream is ever accepted, also not because feed  *)
(* goes on after an error.                                                 *)
SuccessIsOneCompletedTurn ==
  verdict # "open" => (verdict = "success" <=> IsCompletedTurn(stream))
=============================================================================
