--------------------------- MODULE CodexStreamProofs ---------------------------
(***************************************************************************)
(* The JSONL parser of codex_provider.py accepts a stream exactly if it is *)
(* one completed turn: for every length, every pair of limits and every    *)
(* way a pipe cuts it into chunks.                                         *)
(*                                                                         *)
(* The parser is a fold over the units of a chunk. What it has read is     *)
(* stated by Reads, what it refuses by Doomed, and FeedReads, an induction *)
(* over the chunk, says that feed turns the one into itself or the other.  *)
(***************************************************************************)
EXTENDS CodexStream, WellFoundedInduction, FiniteSetTheorems, TLAPS

(* Induction over the naturals for a set: what holds 0 and, with every     *)
(* number, the next, holds them all. From the well-foundedness of strict   *)
(* inclusion among finite sets.                                            *)
LEMMA NatSetInduction ==
  ASSUME NEW S, 0 \in S, \A n \in Nat : n \in S => n + 1 \in S
  PROVE  Nat \subseteq S
<1> SUFFICES ASSUME NEW m \in Nat, m \notin S PROVE FALSE
  OBVIOUS
<1> DEFINE T == {X \in FiniteSubsetsOf(Nat) : \E k \in Nat : k \notin S /\ X = 1 .. k}
<1>1. \A k \in Nat : 1 .. k \in FiniteSubsetsOf(Nat)
  <2> TAKE k \in Nat
  <2>1. IsFiniteSet(1 .. k)
    BY FS_Interval
  <2> QED BY <2>1 DEF FiniteSubsetsOf
<1>2. T # {} /\ T \subseteq FiniteSubsetsOf(Nat)
  BY <1>1
<1> HIDE DEF T
<1>3. PICK x \in T : \A y \in T : ~ (<<y, x>> \in StrictSubsetOrdering(Nat))
  BY <1>2, FS_StrictSubsetOrderingWellFounded, WFMin
<1>4. PICK k \in Nat : k \notin S /\ x = 1 .. k
  BY <1>3 DEF T
<1>5. k # 0 /\ k - 1 \in Nat /\ k - 1 \notin S
  BY <1>4
<1>6. 1 .. k - 1 \in T
  BY <1>1, <1>5 DEF T
<1>7. 1 .. k - 1 \subseteq 1 .. k /\ k \in 1 .. k /\ k \notin 1 .. k - 1
  BY <1>5
<1>8. <<1 .. k - 1, 1 .. k>> \in StrictSubsetOrdering(Nat)
  BY <1>7, <1>5 DEF StrictSubsetOrdering
<1> QED BY <1>3, <1>4, <1>6, <1>8

(* The recursive function behind Fed exists, and Fed is its last value.    *)
LEMMA FedIsFold ==
  ASSUME NEW start, NEW chunk, Len(chunk) \in Nat
  PROVE  \E fed : /\ fed[0] = start
                  /\ \A i \in 1 .. Len(chunk) : fed[i] = FeedUnit(fed[i - 1], chunk[i])
                  /\ Fed(start, chunk) = fed[Len(chunk)]
<1> DEFINE Body(f, n) ==
             [i \in 0 .. n |-> IF i = 0 THEN start ELSE FeedUnit(f[i - 1], chunk[i])]
           S == {n \in Nat : \E f : f = Body(f, n)}
<1>1. 0 \in S
  <2> DEFINE f == [i \in 0 .. 0 |-> start]
  <2>1. f = Body(f, 0)
    OBVIOUS
  <2> QED BY <2>1
<1>2. ASSUME NEW n \in Nat, n \in S PROVE n + 1 \in S
  <2>1. PICK f : f = Body(f, n)
    BY <1>2
  <2> DEFINE g == [i \in 0 .. n + 1 |-> IF i <= n THEN f[i] ELSE FeedUnit(f[n], chunk[n + 1])]
  <2> DEFINE U(s, u) == FeedUnit(s, u)
  <2>2. f = [i \in 0 .. n |-> IF i = 0 THEN start ELSE U(f[i - 1], chunk[i])]
    BY <2>1
  <2>3. \A i \in 0 .. n + 1 : g[i] = IF i = 0 THEN start ELSE U(g[i - 1], chunk[i])
    <3> HIDE DEF U
    <3> TAKE i \in 0 .. n + 1
    <3>1. g[i] = IF i <= n THEN f[i] ELSE U(f[n], chunk[n + 1])
      BY DEF U
    <3>2. CASE i = 0
      BY <3>1, <3>2, <2>2
    <3>3. CASE i # 0 /\ i <= n
      <4>1. g[i] = U(f[i - 1], chunk[i])
        BY <3>1, <3>3, <2>2
      <4>2. g[i - 1] = f[i - 1]
        BY <3>3
      <4> QED BY <4>1, <4>2, <3>3
    <3>4. CASE i = n + 1
      <4>1. g[i] = U(f[n], chunk[n + 1])
        BY <3>1, <3>4
      <4>2. g[i - 1] = f[n]
        BY <3>4
      <4> QED BY <4>1, <4>2, <3>4
    <3> QED BY <3>2, <3>3, <3>4
  <2>4. g = Body(g, n + 1)
    <3>1. g = [i \in 0 .. n + 1 |-> g[i]]
      OBVIOUS
    <3> HIDE DEF g, U
    <3>2. [i \in 0 .. n + 1 |-> g[i]] =
            [i \in 0 .. n + 1 |-> IF i = 0 THEN start ELSE U(g[i - 1], chunk[i])]
      BY <2>3
    <3> QED BY <3>1, <3>2 DEF U
  <2> HIDE DEF g, Body
  <2>5. \E h : h = Body(h, n + 1)
    BY <2>4
  <2> QED BY <2>5
<1>3. Len(chunk) \in S
  <2> HIDE DEF S
  <2> QED BY <1>1, <1>2, NatSetInduction
<1>4. PICK f0 : f0 = Body(f0, Len(chunk))
  BY <1>3
<1> DEFINE fed == CHOOSE f : f = Body(f, Len(chunk))
<1>5. fed = Body(fed, Len(chunk))
  BY <1>4
<1>6. Fed(start, chunk) = fed[Len(chunk)]
  BY DEF Fed
<1> HIDE DEF fed
<1> DEFINE U(s, u) == FeedUnit(s, u)
<1>9. fed = [i \in 0 .. Len(chunk) |-> IF i = 0 THEN start ELSE U(fed[i - 1], chunk[i])]
  BY <1>5
<1> HIDE DEF U
<1>7. fed[0] = start
  BY <1>9
<1>8. \A i \in 1 .. Len(chunk) : fed[i] = FeedUnit(fed[i - 1], chunk[i])
  BY <1>9 DEF U
<1> QED BY <1>6, <1>7, <1>8
-----------------------------------------------------------------------------
(* What a line may raise, the buffer of a line not ended yet, and a parser *)
(* as the code can build it: at most one thread, then at most one turn,    *)
(* then its end, each of them an event; a completed turn has no error, and *)
(* a failed one leaves a hint.                                             *)
Errors == {"exception", "protocol_error"}
Texts == Seq(Units \ {NL})

Parsers ==
  [buffer : Texts, total : Nat, events : Nat, threads : Nat, turns : Nat, errors : Nat,
   terminal : {"none", "turn_completed", "turn_failed"}, hints : BOOLEAN]

OneTurn(p) ==
  /\ p.threads \in {0, 1} /\ p.turns \in {0, 1} /\ (p.turns = 1 => p.threads = 1)
  /\ p.terminal # "none" => p.turns = 1
  /\ p.events >= p.threads + p.turns + IF p.terminal = "none" THEN 0 ELSE 1

Sound(p) ==
  /\ p \in Parsers /\ OneTurn(p)
  /\ p.terminal = "turn_completed" => p.errors = 0
  /\ p.terminal = "turn_failed" => p.hints

FeedStates == [parser : Parsers, raised : {"none", "output_limit"} \cup Errors, held : Texts]

(* The parser of __init__ is sound.                                        *)
LEMMA NewParserSound == Sound(NewParser)
BY DEF NewParser, Sound, OneTurn, Parsers, Texts

(* One admitted event: _apply_event keeps the parser sound, counts the     *)
(* event and sets the terminal of a completed or failed turn only.         *)
LEMMA ApplySound ==
  ASSUME NEW p, Sound(p), NEW e \in Admitted(p)
  PROVE  /\ Sound(Apply(p, e))
         /\ Apply(p, e).buffer = p.buffer /\ Apply(p, e).total = p.total
         /\ Apply(p, e).events = p.events + 1
         /\ Apply(p, e).threads = p.threads + IF e = "thread" THEN 1 ELSE 0
         /\ Apply(p, e).turns = p.turns + IF e = "turn" THEN 1 ELSE 0
         /\ Apply(p, e).errors = p.errors + IF e = "error" THEN 1 ELSE 0
         /\ Apply(p, e).terminal = IF e = "completed" THEN "turn_completed"
                                  ELSE IF e = "failed" THEN "turn_failed" ELSE "none"
<1> DEFINE q == Apply(p, e)
<1>1. p \in Parsers /\ e \in EventKinds /\ p.terminal = "none"
      /\ (e = "completed" => p.errors = 0)
  BY DEF Admitted, Sound
<1>2. q.terminal = IF e = "completed" THEN "turn_completed"
                   ELSE IF e = "failed" THEN "turn_failed" ELSE "none"
  BY <1>1 DEF Apply, Parsers
<1>3. /\ q.buffer = p.buffer /\ q.total = p.total /\ q.events = p.events + 1
      /\ q.threads = p.threads + IF e = "thread" THEN 1 ELSE 0
      /\ q.turns = p.turns + IF e = "turn" THEN 1 ELSE 0
      /\ q.errors = p.errors + IF e = "error" THEN 1 ELSE 0
  BY <1>1 DEF Apply, Parsers, Count
<1>4. q \in Parsers
  <2>1. p.events + 1 \in Nat /\ q.threads \in Nat /\ q.turns \in Nat /\ q.errors \in Nat
    BY <1>1, <1>3 DEF Parsers
  <2>2. (p.hints \/ e \in {"warning", "error", "failed"}) \in BOOLEAN
    OBVIOUS
  <2> QED BY <1>1, <1>2, <1>3, <2>1, <2>2 DEF Apply, Parsers
<1>5. q.terminal = "turn_completed" => q.errors = 0
  BY <1>1, <1>2, <1>3
<1>6. q.terminal = "turn_failed" => q.hints
  <2>1. q.hints = (p.hints \/ e \in {"warning", "error", "failed"})
    BY <1>1 DEF Apply, Parsers
  <2> QED BY <1>2, <2>1
<1>7. OneTurn(q)
  <2>1. /\ OneTurn(p) /\ p.events \in Nat
        /\ e = "thread" => p.threads = 0 /\ p.turns = 0
        /\ e = "turn" => p.threads > 0 /\ p.turns = 0
        /\ e \in {"completed", "failed"} => p.turns > 0
    BY DEF Admitted, Sound, Parsers
  <2> QED BY <1>1, <1>2, <1>3, <2>1 DEF OneTurn
<1> QED BY <1>2, <1>3, <1>4, <1>5, <1>6, <1>7 DEF Sound

(* _consume_line keeps the parser sound, whatever is on the line, and      *)
(* touches neither the buffer nor the total.                               *)
LEMMA ConsumeLineSound ==
  ASSUME NEW p, Sound(p), NEW line \in Texts
  PROVE  /\ Sound(ConsumeLine(p, line).parser)
         /\ ConsumeLine(p, line).raised \in {"none"} \cup Errors
         /\ ConsumeLine(p, line).parser.buffer = p.buffer
         /\ ConsumeLine(p, line).parser.total = p.total
         /\ ConsumeLine(p, line).raised = "none" =>
              /\ Len(line) = 1 /\ Head(line) \in Admitted(p)
              /\ ConsumeLine(p, line).parser = Apply(p, Head(line))
         /\ ConsumeLine(p, line).raised # "none" =>
              line = << >> \/ Len(line) # 1 \/ Head(line) \notin Admitted(p)
<1>1. CASE line # << >> /\ Head(line) = "deep"
  <2>1. "deep" \notin Admitted(p)
    BY DEF Admitted, EventKinds
  <2>2. ConsumeLine(p, line) = Step(p, "exception")
    BY <1>1, <2>1 DEF ConsumeLine
  <2> QED BY <1>1, <2>1, <2>2 DEF Step, Errors
<1>2. CASE /\ ~(line # << >> /\ Head(line) = "deep")
           /\ Len(line) = 1 /\ Head(line) \in Admitted(p)
  <2>1. ConsumeLine(p, line) = Step(Apply(p, Head(line)), "none")
    BY <1>2 DEF ConsumeLine
  <2> QED BY <1>2, <2>1, ApplySound DEF Step
<1>3. CASE /\ ~(line # << >> /\ Head(line) = "deep")
           /\ ~(Len(line) = 1 /\ Head(line) \in Admitted(p))
  <2>1. ConsumeLine(p, line) = Step(p, "protocol_error")
    BY <1>3 DEF ConsumeLine
  <2> QED BY <1>3, <2>1 DEF Step, Errors
<1> QED BY <1>1, <1>2, <1>3

(* Induction over what a chunk feeds to the parser, for a set of pairs of  *)
(* a number of units and the state after them.                             *)
LEMMA FedInduction ==
  ASSUME NEW S, NEW start, NEW chunk, Len(chunk) \in Nat,
         << 0, start >> \in S,
         \A i \in 1 .. Len(chunk) : \A s :
           << i - 1, s >> \in S => << i, FeedUnit(s, chunk[i]) >> \in S
  PROVE  << Len(chunk), Fed(start, chunk) >> \in S
<1>1. PICK fed : /\ fed[0] = start
                 /\ \A i \in 1 .. Len(chunk) : fed[i] = FeedUnit(fed[i - 1], chunk[i])
                 /\ Fed(start, chunk) = fed[Len(chunk)]
  BY FedIsFold
<1> DEFINE T == {n \in Nat : n <= Len(chunk) => << n, fed[n] >> \in S}
<1>2. 0 \in T
  BY <1>1
<1>3. ASSUME NEW n \in Nat, n \in T PROVE n + 1 \in T
  <2>1. SUFFICES ASSUME n + 1 <= Len(chunk) PROVE << n + 1, fed[n + 1] >> \in S
    OBVIOUS
  <2>2. n + 1 \in 1 .. Len(chunk) /\ n + 1 - 1 = n
    BY <2>1
  <2>3. << n, fed[n] >> \in S
    BY <1>3, <2>1
  <2>4. fed[n + 1] = FeedUnit(fed[n], chunk[n + 1])
    BY <1>1, <2>2
  <2>5. << n + 1, FeedUnit(fed[n], chunk[n + 1]) >> \in S
    BY <2>2, <2>3
  <2> QED BY <2>4, <2>5
<1>4. Len(chunk) \in T
  <2> HIDE DEF T
  <2> QED BY <1>2, <1>3, NatSetInduction
<1> QED BY <1>1, <1>4

(* One unit of feed keeps the parser sound.                                *)
LEMMA FeedUnitSound ==
  ASSUME NEW s \in FeedStates, Sound(s.parser), NEW u \in Units
  PROVE  /\ FeedUnit(s, u) \in FeedStates /\ Sound(FeedUnit(s, u).parser)
         /\ FeedUnit(s, u).parser.total = s.parser.total
<1>1. CASE s.raised # "none"
  BY <1>1 DEF FeedUnit
<1>2. CASE s.raised = "none" /\ u = NL
  <2> DEFINE p == [s.parser EXCEPT !.buffer = << >>]
             done == ConsumeLine(p, s.parser.buffer)
  <2>0. << >> \in Texts
    BY DEF Texts
  <2>1. Sound(p) /\ p.total = s.parser.total /\ s.parser.buffer \in Texts
    BY <2>0 DEF Sound, OneTurn, Parsers
  <2> HIDE DEF p
  <2>2. /\ Sound(done.parser) /\ done.raised \in {"none"} \cup Errors
        /\ done.parser.total = p.total
    BY <2>1, ConsumeLineSound
  <2>3. FeedUnit(s, u) = [parser |-> done.parser, raised |-> done.raised, held |-> << >>]
    BY <1>2 DEF FeedUnit, p
  <2> HIDE DEF done
  <2> QED BY <2>0, <2>1, <2>2, <2>3 DEF FeedStates, Sound
<1>3. CASE s.raised = "none" /\ u # NL /\ Len(s.parser.buffer) = MaxLine
  <2>1. FeedUnit(s, u) = [s EXCEPT !.parser.buffer = s.held, !.raised = "output_limit"]
    BY <1>3 DEF FeedUnit
  <2>2. s.parser \in Parsers /\ s.held \in Texts
    BY DEF FeedStates
  <2>3. Sound([s.parser EXCEPT !.buffer = s.held])
    BY <2>2 DEF Sound, OneTurn, Parsers
  <2> QED BY <2>1, <2>2, <2>3 DEF FeedStates, Sound, Parsers
<1>4. CASE s.raised = "none" /\ u # NL /\ Len(s.parser.buffer) # MaxLine
  <2>1. FeedUnit(s, u) = [s EXCEPT !.parser.buffer = Append(@, u)]
    BY <1>4 DEF FeedUnit
  <2>2. s.parser \in Parsers /\ Append(s.parser.buffer, u) \in Texts
    BY <1>4 DEF FeedStates, Parsers, Texts
  <2>3. Sound([s.parser EXCEPT !.buffer = Append(@, u)])
    BY <2>2 DEF Sound, OneTurn, Parsers
  <2> QED BY <2>1, <2>2, <2>3 DEF FeedStates, Sound, Parsers
<1> QED BY <1>1, <1>2, <1>3, <1>4

(* feed keeps the parser sound and adds the length of the chunk to the     *)
(* total, raising or not.                                                  *)
LEMMA FeedSound ==
  ASSUME NEW p, Sound(p), NEW chunk \in Seq(Units)
  PROVE  /\ Sound(Feed(p, chunk).parser)
         /\ Feed(p, chunk).parser.total = p.total + Len(chunk)
         /\ Feed(p, chunk).raised \in {"none", "output_limit"} \cup Errors
<1> DEFINE counted == Counted(p, chunk)
           start == Feeding(counted)
           S == {x \in Nat \X FeedStates : Sound(x[2].parser)
                                          /\ x[2].parser.total = counted.total}
<1>1. /\ Sound(counted) /\ counted.total = p.total + Len(chunk)
      /\ Len(chunk) \in Nat /\ \A i \in 1 .. Len(chunk) : chunk[i] \in Units
  BY DEF Counted, Sound, OneTurn, Parsers
<1> HIDE DEF counted
<1>2. << 0, start >> \in S
  BY <1>1 DEF Feeding, FeedStates, Sound, OneTurn, Parsers
<1>3. ASSUME NEW i \in 1 .. Len(chunk), NEW s, << i - 1, s >> \in S
      PROVE  << i, FeedUnit(s, chunk[i]) >> \in S
  BY <1>1, <1>3, FeedUnitSound
<1>4. << Len(chunk), Fed(start, chunk) >> \in S
  <2> HIDE DEF S, start
  <2> QED BY <1>1, <1>2, <1>3, FedInduction
<1> DEFINE fed == Fed(start, chunk)
<1>5. fed \in FeedStates /\ Sound(fed.parser) /\ fed.parser.total = counted.total
  BY <1>4
<1>6. Feed(p, chunk) = IF p.total + Len(chunk) > MaxTotal
                       THEN Step(counted, "output_limit") ELSE Step(fed.parser, fed.raised)
  BY DEF Feed, counted
<1> HIDE DEF fed
<1> QED BY <1>1, <1>5, <1>6 DEF Step, FeedStates
-----------------------------------------------------------------------------
(* What the first n units of a stream w have told the parser p: the        *)
(* thread, the turn and the end of the turn stood at a, b and c (0 for not *)
(* yet), in this order, and everything else was allowed where it stood.    *)
HeardAt(w, n, p, a, b, c) ==
  /\ a \in 0 .. n /\ b \in 0 .. n /\ c \in 0 .. n
  /\ p.threads = IF a = 0 THEN 0 ELSE 1
  /\ p.turns = IF b = 0 THEN 0 ELSE 1
  /\ p.terminal = "none" <=> c = 0
  /\ a # 0 => w[a] = "thread"
  /\ b # 0 => a # 0 /\ a < b /\ w[b] = "turn"
  /\ c # 0 => b # 0 /\ b < c
              /\ w[c] = IF p.terminal = "turn_completed" THEN "completed" ELSE "failed"
  /\ \A i \in 1 .. n : i \notin {a, b, c} =>
       \/ w[i] = NL
       \/ /\ w[i] \in {"unknown", "warning", "item", "error"}
          /\ c # 0 => i < c
          /\ w[i] = "warning" => a # 0 /\ a < i
          /\ w[i] \in {"item", "error"} => b # 0 /\ b < i
  /\ p.errors = 0 <=> \A i \in 1 .. n : w[i] # "error"

Heard(w, n, p) == \E a, b, c \in 0 .. n : HeardAt(w, n, p, a, b, c)

(* The end of the last whole line: every line so far held one event.       *)
EventEnd(p) == 2 * p.events

(* The parser p has read the first n units of w, one event per line, and   *)
(* holds in its buffer what follows the last newline.                      *)
Reads(w, n, p) ==
  LET k == EventEnd(p) IN
  /\ n = k + Len(p.buffer) /\ n <= Len(w)
  /\ \A i \in 1 .. Len(p.buffer) : p.buffer[i] = w[k + i]
  /\ \A i \in 1 .. k : w[i] = NL <=> i % 2 = 0
  /\ Heard(w, k, p)

(* No stream that begins like w is a completed turn.                       *)
Doomed(w, n) ==
  \A v \in Seq(Units) :
    n <= Len(v) /\ (\A i \in 1 .. n : v[i] = w[i]) => ~ IsCompletedTurn(v)

(* An admitted event is heard at its place.                                *)
LEMMA HeardEvent ==
  ASSUME NEW w, NEW n \in Nat, NEW p, Sound(p), NEW a, NEW b, NEW c,
         HeardAt(w, n, p, a, b, c), w[n + 1] \in Admitted(p)
  PROVE  Heard(w, n + 1, Apply(p, w[n + 1]))
<1> DEFINE e == w[n + 1]
           q == Apply(p, e)
<1>1. /\ q.events = p.events + 1
      /\ q.threads = p.threads + IF e = "thread" THEN 1 ELSE 0
      /\ q.turns = p.turns + IF e = "turn" THEN 1 ELSE 0
      /\ q.errors = p.errors + IF e = "error" THEN 1 ELSE 0
      /\ q.terminal = IF e = "completed" THEN "turn_completed"
                      ELSE IF e = "failed" THEN "turn_failed" ELSE "none"
  BY ApplySound
<1>2. /\ e \in EventKinds /\ p.terminal = "none"
      /\ e = "thread" => p.threads = 0 /\ p.turns = 0
      /\ e = "turn" => p.threads > 0 /\ p.turns = 0
      /\ e = "warning" => p.threads > 0
      /\ e \in {"item", "error", "completed", "failed"} => p.threads > 0 /\ p.turns > 0
      /\ e = "completed" => p.errors = 0
  BY DEF Admitted
<1>3. p.errors \in Nat /\ p.threads \in Nat /\ p.turns \in Nat
  BY DEF Sound, Parsers
<1> HIDE DEF q
<1>4. q.errors = 0 <=> \A i \in 1 .. n + 1 : w[i] # "error"
  BY <1>1, <1>3 DEF HeardAt
<1>5. CASE e = "thread"
  <2>1. HeardAt(w, n + 1, q, n + 1, b, c)
    BY <1>1, <1>2, <1>3, <1>4, <1>5 DEF HeardAt
  <2> QED BY <2>1 DEF HeardAt, Heard, q
<1>6. CASE e = "turn"
  <2>1. HeardAt(w, n + 1, q, a, n + 1, c)
    BY <1>1, <1>2, <1>3, <1>4, <1>6 DEF HeardAt
  <2> QED BY <2>1 DEF HeardAt, Heard, q
<1>7. CASE e \in {"completed", "failed"}
  <2>1. HeardAt(w, n + 1, q, a, b, n + 1)
    BY <1>1, <1>2, <1>3, <1>4, <1>7 DEF HeardAt
  <2> QED BY <2>1 DEF HeardAt, Heard, q
<1>8. CASE e \in {"item", "warning", "error", "unknown"}
  <2>1. HeardAt(w, n + 1, q, a, b, c)
    BY <1>1, <1>2, <1>3, <1>4, <1>8 DEF HeardAt
  <2> QED BY <2>1 DEF HeardAt, Heard, q
<1> QED BY <1>2, <1>5, <1>6, <1>7, <1>8 DEF EventKinds

(* A newline tells nothing.                                                *)
LEMMA HeardNewline ==
  ASSUME NEW w, NEW n \in Nat, NEW p, NEW a, NEW b, NEW c,
         HeardAt(w, n, p, a, b, c), w[n + 1] = NL
  PROVE  HeardAt(w, n + 1, p, a, b, c)
BY DEF HeardAt, NL

(* A stream that is not one event per line is doomed,                      *)
LEMMA NotAlternating ==
  ASSUME NEW w, NEW n \in Nat, NEW i \in 1 .. n, ~(w[i] = NL <=> i % 2 = 0)
  PROVE  Doomed(w, n)
BY DEF Doomed, IsCompletedTurn, OneEventPerLine

(* and stays so,                                                           *)
LEMMA DoomedLater ==
  ASSUME NEW w, NEW n \in Nat, NEW m \in Nat, n <= m, Doomed(w, n)
  PROVE  Doomed(w, m)
BY DEF Doomed

(* and so is one longer than the limit on stdout.                          *)
LEMMA DoomedTotal ==
  ASSUME NEW w, NEW n \in Nat, n > MaxTotal
  PROVE  Doomed(w, n)
BY LimitAssumption DEF Doomed, IsCompletedTurn

(* An event that the parser does not admit dooms the stream.               *)
LEMMA HeardRefuses ==
  ASSUME NEW w, NEW n \in Nat, n % 2 = 0, NEW p, Sound(p), NEW a, NEW b, NEW c,
         HeardAt(w, n, p, a, b, c), w[n + 1] \notin Admitted(p)
  PROVE  Doomed(w, n + 1)
<1> DEFINE e == w[n + 1]
<1>1. SUFFICES ASSUME NEW v \in Seq(Units), n + 1 <= Len(v),
                      \A i \in 1 .. n + 1 : v[i] = w[i], IsCompletedTurn(v)
               PROVE  FALSE
  BY DEF Doomed
<1>2. PICK thread, turn, last \in DOMAIN v :
        /\ thread < turn /\ turn < last
        /\ v[thread] = "thread" /\ v[turn] = "turn" /\ v[last] = "completed"
        /\ \A i \in DOMAIN v \ {thread, turn, last} :
             \/ v[i] = NL
             \/ v[i] = "unknown" /\ i < last
             \/ v[i] = "warning" /\ thread < i /\ i < last
             \/ v[i] = "item" /\ turn < i /\ i < last
  BY <1>1 DEF IsCompletedTurn
<1>3. /\ DOMAIN v = 1 .. Len(v) /\ Len(v) \in Nat /\ n + 1 \in DOMAIN v
      /\ v[n + 1] = e /\ e # NL
  <2>1. (n + 1) % 2 = 1
    OBVIOUS
  <2> QED BY <1>1, <2>1 DEF IsCompletedTurn, OneEventPerLine
<1>4. HeardAt(v, n, p, a, b, c)
  BY <1>1, <1>3 DEF HeardAt
<1>5. p.errors \in Nat /\ p.terminal \in {"none", "turn_completed", "turn_failed"}
  BY DEF Sound, Parsers
<1>6. CASE e \notin EventKinds
  BY <1>2, <1>3, <1>6 DEF EventKinds
<1>7. CASE p.terminal # "none"
  <2>1. c # 0 /\ c \in 1 .. n /\ v[c] \in {"completed", "failed"}
    BY <1>4, <1>7 DEF HeardAt
  <2>2. c = last
    BY <1>2, <1>3, <2>1 DEF NL
  <2> QED BY <1>2, <1>3, <2>1, <2>2
<1>8. CASE p.terminal = "none" /\ e \in EventKinds
  <2>1. c = 0
    BY <1>4, <1>8 DEF HeardAt
  <2>2. \/ e = "thread" /\ (a # 0 \/ b # 0)
        \/ e = "turn" /\ (a = 0 \/ b # 0)
        \/ e = "warning" /\ a = 0
        \/ e \in {"item", "error", "completed", "failed"} /\ (a = 0 \/ b = 0)
        \/ e = "completed" /\ p.errors # 0
    BY <1>4, <1>5, <1>8 DEF HeardAt, Admitted
  <2>3. a = 0 => thread > n
    BY <1>2, <1>3, <1>4, <2>1 DEF HeardAt, NL
  <2>4. b = 0 => turn > n
    BY <1>2, <1>3, <1>4, <2>1 DEF HeardAt, NL
  <2>5. a # 0 => thread = a
    BY <1>2, <1>3, <1>4, <2>1 DEF HeardAt, NL
  <2>6. b # 0 => turn = b /\ a # 0
    BY <1>2, <1>3, <1>4, <2>1 DEF HeardAt, NL
  <2>7. p.errors # 0 => FALSE
    <3>1. SUFFICES ASSUME p.errors # 0 PROVE FALSE
      OBVIOUS
    <3>2. PICK i \in 1 .. n : v[i] = "error"
      BY <1>4, <3>1 DEF HeardAt
    <3> QED BY <1>2, <1>3, <3>2 DEF NL
  <2> HIDE DEF e
  <2> QED BY <1>2, <1>3, <1>4, <2>2, <2>3, <2>4, <2>5, <2>6, <2>7 DEF HeardAt, NL
<1> QED BY <1>5, <1>6, <1>7, <1>8

(* The arithmetic of lines of two units.                                   *)
LEMMA EventEndIsEven ==
  ASSUME NEW p, p.events \in Nat
  PROVE  /\ EventEnd(p) \in Nat /\ EventEnd(p) % 2 = 0
         /\ (EventEnd(p) + 1) % 2 = 1 /\ (EventEnd(p) + 2) % 2 = 0
         /\ \A q : q.events = p.events + 1 => EventEnd(q) = EventEnd(p) + 2
<1>1. PICK m \in Nat : m = p.events
  OBVIOUS
<1>2. EventEnd(p) = 2 * m
  BY <1>1 DEF EventEnd
<1>3. 2 * m \in Nat /\ (2 * m) % 2 = 0 /\ (2 * m + 1) % 2 = 1 /\ (2 * m + 2) % 2 = 0
  OBVIOUS
<1>4. ASSUME NEW q, q.events = p.events + 1 PROVE EventEnd(q) = EventEnd(p) + 2
  <2>1. EventEnd(q) = 2 * (m + 1)
    BY <1>1, <1>4 DEF EventEnd
  <2> QED BY <1>2, <2>1
<1> QED BY <1>2, <1>3, <1>4

(* What _consume_line tells of a line whose text starts behind unit k.     *)
LineRead(w, n, k, p, done) ==
  /\ done.raised = "none" =>
       /\ Len(p.buffer) = 1 /\ n = k + 1
       /\ done.parser.events = p.events + 1 /\ done.parser.buffer = << >>
       /\ w[k + 1] # NL
       /\ Heard(w, k + 1, done.parser)
  /\ done.raised # "none" /\ p.buffer # << >> => Doomed(w, n)

(* _consume_line accepts a line exactly if it is one admitted event.       *)
LEMMA ReadsLine ==
  ASSUME NEW w, NEW n \in Nat, NEW p, Sound(p), Reads(w, n, p),
         NEW k, k = EventEnd(p),
         NEW q, q = [p EXCEPT !.buffer = << >>],
         NEW done, done = ConsumeLine(q, p.buffer)
  PROVE  LineRead(w, n, k, p, done)
<1>1. /\ p.buffer \in Texts /\ p.events \in Nat /\ Len(p.buffer) \in Nat /\ k \in Nat
  <2>1. p.buffer \in Texts /\ p.events \in Nat /\ Len(p.buffer) \in Nat
    BY DEF Sound, Parsers, Texts
  <2> QED BY <2>1, EventEndIsEven
<1>10. k % 2 = 0 /\ (k + 2) % 2 = 0
  BY <1>1, EventEndIsEven
<1>2. \A i \in 1 .. Len(p.buffer) : p.buffer[i] # NL
  BY <1>1 DEF Texts
<1>3. /\ Sound(q) /\ q.events = p.events /\ q.buffer = << >>
      /\ q.threads = p.threads /\ q.turns = p.turns /\ q.terminal = p.terminal
      /\ q.errors = p.errors
  <2>1. << >> \in Texts
    BY DEF Texts
  <2> QED BY <2>1 DEF Sound, OneTurn, Parsers
<1>4. PICK a, b, c \in 0 .. k : HeardAt(w, k, q, a, b, c)
  <2>1. PICK a, b, c \in 0 .. k : HeardAt(w, k, p, a, b, c)
    BY DEF Reads, Heard
  <2>2. HeardAt(w, k, q, a, b, c)
    BY <1>3, <2>1 DEF HeardAt
  <2> QED BY <2>2
<1>5. n = k + Len(p.buffer)
  BY DEF Reads
<1>6. \A i \in 1 .. Len(p.buffer) : p.buffer[i] = w[k + i]
  BY DEF Reads
<1>7. p.buffer # << >> => Len(p.buffer) >= 1 /\ Head(p.buffer) = w[k + 1] /\ w[k + 1] # NL
  <2>1. SUFFICES ASSUME p.buffer # << >>
                 PROVE  Len(p.buffer) >= 1 /\ Head(p.buffer) = w[k + 1] /\ w[k + 1] # NL
    OBVIOUS
  <2>2. Len(p.buffer) >= 1 /\ Head(p.buffer) = p.buffer[1]
    BY <1>1, <2>1 DEF Texts
  <2>3. 1 \in 1 .. Len(p.buffer)
    BY <1>1, <2>2
  <2> QED BY <1>2, <1>6, <2>2, <2>3
<1>8. ASSUME done.raised = "none"
      PROVE  /\ Len(p.buffer) = 1 /\ n = k + 1
             /\ done.parser.events = p.events + 1 /\ done.parser.buffer = << >>
             /\ w[k + 1] # NL
             /\ Heard(w, k + 1, done.parser)
  <2>1. /\ Len(p.buffer) = 1 /\ Head(p.buffer) \in Admitted(q)
        /\ done.parser = Apply(q, Head(p.buffer))
    BY <1>1, <1>3, <1>8, ConsumeLineSound
  <2>2. Head(p.buffer) = w[k + 1] /\ w[k + 1] # NL
    BY <1>7, <2>1
  <2>3. /\ Apply(q, w[k + 1]).events = q.events + 1
        /\ Apply(q, w[k + 1]).buffer = q.buffer
    <3>1. w[k + 1] \in Admitted(q)
      BY <2>1, <2>2
    <3> QED BY <1>3, <3>1, ApplySound
  <2>4. n = k + 1
    BY <1>1, <1>5, <2>1
  <2>5. Heard(w, k + 1, done.parser)
    BY <1>1, <1>3, <1>4, <2>1, <2>2, HeardEvent
  <2> QED BY <1>3, <2>1, <2>2, <2>3, <2>4, <2>5
<1>9. ASSUME done.raised # "none", p.buffer # << >>
      PROVE  Doomed(w, n)
  <2>1. Len(p.buffer) # 1 \/ Head(p.buffer) \notin Admitted(q)
    BY <1>1, <1>3, <1>9, ConsumeLineSound
  <2>2. CASE Len(p.buffer) = 1
    <3>1. k % 2 = 0
      BY <1>10
    <3>2. n = k + 1 /\ w[k + 1] \notin Admitted(q)
      BY <1>1, <1>5, <1>7, <1>9, <2>1, <2>2
    <3> QED BY <1>1, <1>3, <1>4, <3>1, <3>2, HeardRefuses
  <2>3. CASE Len(p.buffer) # 1
    <3>1. Len(p.buffer) >= 2
      <4>1. PICK m : m = Len(p.buffer)
        OBVIOUS
      <4>2. m \in Nat /\ m >= 1 /\ m # 1
        BY <1>1, <1>7, <1>9, <2>3, <4>1
      <4>3. m >= 2
        BY <4>2
      <4> QED BY <1>1, <4>1, <4>3
    <3>2. w[k + 2] # NL
      BY <1>1, <1>2, <1>6, <3>1
    <3>3. k + 2 \in 1 .. n
      BY <1>1, <1>5, <3>1
    <3> QED BY <1>10, <3>2, <3>3, NotAlternating
  <2> QED BY <2>2, <2>3
<1> QED BY <1>8, <1>9 DEF LineRead

(* One unit of feed: the parser goes on reading, or the stream is doomed.  *)
LEMMA ReadsUnit ==
  ASSUME NEW w, NEW n \in Nat, n + 1 <= Len(w), Len(w) \in Nat,
         NEW s \in FeedStates, Sound(s.parser), s.raised = "none",
         NEW p, p = s.parser, Reads(w, n, p),
         NEW u \in Units, u = w[n + 1],
         NEW t, t = FeedUnit(s, u)
  PROVE  /\ t.raised = "none" => Reads(w, n + 1, t.parser)
         /\ t.raised # "none" => Doomed(w, n + 1)
<1>1. PICK k : k = EventEnd(p)
  OBVIOUS
<1>2. /\ p.buffer \in Texts /\ p.events \in Nat /\ Len(p.buffer) \in Nat /\ k \in Nat
  <2>1. p.buffer \in Texts /\ p.events \in Nat /\ Len(p.buffer) \in Nat
    BY DEF Sound, Parsers, Texts
  <2> QED BY <1>1, <2>1, EventEndIsEven
<1>11. (k + 1) % 2 = 1 /\ (k + 2) % 2 = 0
  BY <1>1, <1>2, EventEndIsEven
<1>3. \A i \in 1 .. Len(p.buffer) : p.buffer[i] # NL
  BY <1>2 DEF Texts
<1>4. n = k + Len(p.buffer)
  BY <1>1 DEF Reads
<1>5. \A i \in 1 .. Len(p.buffer) : p.buffer[i] = w[k + i]
  BY <1>1 DEF Reads
<1>6. \A i \in 1 .. k : w[i] = NL <=> i % 2 = 0
  BY <1>1 DEF Reads
<1>7. PICK a, b, c \in 0 .. k : HeardAt(w, k, p, a, b, c)
  BY <1>1 DEF Reads, Heard
<1>8. CASE u = NL
  <2>1. PICK q, done : q = [p EXCEPT !.buffer = << >>] /\ done = ConsumeLine(q, p.buffer)
    OBVIOUS
  <2>2. t.parser = done.parser /\ t.raised = done.raised
    BY <1>8, <2>1 DEF FeedUnit
  <2>3. LineRead(w, n, k, p, done)
    <3>1. Sound(p)
      OBVIOUS
    <3> QED BY <1>1, <2>1, <3>1, ReadsLine
  <2>4. done.raised # "none" /\ p.buffer # << >> => Doomed(w, n)
    BY <2>3 DEF LineRead
  <2>5. CASE done.raised = "none"
    <3>1. PICK r : r = done.parser
      OBVIOUS
    <3>2. PICK x, y, z \in 0 .. k + 1 : HeardAt(w, k + 1, r, x, y, z)
      BY <2>3, <2>5, <3>1 DEF Heard, LineRead
    <3>3. /\ n = k + 1 /\ n + 1 = EventEnd(r) /\ r.buffer = << >> /\ k + 1 \in Nat
          /\ w[k + 1] # NL
      <4>1. n = k + 1 /\ r.events = p.events + 1 /\ r.buffer = << >> /\ w[k + 1] # NL
        BY <2>3, <2>5, <3>1 DEF LineRead
      <4>2. EventEnd(r) = k + 2
        BY <1>1, <1>2, <4>1, EventEndIsEven
      <4> QED BY <1>2, <4>1, <4>2
    <3>4. HeardAt(w, n + 1, r, x, y, z)
      BY <1>8, <3>2, <3>3, HeardNewline
    <3>5. \A i \in 1 .. n + 1 : w[i] = NL <=> i % 2 = 0
      <4>1. (k + 1) % 2 = 1 /\ (k + 2) % 2 = 0
        BY <1>11
      <4>2. k + 2 = n + 1 /\ w[k + 2] = NL
        <5>1. k + 2 = n + 1
          BY <1>2, <3>3
        <5> QED BY <1>8, <5>1
      <4>3. \A i \in 1 .. n + 1 : i \in 1 .. k \/ i = k + 1 \/ i = k + 2
        BY <1>2, <3>3
      <4> QED BY <1>6, <3>3, <4>1, <4>2, <4>3
    <3>6. x \in 0 .. n + 1 /\ y \in 0 .. n + 1 /\ z \in 0 .. n + 1
      BY <3>4 DEF HeardAt
    <3>7. Heard(w, n + 1, r)
      BY <3>4, <3>6 DEF Heard
    <3>8. Len(r.buffer) = 0
      BY <3>3
    <3>9. Reads(w, n + 1, r)
      BY <3>3, <3>5, <3>7, <3>8 DEF Reads
    <3> QED BY <2>2, <2>5, <3>1, <3>9
  <2>6. CASE done.raised # "none" /\ p.buffer # << >>
    BY <2>2, <2>4, <2>6, DoomedLater
  <2>7. CASE done.raised # "none" /\ p.buffer = << >>
    <3>1. n = k
      BY <1>2, <1>4, <2>7
    <3>2. n + 1 \in 1 .. n + 1 /\ w[n + 1] = NL /\ (n + 1) % 2 = 1
      BY <1>8, <1>11, <3>1
    <3>3. Doomed(w, n + 1)
      BY <3>2, NotAlternating
    <3> QED BY <2>2, <2>7, <3>3
  <2> QED BY <2>5, <2>6, <2>7
<1>9. CASE u # NL /\ Len(p.buffer) = MaxLine
  <2>1. t.raised = "output_limit"
    BY <1>9 DEF FeedUnit, FeedStates
  <2>2. Len(p.buffer) >= 1
    BY <1>9, LimitAssumption
  <2>3. w[k + 2] # NL
    <3>1. CASE Len(p.buffer) >= 2
      BY <1>2, <1>3, <1>5, <3>1
    <3>2. CASE Len(p.buffer) = 1
      <4>1. k + 2 = n + 1
        BY <1>2, <1>4, <3>2
      <4> QED BY <1>9, <4>1
    <3>3. Len(p.buffer) = 1 \/ Len(p.buffer) >= 2
      <4>1. PICK m : m = Len(p.buffer)
        OBVIOUS
      <4>2. m \in Nat /\ m >= 1
        BY <1>2, <2>2, <4>1
      <4>3. m = 1 \/ m >= 2
        BY <4>2
      <4> QED BY <1>2, <4>1, <4>3
    <3> QED BY <3>1, <3>2, <3>3
  <2>4. k + 2 \in 1 .. n + 1
    BY <1>2, <1>4, <2>2
  <2>5. Doomed(w, n + 1)
    BY <1>11, <2>3, <2>4, NotAlternating
  <2> QED BY <2>1, <2>5
<1>10. CASE u # NL /\ Len(p.buffer) # MaxLine
  <2>1. PICK r : r = t.parser
    OBVIOUS
  <2>2. t.raised = "none" /\ r = [p EXCEPT !.buffer = Append(@, u)]
    BY <1>10, <2>1 DEF FeedUnit, FeedStates
  <2>3. /\ r.buffer = Append(p.buffer, u) /\ r.events = p.events
        /\ r.threads = p.threads /\ r.turns = p.turns
        /\ r.terminal = p.terminal /\ r.errors = p.errors
    BY <2>2 DEF Sound, OneTurn, Parsers
  <2>4. HeardAt(w, k, r, a, b, c)
    BY <1>7, <2>3 DEF HeardAt
  <2>5. Len(r.buffer) = Len(p.buffer) + 1
    BY <1>2, <2>3 DEF Texts
  <2>6. \A i \in 1 .. Len(p.buffer) : r.buffer[i] = p.buffer[i]
    BY <1>2, <2>3 DEF Texts
  <2>7. r.buffer[Len(p.buffer) + 1] = u
    BY <1>2, <2>3 DEF Texts
  <2>8. \A i \in 1 .. Len(r.buffer) : r.buffer[i] = w[k + i]
    <3> TAKE i \in 1 .. Len(r.buffer)
    <3>1. CASE i \in 1 .. Len(p.buffer)
      BY <1>5, <2>6, <3>1
    <3>2. CASE i = Len(p.buffer) + 1
      <4>1. k + i = n + 1
        BY <1>2, <1>4, <3>2
      <4> QED BY <2>7, <3>2, <4>1
    <3>3. i \in 1 .. Len(p.buffer) \/ i = Len(p.buffer) + 1
      BY <1>2, <2>5
    <3> QED BY <3>1, <3>2, <3>3
  <2>9. n + 1 = k + Len(r.buffer)
    BY <1>2, <1>4, <2>5
  <2>10. Reads(w, n + 1, r)
    <3>1. EventEnd(r) = k
      BY <1>1, <2>3 DEF EventEnd
    <3>2. Heard(w, k, r)
      BY <2>4 DEF Heard
    <3> QED BY <1>6, <2>8, <2>9, <3>1, <3>2 DEF Reads
  <2> QED BY <2>1, <2>2, <2>10
<1> QED BY <1>8, <1>9, <1>10

(* A new parser has read nothing.                                          *)
LEMMA NewParserReads ==
  ASSUME NEW w, Len(w) \in Nat
  PROVE  Reads(w, 0, NewParser)
<1>1. EventEnd(NewParser) = 0 /\ NewParser.buffer = << >>
  BY DEF NewParser, EventEnd
<1>2. HeardAt(w, 0, NewParser, 0, 0, 0)
  BY DEF HeardAt, NewParser
<1>3. Heard(w, 0, NewParser)
  BY <1>2 DEF Heard
<1> QED BY <1>1, <1>3 DEF Reads

(* What is read says nothing of the units after it.                        *)
LEMMA ReadsAgrees ==
  ASSUME NEW w, NEW v, NEW n \in Nat, NEW p, Sound(p), Reads(w, n, p),
         n <= Len(v), \A i \in 1 .. n : v[i] = w[i]
  PROVE  Reads(v, n, p)
<1>1. PICK k : k = EventEnd(p)
  OBVIOUS
<1>2. p.events \in Nat /\ k \in Nat /\ Len(p.buffer) \in Nat
  <2>1. p.events \in Nat /\ Len(p.buffer) \in Nat
    BY DEF Sound, Parsers, Texts
  <2> QED BY <1>1, <2>1, EventEndIsEven
<1>3. n = k + Len(p.buffer)
  BY <1>1 DEF Reads
<1>4. PICK a, b, c \in 0 .. k : HeardAt(w, k, p, a, b, c)
  BY <1>1 DEF Reads, Heard
<1>5. \A i \in 1 .. k : v[i] = w[i]
  BY <1>2, <1>3
<1>6. HeardAt(v, k, p, a, b, c)
  BY <1>2, <1>4, <1>5 DEF HeardAt
<1>7. Heard(v, k, p)
  BY <1>6 DEF Heard
<1>8. \A i \in 1 .. k : v[i] = NL <=> i % 2 = 0
  BY <1>1, <1>5 DEF Reads
<1>9. \A i \in 1 .. Len(p.buffer) : p.buffer[i] = v[k + i]
  <2> TAKE i \in 1 .. Len(p.buffer)
  <2>1. p.buffer[i] = w[k + i]
    BY <1>1 DEF Reads
  <2>2. k + i \in 1 .. n
    BY <1>2, <1>3
  <2> QED BY <2>1, <2>2
<1> QED BY <1>1, <1>3, <1>7, <1>8, <1>9 DEF Reads

(* feed: as long as it does not raise, the parser has read the stream, and *)
(* once it raises, the stream is no completed turn, whatever follows.      *)
LEMMA FeedReads ==
  ASSUME NEW w \in Seq(Units), NEW m \in Nat, NEW n \in Nat, m + n <= Len(w),
         NEW p, Sound(p), p.total = m, Reads(w, m, p),
         NEW chunk \in Seq(Units), Len(chunk) = n,
         \A i \in 1 .. n : chunk[i] = w[m + i]
  PROVE  /\ Feed(p, chunk).raised = "none" =>
              Reads(w, m + n, Feed(p, chunk).parser) /\ m + n <= MaxTotal
         /\ Feed(p, chunk).raised # "none" => Doomed(w, m + n)
<1>1. PICK counted : counted = Counted(p, chunk)
  OBVIOUS
<1>2. PICK start : start = Feeding(counted)
  OBVIOUS
<1>3. /\ Sound(counted) /\ counted.total = m + n /\ counted.buffer = p.buffer
      /\ EventEnd(counted) = EventEnd(p)
      /\ counted.threads = p.threads /\ counted.turns = p.turns
      /\ counted.terminal = p.terminal /\ counted.errors = p.errors
  <2>1. p \in Parsers /\ m + n \in Nat /\ m + n = p.total + Len(chunk)
    BY DEF Sound
  <2>2. counted = [p EXCEPT !.total = m + n]
    BY <1>1, <2>1 DEF Counted
  <2>3. /\ counted.total = m + n /\ counted.buffer = p.buffer
        /\ counted.threads = p.threads /\ counted.turns = p.turns
        /\ counted.terminal = p.terminal /\ counted.errors = p.errors
        /\ counted.events = p.events /\ counted.hints = p.hints
    BY <2>1, <2>2 DEF Parsers
  <2>4. counted \in Parsers
    BY <2>1, <2>2 DEF Parsers
  <2>5. EventEnd(counted) = EventEnd(p)
    BY <2>3 DEF EventEnd
  <2> QED BY <2>3, <2>4, <2>5 DEF Sound, OneTurn
<1>4. Reads(w, m, counted)
  <2>1. Heard(w, EventEnd(p), counted)
    BY <1>3 DEF Reads, Heard, HeardAt
  <2> QED BY <1>3, <2>1 DEF Reads
<1>5. /\ start \in FeedStates /\ Sound(start.parser) /\ start.raised = "none"
      /\ start.parser = counted
  BY <1>2, <1>3 DEF Feeding, FeedStates, Sound, OneTurn, Parsers
<1> DEFINE S == {x \in Nat \X FeedStates :
                   /\ Sound(x[2].parser)
                   /\ x[2].raised = "none" => Reads(w, m + x[1], x[2].parser)
                   /\ x[2].raised # "none" => Doomed(w, m + x[1])}
<1>6. << 0, start >> \in S
  <2>1. m + 0 = m
    OBVIOUS
  <2> QED BY <1>4, <1>5, <2>1
<1>7. ASSUME NEW i \in 1 .. Len(chunk), NEW s, << i - 1, s >> \in S
      PROVE  << i, FeedUnit(s, chunk[i]) >> \in S
  <2>1. /\ i \in Nat /\ i - 1 \in Nat /\ m + (i - 1) \in Nat /\ m + (i - 1) + 1 = m + i
        /\ m + i <= Len(w) /\ Len(w) \in Nat
    OBVIOUS
  <2>2. chunk[i] \in Units /\ chunk[i] = w[m + i]
    OBVIOUS
  <2>3. /\ s \in FeedStates /\ Sound(s.parser)
        /\ s.raised = "none" => Reads(w, m + (i - 1), s.parser)
        /\ s.raised # "none" => Doomed(w, m + (i - 1))
    BY <1>7
  <2>4. PICK t : t = FeedUnit(s, chunk[i])
    OBVIOUS
  <2>5. t \in FeedStates /\ Sound(t.parser)
    BY <2>2, <2>3, <2>4, FeedUnitSound
  <2>6. /\ t.raised = "none" => Reads(w, m + i, t.parser)
        /\ t.raised # "none" => Doomed(w, m + i)
    <3>1. CASE s.raised = "none"
      <4>1. PICK j \in Nat : j = m + (i - 1)
        BY <2>1
      <4>2. j + 1 <= Len(w) /\ chunk[i] = w[j + 1] /\ Reads(w, j, s.parser)
        BY <2>1, <2>2, <2>3, <3>1, <4>1
      <4>3. /\ t.raised = "none" => Reads(w, j + 1, t.parser)
            /\ t.raised # "none" => Doomed(w, j + 1)
        BY <2>1, <2>2, <2>3, <2>4, <3>1, <4>2, ReadsUnit
      <4> QED BY <2>1, <4>1, <4>3
    <3>2. CASE s.raised # "none"
      <4>1. t = s
        BY <2>4, <3>2 DEF FeedUnit
      <4>2. m + i \in Nat /\ m + (i - 1) <= m + i
        BY <2>1
      <4>3. Doomed(w, m + i)
        BY <2>1, <2>3, <3>2, <4>2, DoomedLater
      <4> QED BY <3>2, <4>1, <4>3
    <3> QED BY <3>1, <3>2
  <2> QED BY <2>1, <2>4, <2>5, <2>6
<1>8. PICK fed : fed = Fed(start, chunk)
  OBVIOUS
<1>9. << Len(chunk), fed >> \in S
  <2>1. Len(chunk) \in Nat
    OBVIOUS
  <2> HIDE DEF S
  <2> QED BY <1>6, <1>7, <1>8, <2>1, FedInduction
<1>10. /\ fed.raised = "none" => Reads(w, m + n, fed.parser)
       /\ fed.raised # "none" => Doomed(w, m + n)
  BY <1>9
<1>11. Feed(p, chunk) = IF m + n > MaxTotal
                        THEN Step(counted, "output_limit") ELSE Step(fed.parser, fed.raised)
  BY <1>1, <1>2, <1>8 DEF Feed
<1>12. CASE m + n > MaxTotal
  <2>1. Doomed(w, m + n)
    BY <1>12, DoomedTotal
  <2> QED BY <1>11, <1>12, <2>1 DEF Step
<1>13. CASE ~(m + n > MaxTotal)
  <2>1. m + n <= MaxTotal
    BY <1>13, LimitAssumption
  <2> QED BY <1>10, <1>11, <1>13, <2>1 DEF Step
<1> QED BY <1>12, <1>13

(* Of a whole stream, one event per line, the parser has heard a completed *)
(* turn exactly if it is one.                                              *)
LEMMA HeardStream ==
  ASSUME NEW w \in Seq(Units), Len(w) <= MaxTotal, OneEventPerLine(w),
         NEW p, Sound(p), Heard(w, Len(w), p)
  PROVE  /\ p.terminal = "turn_completed" <=> IsCompletedTurn(w)
         /\ p.terminal = "turn_completed" => p.threads > 0 /\ p.turns > 0
<1>1. PICK a, b, c \in 0 .. Len(w) : HeardAt(w, Len(w), p, a, b, c)
  BY DEF Heard
<1>2. /\ p.terminal \in {"none", "turn_completed", "turn_failed"}
      /\ p.terminal = "turn_completed" => p.errors = 0
      /\ DOMAIN w = 1 .. Len(w) /\ Len(w) \in Nat
  BY DEF Sound, Parsers
<1>3. ASSUME p.terminal = "turn_completed"
      PROVE  IsCompletedTurn(w) /\ p.threads > 0 /\ p.turns > 0
  <2>1. /\ a \in DOMAIN w /\ b \in DOMAIN w /\ c \in DOMAIN w
        /\ a < b /\ b < c /\ w[a] = "thread" /\ w[b] = "turn" /\ w[c] = "completed"
        /\ p.threads > 0 /\ p.turns > 0
    BY <1>1, <1>2, <1>3 DEF HeardAt
  <2>2. \A i \in DOMAIN w \ {a, b, c} :
          \/ w[i] = NL
          \/ w[i] = "unknown" /\ i < c
          \/ w[i] = "warning" /\ a < i /\ i < c
          \/ w[i] = "item" /\ b < i /\ i < c
    BY <1>1, <1>2, <1>3, <2>1 DEF HeardAt
  <2> QED BY <2>1, <2>2 DEF IsCompletedTurn
<1>4. ASSUME IsCompletedTurn(w)
      PROVE  p.terminal = "turn_completed"
  <2>1. PICK last \in DOMAIN w : w[last] = "completed"
    BY <1>4 DEF IsCompletedTurn
  <2>2. last = c /\ c # 0
    BY <1>1, <1>2, <2>1 DEF HeardAt, NL
  <2> QED BY <1>1, <1>2, <2>1, <2>2 DEF HeardAt
<1> QED BY <1>3, <1>4

(* finish, at the end of a stream that raised nothing so far: it accepts   *)
(* exactly the completed turns.                                            *)
LEMMA FinishReads ==
  ASSUME NEW w \in Seq(Units), NEW n, n = Len(w), n <= MaxTotal,
         NEW p, Sound(p), Reads(w, n, p)
  PROVE  Finish(p).raised = "none" /\ Finish(p).parser.terminal = "turn_completed"
           <=> IsCompletedTurn(w)
<1>1. PICK k : k = EventEnd(p)
  OBVIOUS
<1>2. n \in Nat /\ p.buffer \in Texts /\ p.events \in Nat /\ Len(p.buffer) \in Nat
  BY DEF Sound, Parsers, Texts
<1>3. k \in Nat /\ (k + 1) % 2 = 1
  BY <1>1, <1>2, EventEndIsEven
<1>4. n = k + Len(p.buffer)
  BY <1>1 DEF Reads
<1>5. \A i \in 1 .. k : w[i] = NL <=> i % 2 = 0
  BY <1>1 DEF Reads
<1>6. PICK f : f = Finish(p)
  OBVIOUS
<1>7. ASSUME Sound(f.parser), Heard(w, n, f.parser), OneEventPerLine(w),
             f.raised = IF \/ f.parser.terminal = "turn_failed"
                           \/ /\ f.parser.terminal = "turn_completed"
                              /\ f.parser.threads > 0 /\ f.parser.turns > 0
                        THEN "none" ELSE "protocol_error"
      PROVE  f.raised = "none" /\ f.parser.terminal = "turn_completed" <=> IsCompletedTurn(w)
  BY <1>7, HeardStream
<1>8. CASE p.buffer = << >>
  <2>1. /\ f.parser = p
        /\ f.raised = IF \/ p.terminal = "turn_failed"
                         \/ p.terminal = "turn_completed" /\ p.threads > 0 /\ p.turns > 0
                      THEN "none" ELSE "protocol_error"
    BY <1>6, <1>8 DEF Finish, Step
  <2>2. k = n
    BY <1>3, <1>4, <1>8
  <2>3. Heard(w, n, p) /\ OneEventPerLine(w)
    <3>1. DOMAIN w = 1 .. k
      BY <2>2
    <3>2. Heard(w, n, p)
      BY <1>1, <2>2 DEF Reads
    <3> QED BY <1>5, <3>1, <3>2 DEF OneEventPerLine
  <2> QED BY <1>6, <1>7, <2>1, <2>3
<1>9. CASE p.buffer # << >>
  <2>1. PICK q, done : q = [p EXCEPT !.buffer = << >>] /\ done = ConsumeLine(q, p.buffer)
    OBVIOUS
  <2>2. LineRead(w, n, k, p, done)
    BY <1>1, <1>2, <2>1, ReadsLine
  <2>3. /\ f.parser = done.parser
        /\ f.raised = IF done.raised # "none" THEN done.raised
                      ELSE IF \/ done.parser.terminal = "turn_failed"
                              \/ /\ done.parser.terminal = "turn_completed"
                                 /\ done.parser.threads > 0 /\ done.parser.turns > 0
                      THEN "none" ELSE "protocol_error"
    BY <1>6, <1>9, <2>1 DEF Finish
  <2>4. CASE done.raised # "none"
    <3>1. Doomed(w, n)
      BY <1>9, <2>2, <2>4 DEF LineRead
    <3>2. ~ IsCompletedTurn(w)
      BY <3>1 DEF Doomed
    <3> QED BY <1>6, <2>3, <2>4, <3>2
  <2>5. CASE done.raised = "none"
    <3>1. n = k + 1 /\ w[k + 1] # NL /\ Heard(w, n, done.parser)
      BY <2>2, <2>5 DEF LineRead
    <3>2. OneEventPerLine(w)
      <4>1. \A i \in DOMAIN w : i \in 1 .. k \/ i = k + 1
        <5>1. k \in Nat
          BY <1>3
        <5>2. DOMAIN w = 1 .. k + 1
          <6>1. DOMAIN w = 1 .. n
            OBVIOUS
          <6> QED BY <3>1, <6>1
        <5>3. \A i \in 1 .. k + 1 : i \in 1 .. k \/ i = k + 1
          BY <5>1
        <5> QED BY <5>2, <5>3
      <4>2. \A i \in DOMAIN w : w[i] = NL <=> i % 2 = 0
        <5> TAKE i \in DOMAIN w
        <5>1. CASE i \in 1 .. k
          BY <1>5, <5>1
        <5>2. CASE i = k + 1
          BY <1>3, <3>1, <5>2
        <5> QED BY <4>1, <5>1, <5>2
      <4> QED BY <4>2 DEF OneEventPerLine
    <3>3. Sound(done.parser)
      <4>1. << >> \in Texts
        BY DEF Texts
      <4>2. Sound(q)
        BY <2>1, <4>1 DEF Sound, OneTurn, Parsers
      <4> QED BY <1>2, <2>1, <4>2, ConsumeLineSound
    <3> QED BY <1>6, <1>7, <2>3, <2>5, <3>1, <3>2, <3>3
  <2> QED BY <2>4, <2>5
<1> QED BY <1>8, <1>9

(* finish keeps the parser sound.                                          *)
LEMMA FinishSound ==
  ASSUME NEW p, Sound(p)
  PROVE  /\ Sound(Finish(p).parser) /\ Finish(p).parser.total = p.total
         /\ Finish(p).raised \in {"none"} \cup Errors
<1>1. PICK q : q = [p EXCEPT !.buffer = << >>]
  OBVIOUS
<1>2. Sound(q) /\ q.total = p.total /\ p.buffer \in Texts
  <2>1. << >> \in Texts
    BY DEF Texts
  <2> QED BY <1>1, <2>1 DEF Sound, OneTurn, Parsers
<1>3. CASE p.buffer = << >>
  BY <1>3 DEF Finish, Step, Errors
<1>4. CASE p.buffer # << >>
  <2>1. PICK done : done = ConsumeLine(q, p.buffer)
    OBVIOUS
  <2>2. /\ Sound(done.parser) /\ done.parser.total = q.total
        /\ done.raised \in {"none"} \cup Errors
    BY <1>2, <2>1, ConsumeLineSound
  <2>3. /\ Finish(p).parser = done.parser
        /\ Finish(p).raised \in {done.raised, "none", "protocol_error"}
    BY <1>1, <1>4, <2>1 DEF Finish
  <2> QED BY <1>2, <2>2, <2>3 DEF Errors
<1> QED BY <1>3, <1>4

-----------------------------------------------------------------------------
(* While the stream is open, the reader has read it up to what is still in *)
(* the pipe, or an error was raised and no continuation is a completed     *)
(* turn.                                                                   *)
StreamInv ==
  /\ stream \in Seq(Units) /\ unread \in 0 .. Len(stream)
  /\ verdict = "open" /\ error = "none" =>
       /\ Sound(reader) /\ reader.total = Len(stream) - unread
       /\ reader.total <= MaxTotal /\ Reads(stream, Len(stream) - unread, reader)
  /\ verdict = "open" /\ error # "none" => Doomed(stream, Len(stream) - unread)
  /\ SuccessIsOneCompletedTurn

(* It holds of the empty stream.                                           *)
LEMMA StreamInitInv == StreamInit => StreamInv
<1> SUFFICES ASSUME StreamInit PROVE StreamInv
  OBVIOUS
<1>1. stream = << >> /\ unread = 0 /\ reader = NewParser /\ error = "none" /\ verdict = "open"
  BY DEF StreamInit
<1>2. stream \in Seq(Units) /\ Len(stream) = 0
  BY <1>1
<1>3. Reads(stream, 0, reader) /\ Sound(reader) /\ reader.total = 0
  BY <1>1, <1>2, NewParserReads, NewParserSound DEF NewParser
<1>4. 0 <= MaxTotal
  BY LimitAssumption
<1> QED BY <1>1, <1>2, <1>3, <1>4 DEF StreamInv, SuccessIsOneCompletedTurn

(* It is inductive: writing adds behind what was read (ReadsAgrees), a     *)
(* read is FeedReads, and the end of the stream is FinishReads.            *)
LEMMA StreamNextInv == StreamInv /\ [StreamNext]_streamVars => StreamInv'
<1> SUFFICES ASSUME StreamInv, [StreamNext]_streamVars PROVE StreamInv'
  OBVIOUS
<1>1. stream \in Seq(Units) /\ unread \in 0 .. Len(stream) /\ Len(stream) \in Nat
  BY DEF StreamInv
<1>2. PICK m \in Nat : m = Len(stream) - unread
  BY <1>1
<1>3. verdict = "open" /\ error = "none" =>
        /\ Sound(reader) /\ reader.total = m /\ reader.total <= MaxTotal
        /\ Reads(stream, m, reader)
  BY <1>2 DEF StreamInv
<1>4. verdict = "open" /\ error # "none" => Doomed(stream, m)
  BY <1>2 DEF StreamInv
<1>5. ASSUME NEW u \in Alphabet, Write(u) PROVE StreamInv'
  <2>1. /\ verdict = "open" /\ verdict' = verdict /\ error' = error /\ reader' = reader
        /\ stream' = Append(stream, u) /\ unread' = unread + 1
    BY <1>5 DEF Write
  <2>2. u \in Units
    BY AlphabetAssumption
  <2>3. /\ stream' \in Seq(Units) /\ Len(stream') = Len(stream) + 1
        /\ \A i \in 1 .. Len(stream) : stream'[i] = stream[i]
    BY <1>1, <2>1, <2>2
  <2>4. /\ unread' \in 0 .. Len(stream') /\ Len(stream') - unread' = m
        /\ m <= Len(stream') /\ \A i \in 1 .. m : stream'[i] = stream[i]
    BY <1>1, <1>2, <2>1, <2>3
  <2>5. error = "none" => Reads(stream', m, reader)
    BY <1>3, <2>1, <2>4, ReadsAgrees
  <2>6. error # "none" => Doomed(stream', m)
    BY <1>2, <1>4, <2>1, <2>4 DEF Doomed
  <2>7. SuccessIsOneCompletedTurn'
    BY <2>1 DEF SuccessIsOneCompletedTurn
  <2> QED BY <1>3, <2>1, <2>3, <2>4, <2>5, <2>6, <2>7 DEF StreamInv
<1>6. CASE Read
  <2>1. /\ verdict = "open" /\ verdict' = verdict /\ stream' = stream
    BY <1>6 DEF Read
  <2>9. PICK chunk \in Chunks :
          /\ unread' = unread - Len(chunk)
          /\ reader' = Feed(reader, chunk).parser
          /\ error' = IF Feed(reader, chunk).raised = "none" THEN error
                      ELSE Feed(reader, chunk).raised
    BY <1>6 DEF Read
  <2>2. PICK n \in 1 .. unread : chunk = SubSeq(stream, m + 1, m + n)
    BY <1>2, <2>9 DEF Chunks
  <2>3. n \in Nat /\ m + n \in Nat /\ m + n <= Len(stream)
    BY <1>1, <1>2
  <2>4. /\ chunk \in Seq(Units) /\ Len(chunk) = n
        /\ \A i \in 1 .. n : chunk[i] = stream[m + i]
    <3>1. m + 1 \in 1 .. Len(stream) + 1 /\ m + n - (m + 1) + 1 = n
      BY <1>1, <2>3
    <3>2. /\ Len(SubSeq(stream, m + 1, m + n)) = n
          /\ SubSeq(stream, m + 1, m + n) \in Seq(Units)
      BY <1>1, <2>3
    <3>3. \A i \in 1 .. n : SubSeq(stream, m + 1, m + n)[i] = stream[m + i]
      BY <1>1, <2>3
    <3> QED BY <2>2, <3>2, <3>3
  <2>5. unread' \in 0 .. Len(stream) /\ Len(stream) - unread' = m + n
    BY <1>1, <1>2, <2>2, <2>3, <2>4, <2>9
  <2>6. PICK fed : fed = Feed(reader, chunk)
    OBVIOUS
  <2>7. CASE error = "none"
    <3>1. /\ fed.raised = "none" =>
               Reads(stream, m + n, fed.parser) /\ m + n <= MaxTotal
          /\ fed.raised # "none" => Doomed(stream, m + n)
      BY <1>1, <1>3, <2>1, <2>3, <2>4, <2>6, <2>7, FeedReads
    <3>2. Sound(fed.parser) /\ fed.parser.total = m + n
      BY <1>3, <2>1, <2>4, <2>6, <2>7, FeedSound
    <3>3. SuccessIsOneCompletedTurn'
      BY <2>1 DEF SuccessIsOneCompletedTurn
    <3> QED BY <1>1, <2>1, <2>5, <2>6, <2>7, <2>9, <3>1, <3>2, <3>3 DEF StreamInv
  <2>8. CASE error # "none"
    <3>1. error' # "none"
      BY <2>9, <2>8
    <3>2. Doomed(stream, m + n)
      BY <1>4, <2>1, <2>3, <2>8, DoomedLater
    <3>3. SuccessIsOneCompletedTurn'
      BY <2>1 DEF SuccessIsOneCompletedTurn
    <3> QED BY <1>1, <2>1, <2>5, <3>1, <3>2, <3>3 DEF StreamInv
  <2> QED BY <2>7, <2>8
<1>7. CASE EndOfStream
  <2>1. /\ verdict = "open" /\ unread = 0 /\ unread' = unread /\ stream' = stream
        /\ m = Len(stream)
    BY <1>1, <1>2, <1>7 DEF EndOfStream
  <2>2. PICK f : f = Finish(reader)
    OBVIOUS
  <2>3. /\ reader' = IF error = "none" THEN f.parser ELSE reader
        /\ error' = IF error = "none" THEN f.raised ELSE error
        /\ verdict' = IF error' = "none" /\ reader'.terminal = "turn_completed"
                      THEN "success" ELSE "failure"
    BY <1>7, <2>2 DEF EndOfStream
  <2>4. verdict' = "success" <=> IsCompletedTurn(stream)
    <3>1. CASE error = "none"
      <4>1. f.raised = "none" /\ f.parser.terminal = "turn_completed"
              <=> IsCompletedTurn(stream)
        BY <1>1, <1>3, <2>1, <2>2, <3>1, FinishReads
      <4> QED BY <2>3, <3>1, <4>1
    <3>2. CASE error # "none"
      <4>1. ~ IsCompletedTurn(stream)
        BY <1>1, <1>4, <2>1, <3>2 DEF Doomed
      <4> QED BY <2>3, <3>2, <4>1
    <3> QED BY <3>1, <3>2
  <2> QED BY <1>1, <2>1, <2>3, <2>4 DEF StreamInv, SuccessIsOneCompletedTurn
<1>8. CASE UNCHANGED streamVars
  BY <1>8 DEF StreamInv, streamVars, SuccessIsOneCompletedTurn
<1>9. CASE StreamDone
  BY <1>8, <1>9 DEF StreamDone
<1> QED BY <1>5, <1>6, <1>7, <1>8, <1>9 DEF StreamNext

(* The parser accepts a stream exactly if it is one completed turn, for    *)
(* every length, every limit and every way the pipe cuts it.               *)
THEOREM AcceptsExactlyTheTurns == StreamSpec => []SuccessIsOneCompletedTurn
<1>1. StreamInv => SuccessIsOneCompletedTurn
  BY DEF StreamInv
<1> QED BY <1>1, StreamInitInv, StreamNextInv, PTL DEF StreamSpec
================================================================================
