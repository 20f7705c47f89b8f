---------------------------- MODULE TokenStream ----------------------------
(***************************************************************************)
(* The token stream (source/token_stream.c): a scanner that fills a ring   *)
(* of N tokens on demand, and the calls the parser and the token dump make *)
(* on it.  A source text is the sequence of its lexemes; what a lexeme     *)
(* says is abstracted to its position, its kind to how scan_lexem treats   *)
(* the end of it:                                                          *)
(*   word   identifier, keyword, number: the character after is looked at  *)
(*   mark   punctuation, closed string: nothing after is looked at         *)
(*   space  white space          block  a closed block comment             *)
(*   line   a line comment       odd    an invalid character               *)
(* and, as the last lexeme only,                                           *)
(*   quote  an unterminated string       open  an unclosed block comment   *)
(*   tail   a line comment that ends with the file instead of a newline    *)
(***************************************************************************)
EXTENDS Integers, Sequences, FiniteSets

CONSTANTS
  N,         \* STREAM_DATA_COUNT
  SizeMod,   \* one more than the largest size_t
  Texts      \* the source texts

Lexemes == {"word", "mark", "space", "block", "line", "odd", "quote", "open", "tail"}

ASSUME RingAssumption == N \in Nat /\ N >= 2
ASSUME SizeAssumption == SizeMod \in Nat /\ SizeMod > N + 1
ASSUME TextsAssumption == \A t \in Texts : t \in Seq(Lexemes)

VARIABLES
  text,      \* the source text
  current,   \* the next lexeme to scan
  ended,     \* the terminating NUL was seen
  hasError,  \* has_error
  items,     \* the ring
  read,      \* read_cursor, never wrapped
  write,     \* write_cursor, never wrapped
  pc,        \* "idle", "scan", "spin" or "exited"
  op,        \* the call that is waiting for start_scanning
  reply,     \* the last call and its answer
  scanned    \* history: every token added to the ring, in order

vars == <<text, current, ended, hasError, items, read, write, pc, op, reply, scanned>>

\* A token is the position of its lexeme.
EOF     == 0
NoToken == -1

(***************************************************************************)
(* The ring.                                                               *)
(***************************************************************************)
\* write_cursor - read_cursor, a size_t: it wraps when the reader is ahead.
Unread == IF read <= write THEN write - read ELSE SizeMod - (read - write)

Empty == write <= read
Slot(cursor) == items[cursor % N]

(***************************************************************************)
(* Scanning.                                                               *)
(***************************************************************************)
\* The lexeme scan_lexem starts at: skip_whitespace goes over the spaces.
FirstFrom(p) ==
  LET solid == {i \in p .. Len(text) : text[i] # "space"}
  IN  IF solid = {} THEN Len(text) + 1
      ELSE CHOOSE i \in solid : \A j \in solid : i <= j

AddToken(p) ==
  /\ items' = [items EXCEPT ![write % N] = p]
  /\ write' = write + 1
  /\ scanned' = Append(scanned, p)

NoNewToken == UNCHANGED <<items, write, scanned>>

\* One turn of start_scanning's loop.
ScanLexeme ==
  LET p == FirstFrom(current)
      atEnd == p > Len(text)
      kind == text[p]
      last == p = Len(text)
  IN  /\ current' = IF atEnd THEN p ELSE p + 1
      /\ ended' = (atEnd \/ (kind = "word" /\ last) \/ kind \in {"quote", "open", "tail"})
      /\ hasError' = (hasError \/ (~atEnd /\ kind \in {"odd", "quote", "open"}))
      /\ IF ~atEnd /\ kind \in {"word", "mark", "quote"} THEN AddToken(p) ELSE NoNewToken
      /\ pc' = IF ~atEnd /\ kind = "tail" THEN "spin" ELSE pc
      /\ UNCHANGED <<text, read, op, reply>>

\* Mutant: a full ring is filled further.
MoreByOne == ~ended /\ Unread <= N
\* Mutant: the end of the text does not stop the scan.
MorePastEnd == Unread < N

\* The condition of start_scanning's loop.
More == ~ended /\ Unread < N

Scan == pc = "scan" /\ More /\ ScanLexeme

\* advance_until looks for a newline that does not come: advance stands still
\* once the text has ended.
Spin == pc = "spin" /\ UNCHANGED vars

\* exit(67)
Exit ==
  /\ pc = "scan" /\ ~More /\ hasError
  /\ pc' = "exited"
  /\ UNCHANGED <<text, current, ended, hasError, items, read, write, op, reply, scanned>>

(***************************************************************************)
(* The calls.  One that needs start_scanning waits in "scan" and goes on   *)
(* in Resume.                                                              *)
(***************************************************************************)
Source == <<text, current, ended, hasError, items, write, scanned>>

Wait(call) ==
  /\ pc' = "scan" /\ op' = call
  /\ UNCHANGED <<Source, read, reply>>

Answer(call, token) ==
  /\ pc' = "idle" /\ op' = "none"
  /\ reply' = <<call, token>>
  /\ UNCHANGED Source

PeekNow == Answer("peek", IF Empty THEN EOF ELSE Slot(read)) /\ UNCHANGED read

\* Mutant: the stale slot after the last token is returned.
NextUnchecked == Answer("next", Slot(read + 1)) /\ UNCHANGED read
NextNow == Answer("next", IF Unread < 2 THEN EOF ELSE Slot(read + 1)) /\ UNCHANGED read

AdvanceNow == Answer("advance", IF Empty THEN EOF ELSE Slot(read)) /\ read' = read + 1

Peek == pc = "idle" /\ IF Empty THEN Wait("peek") ELSE PeekNow

\* The parser asks for the token after next only when the next one is an
\* identifier it has just looked at.
PeekNext ==
  /\ pc = "idle"
  /\ reply[1] = "peek" /\ reply[2] # EOF
  /\ IF Empty \/ Unread < 2 THEN Wait("next") ELSE NextNow

Advance ==
  /\ pc = "idle"
  /\ IF ended /\ Empty THEN Answer("advance", NoToken) /\ UNCHANGED read
     ELSE IF Empty THEN Wait("advance") ELSE AdvanceNow

Resume ==
  /\ pc = "scan" /\ ~More /\ ~hasError
  /\ \/ op = "peek" /\ PeekNow
     \/ op = "next" /\ NextNow
     \/ op = "advance" /\ AdvanceNow

Init ==
  /\ text \in Texts
  /\ current = 1
  /\ ended = FALSE /\ hasError = FALSE
  /\ items = [i \in 0 .. N - 1 |-> NoToken]
  /\ read = 0 /\ write = 0
  /\ pc = "idle" /\ op = "none"
  /\ reply = <<"none", NoToken>>
  /\ scanned = <<>>

Exited == pc = "exited" /\ UNCHANGED vars

Step == Scan \/ Spin \/ Exit \/ Resume

Next == Step \/ Peek \/ PeekNext \/ Advance \/ Exited

\* A call that has begun runs on; callers call when they please.
Spec == Init /\ [][Next]_vars /\ WF_vars(Step)

(***************************************************************************)
(* Properties.                                                             *)
(***************************************************************************)
Positions == 1 .. Len(text)

\* The variables hold what the struct's fields can; a token is a position in
\* the text.
TypeOK ==
  /\ current \in 1 .. Len(text) + 1
  /\ ended \in BOOLEAN /\ hasError \in BOOLEAN
  /\ items \in [0 .. N - 1 -> Positions \cup {NoToken}]
  /\ read \in Nat /\ write \in Nat
  /\ pc \in {"idle", "scan", "spin", "exited"}
  /\ op \in {"none", "peek", "next", "advance"}
  /\ scanned \in Seq(Positions)

\* The scanner never overwrites a token that has not been read, however the
\* cursors have gone round the ring: each slot from read_cursor up to
\* write_cursor holds the token scanned in that turn.
RingHoldsUnread ==
  /\ write = Len(scanned) /\ write - read <= N
  /\ \A c \in read .. write - 1 : Slot(c) = scanned[c + 1]

\* token_stream_advance moves read_cursor past write_cursor by one at most,
\* and only once the text has ended: the wrapped difference of the cursors is
\* never taken for a ring with free room.
OverrunByOne == read <= write + 1 /\ (read > write => ended)

\* No call is answered after the scanner has reported an error.
NoAnswerAfterError == hasError => pc # "idle"

\* Every call is answered, or the program exits.
EveryCallAnswered == pc = "scan" ~> pc \in {"idle", "exited"}

\* Every call on a text that does not end in an open line comment is answered,
\* or the program exits: start_scanning runs out of room or of text.
ClosedTextAnswered ==
  (pc = "scan" /\ \A p \in Positions : text[p] # "tail") ~> pc \in {"idle", "exited"}

\* Where the tokens of a text are.
TokenAt(t) == {p \in DOMAIN t : t[p] \in {"word", "mark", "quote"}}

\* The tokens of a text, those scanned and those to come.
TokensOf(t) ==
  LET upTo(p) == {q \in TokenAt(t) : q <= p}
  IN  [n \in 1 .. Cardinality(TokenAt(t)) |->
         CHOOSE p \in TokenAt(t) : Cardinality(upTo(p)) = n]

Queue == INSTANCE TokenQueue WITH
           rest <- SubSeq(TokensOf(text), read + 1, Len(TokensOf(text))),
           exited <- pc = "exited"

\* The stream answers every call as the queue of the text's tokens would.
ImplementsQueue == Queue!Spec
=============================================================================
