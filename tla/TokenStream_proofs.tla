-------------------------- MODULE TokenStream_proofs --------------------------
(***************************************************************************)
(* The ring buffer of the token stream is correct for every capacity,      *)
(* every size_t wide enough and every text: the safety properties of       *)
(* TokenStream, from one inductive invariant, and that the stream answers  *)
(* as the queue of the text's tokens does.                                 *)
(***************************************************************************)
EXTENDS TokenStream, FiniteSetTheorems, SequenceTheorems, WellFoundedInduction, TLAPS

(***************************************************************************)
(* Arithmetic.                                                             *)
(***************************************************************************)
\* A set of naturals that is not empty has a least element.
LEMMA LeastElement ==
  ASSUME NEW S, S \subseteq Nat, S # {}
  PROVE  \E x \in S : \A y \in S : x <= y
<1> DEFINE R == OpToRel(<, Nat)
<1>1. \E x \in S : \A y \in S : ~(<<y, x>> \in R)
  <2>1. IsWellFoundedOn(R, Nat)
    BY NatLessThanWellFounded
  <2> HIDE DEF R
  <2> QED BY <2>1, WFMin
<1>2. \A x, y \in Nat : ~(<<y, x>> \in R) => x <= y
  BY DEF OpToRel
<1> QED BY <1>1, <1>2

\* Cursors less than a turn of the ring apart are at different slots.
LEMMA SlotsDiffer ==
  ASSUME NEW n \in Nat, n > 0, NEW a \in Nat, NEW b \in Nat, a < b, b - a < n
  PROVE  a % n # b % n
<1> DEFINE turns == (b \div n) - (a \div n)
<1>1. /\ a = n * (a \div n) + (a % n) /\ a \div n \in Int
      /\ b = n * (b \div n) + (b % n) /\ b \div n \in Int
  OBVIOUS
<1>2. ASSUME a % n = b % n PROVE FALSE
  <2>1. b - a = n * turns /\ turns \in Int
    BY <1>1, <1>2
  <2> HIDE DEF turns
  <2>2. turns > 0
    BY <2>1
  <2>3. n * turns >= n
    BY <2>1, <2>2
  <2> QED BY <2>1, <2>3
<1> QED BY <1>2

LEMMA SlotInRing ==
  ASSUME NEW n \in Nat, n > 0, NEW a \in Nat
  PROVE  a % n \in 0 .. n - 1
OBVIOUS

(***************************************************************************)
(* The invariant.                                                          *)
(***************************************************************************)
\* An advance that waits for the scanner has found nothing wrong with the
\* cursors: without this the one past the end could become two.
AdvanceWaits == pc = "scan" /\ op = "advance" => read <= write

IInv ==
  /\ text \in Seq(Lexemes) /\ TypeOK
  /\ RingHoldsUnread /\ OverrunByOne /\ AdvanceWaits
  /\ NoAnswerAfterError

\* What skip_whitespace stops at is ahead, at the end of the text at most.
LEMMA FirstFromAhead ==
  ASSUME IInv
  PROVE  FirstFrom(current) \in current .. Len(text) + 1
<1> DEFINE solid == {i \in current .. Len(text) : text[i] # "space"}
<1>1. Len(text) \in Nat /\ current \in 1 .. Len(text) + 1
  BY DEF IInv, TypeOK
<1>2. CASE solid = {}
  BY <1>1, <1>2 DEF FirstFrom
<1>3. CASE solid # {}
  <2>1. solid \subseteq Nat
    BY <1>1
  <2>2. \E x \in solid : \A y \in solid : x <= y
    BY <1>3, <2>1, LeastElement
  <2>3. FirstFrom(current) \in solid
    BY <1>3, <2>2 DEF FirstFrom
  <2> QED BY <1>1, <2>3
<1> QED BY <1>2, <1>3

\* A token goes to the slot of write_cursor, which no unread token is in.
LEMMA AddTokenKeepsRing ==
  ASSUME IInv, More, NEW p \in Positions, AddToken(p), UNCHANGED <<text, read>>
  PROVE  /\ items' \in [0 .. N - 1 -> Positions \cup {NoToken}]
         /\ write' \in Nat /\ scanned' \in Seq(Positions)
         /\ read <= write /\ write < write'
         /\ RingHoldsUnread'
<1>1. /\ N \in Nat /\ N >= 2 /\ Len(text) \in Nat
      /\ read \in Nat /\ write \in Nat /\ scanned \in Seq(Positions)
      /\ items \in [0 .. N - 1 -> Positions \cup {NoToken}]
      /\ write = Len(scanned)
  BY RingAssumption DEF IInv, TypeOK, RingHoldsUnread
<1>2. read <= write /\ write - read < N
  BY <1>1 DEF IInv, OverrunByOne, More, Unread
<1>3. /\ items' = [items EXCEPT ![write % N] = p]
      /\ write' = write + 1 /\ scanned' = Append(scanned, p)
  BY DEF AddToken
<1>4. write % N \in 0 .. N - 1
  BY <1>1, SlotInRing
<1>5. /\ scanned' \in Seq(Positions) /\ Len(scanned') = write + 1
      /\ scanned'[write + 1] = p
      /\ \A i \in 1 .. write : scanned'[i] = scanned[i]
  BY <1>1, <1>3
<1>6. ASSUME NEW c \in read .. write' - 1
      PROVE  items'[c % N] = scanned'[c + 1]
  <2>1. CASE c = write
    BY <1>1, <1>3, <1>4, <1>5, <2>1
  <2>2. CASE c < write
    <3>1. c \in Nat /\ c \in read .. write - 1 /\ c + 1 \in 1 .. write
      BY <1>1, <1>3, <2>2
    <3>2. c % N # write % N /\ c % N \in 0 .. N - 1
      <4>1. write - c < N /\ N > 0
        BY <1>1, <1>2, <3>1
      <4>2. c % N # write % N
        BY <1>1, <2>2, <3>1, <4>1, SlotsDiffer
      <4>3. c % N \in 0 .. N - 1
        BY <1>1, <3>1, <4>1, SlotInRing
      <4> QED BY <4>2, <4>3
    <3>3. items'[c % N] = items[c % N]
      BY <1>1, <1>3, <3>2
    <3>4. items[c % N] = scanned[c + 1]
      BY <3>1 DEF IInv, RingHoldsUnread, Slot
    <3> QED BY <1>5, <3>1, <3>3, <3>4
  <2> QED BY <1>1, <1>3, <2>1, <2>2
<1>7. RingHoldsUnread'
  BY <1>1, <1>2, <1>3, <1>5, <1>6 DEF RingHoldsUnread, Slot
<1>8. items' \in [0 .. N - 1 -> Positions \cup {NoToken}]
  BY <1>1, <1>3, <1>4
<1> QED BY <1>1, <1>2, <1>3, <1>5, <1>7, <1>8

(***************************************************************************)
(* Every action keeps the invariant.                                       *)
(***************************************************************************)
LEMMA ScanKeepsIInv == ASSUME IInv, Scan PROVE IInv'
<1> DEFINE p == FirstFrom(current)
<1>1. /\ Len(text) \in Nat /\ p \in 1 .. Len(text) + 1
      /\ text' = text /\ read' = read /\ op' = op
  BY FirstFromAhead DEF IInv, TypeOK, Scan, ScanLexeme
<1>2. /\ current' \in 1 .. Len(text) + 1 /\ ended' \in BOOLEAN /\ hasError' \in BOOLEAN
      /\ pc' \in {"scan", "spin"}
  <2>1. current' \in 1 .. Len(text) + 1
    BY <1>1 DEF Scan, ScanLexeme
  <2>2. ended' \in BOOLEAN /\ hasError' \in BOOLEAN
    BY DEF Scan, ScanLexeme
  <2>3. pc' \in {"scan", "spin"}
    BY DEF Scan, ScanLexeme
  <2> QED BY <2>1, <2>2, <2>3
<1>3. CASE p \in Positions /\ AddToken(p)
  <2>1. /\ items' \in [0 .. N - 1 -> Positions \cup {NoToken}]
        /\ write' \in Nat /\ scanned' \in Seq(Positions)
        /\ read <= write /\ write < write'
        /\ RingHoldsUnread'
    BY <1>1, <1>3, AddTokenKeepsRing DEF Scan
  <2>2. text' \in Seq(Lexemes) /\ TypeOK'
    BY <1>1, <1>2, <2>1 DEF IInv, TypeOK, Positions
  <2>3. read \in Nat /\ write \in Nat
    BY DEF IInv, TypeOK
  <2>4. read' <= write' /\ read' <= write' + 1 /\ ~(read' > write')
    <3>1. read' = read /\ read' \in Nat
      BY <1>1, <2>3
    <3>2. write' \in Nat /\ read <= write /\ write < write'
      BY <2>1
    <3>3. read' <= write'
      BY <2>3, <3>1, <3>2
    <3>4. \A r, w \in Nat : r <= w => r <= w + 1 /\ ~(r > w)
      OBVIOUS
    <3> QED BY <3>1, <3>2, <3>3, <3>4
  <2>5. OverrunByOne' /\ AdvanceWaits'
    BY <2>4 DEF OverrunByOne, AdvanceWaits
  <2>6. NoAnswerAfterError'
    BY <1>2 DEF NoAnswerAfterError
  <2> QED BY <2>1, <2>2, <2>5, <2>6 DEF IInv
<1>4. CASE NoNewToken
  <2>1. read <= write
    BY DEF IInv, TypeOK, OverrunByOne, Scan, More
  <2> QED
    BY <1>1, <1>2, <1>4, <2>1
       DEF IInv, TypeOK, Positions, RingHoldsUnread, Slot, OverrunByOne, AdvanceWaits,
           NoAnswerAfterError, NoNewToken
<1> QED BY <1>1, <1>3, <1>4 DEF Scan, ScanLexeme, Positions

\* What the calls leave alone.
LEMMA SourceKept ==
  ASSUME IInv, UNCHANGED Source
  PROVE  /\ text' \in Seq(Lexemes) /\ Positions' = Positions
         /\ current' \in 1 .. Len(text') + 1 /\ ended' \in BOOLEAN /\ hasError' \in BOOLEAN
         /\ items' \in [0 .. N - 1 -> Positions' \cup {NoToken}]
         /\ write' \in Nat /\ scanned' \in Seq(Positions')
         /\ write' = Len(scanned')
BY DEF IInv, TypeOK, Positions, RingHoldsUnread, Source

\* An answer that leaves read_cursor alone.
LEMMA LookKeepsIInv ==
  ASSUME IInv, ~hasError, NEW call, NEW token, Answer(call, token), UNCHANGED read
  PROVE  IInv'
<1>1. UNCHANGED Source /\ pc' = "idle" /\ op' = "none"
  BY DEF Answer
<1> QED
  BY <1>1, SourceKept
     DEF IInv, TypeOK, Positions, RingHoldsUnread, Slot, OverrunByOne, AdvanceWaits,
         NoAnswerAfterError, Source

\* Advancing past the end is possible once, when the text has ended.
LEMMA AdvanceKeepsIInv ==
  ASSUME IInv, ~hasError, AdvanceNow, read <= write, read < write \/ ended
  PROVE  IInv'
<1>1. UNCHANGED Source /\ pc' = "idle" /\ op' = "none" /\ read' = read + 1
  BY DEF AdvanceNow, Answer
<1>2. /\ read \in Nat /\ write \in Nat /\ N \in Nat
      /\ write' = write /\ ended' = ended /\ hasError' = hasError
  BY <1>1, RingAssumption DEF IInv, TypeOK, Source
<1>3. RingHoldsUnread'
  <2>1. /\ write = Len(scanned) /\ write - read <= N
        /\ \A c \in read .. write - 1 : Slot(c) = scanned[c + 1]
    BY DEF IInv, RingHoldsUnread
  <2>2. items' = items /\ scanned' = scanned
    BY <1>1 DEF Source
  <2>3. ASSUME NEW c \in read' .. write' - 1
        PROVE  items'[c % N] = scanned'[c + 1]
    <3>1. c \in read .. write - 1
      BY <1>1, <1>2
    <3> QED BY <2>1, <2>2, <3>1 DEF Slot
  <2>4. write' = Len(scanned') /\ write' - read' <= N
    BY <1>1, <1>2, <2>1, <2>2
  <2> QED BY <2>3, <2>4 DEF RingHoldsUnread, Slot
<1>4. OverrunByOne' /\ AdvanceWaits' /\ NoAnswerAfterError'
  BY <1>1, <1>2 DEF OverrunByOne, AdvanceWaits, NoAnswerAfterError
<1>5. text' \in Seq(Lexemes) /\ TypeOK'
  BY <1>1, <1>2, SourceKept DEF TypeOK
<1> QED BY <1>3, <1>4, <1>5 DEF IInv

LEMMA WaitKeepsIInv ==
  ASSUME IInv, NEW call \in {"peek", "next", "advance"}, Wait(call),
         call = "advance" => read <= write
  PROVE  IInv'
<1>1. UNCHANGED Source /\ UNCHANGED read /\ pc' = "scan" /\ op' = call
  BY DEF Wait
<1> QED
  BY <1>1, SourceKept
     DEF IInv, TypeOK, Positions, RingHoldsUnread, Slot, OverrunByOne, AdvanceWaits,
         NoAnswerAfterError, Source

LEMMA CallsKeepIInv == ASSUME IInv, Peek \/ PeekNext \/ Advance PROVE IInv'
<1>1. ~hasError
  BY DEF IInv, NoAnswerAfterError, Peek, PeekNext, Advance
<1>2. /\ ended \/ read <= write
      /\ ~Empty => read < write
  BY DEF IInv, TypeOK, OverrunByOne, Empty
<1>3. CASE Peek
  BY <1>1, <1>3, LookKeepsIInv, WaitKeepsIInv DEF Peek, PeekNow
<1>4. CASE PeekNext
  BY <1>1, <1>4, LookKeepsIInv, WaitKeepsIInv DEF PeekNext, NextNow
<1>5. CASE Advance
  <2>1. CASE ended /\ Empty
    BY <1>1, <1>5, <2>1, LookKeepsIInv DEF Advance
  <2>2. CASE ~ended /\ Empty
    BY <1>2, <1>5, <2>2, WaitKeepsIInv DEF Advance
  <2>3. CASE ~Empty
    <3>1. read < write /\ read <= write
      BY <1>2, <2>3 DEF IInv, TypeOK
    <3>2. AdvanceNow
      BY <1>5, <2>3 DEF Advance
    <3> QED BY <1>1, <3>1, <3>2, AdvanceKeepsIInv
  <2> QED BY <2>1, <2>2, <2>3
<1> QED BY <1>3, <1>4, <1>5

LEMMA ResumeKeepsIInv == ASSUME IInv, Resume PROVE IInv'
<1>1. CASE op = "peek" /\ PeekNow
  BY <1>1, LookKeepsIInv DEF Resume, PeekNow
<1>2. CASE op = "next" /\ NextNow
  BY <1>2, LookKeepsIInv DEF Resume, NextNow
<1>3. CASE op = "advance" /\ AdvanceNow
  <2>1. read <= write
    BY <1>3 DEF IInv, AdvanceWaits, Resume
  <2>2. read < write \/ ended
    <3>1. N >= 2 /\ N \in Nat /\ read \in Nat /\ write \in Nat
      BY RingAssumption DEF IInv, TypeOK
    <3>2. ended \/ ~(Unread < N)
      BY DEF Resume, More
    <3> QED BY <2>1, <3>1, <3>2 DEF Unread
  <2> QED BY <1>3, <2>1, <2>2, AdvanceKeepsIInv DEF Resume
<1> QED BY <1>1, <1>2, <1>3 DEF Resume

LEMMA Invariant == Spec => []IInv
<1>1. Init => IInv
  <2> SUFFICES ASSUME Init PROVE IInv
    OBVIOUS
  <2>1. text \in Seq(Lexemes) /\ Len(text) \in Nat
    BY TextsAssumption DEF Init
  <2>2. scanned \in Seq(Positions) /\ Len(scanned) = 0
    BY DEF Init
  <2>3. N \in Nat /\ N >= 2
    BY RingAssumption
  <2> QED
    BY <2>1, <2>2, <2>3 DEF Init, IInv, TypeOK, RingHoldsUnread, OverrunByOne, AdvanceWaits,
       NoAnswerAfterError
<1>2. IInv /\ [Next]_vars => IInv'
  <2> SUFFICES ASSUME IInv, [Next]_vars PROVE IInv'
    OBVIOUS
  <2>1. CASE UNCHANGED vars
    BY <2>1 DEF vars, IInv, TypeOK, Positions, RingHoldsUnread, Slot, OverrunByOne,
       AdvanceWaits, NoAnswerAfterError
  <2>2. CASE Exit
    BY <2>2 DEF Exit, IInv, TypeOK, Positions, RingHoldsUnread, Slot, OverrunByOne,
       AdvanceWaits, NoAnswerAfterError
  <2> QED
    BY <2>1, <2>2, ScanKeepsIInv, ResumeKeepsIInv, CallsKeepIInv DEF Next, Step, Spin, Exited
<1> QED BY <1>1, <1>2, PTL DEF Spec

(***************************************************************************)
(* What follows from it.                                                   *)
(***************************************************************************)
\* Every variable keeps its type; in particular what is in the ring is a
\* position of the text, for any text.
THEOREM TypeCorrect == Spec => []TypeOK
<1>1. IInv => TypeOK
  BY DEF IInv
<1> QED BY <1>1, Invariant, PTL

\* No unread token is ever overwritten, whatever the capacity of the ring and
\* however often the cursors have gone round it.
THEOREM RingIsSafe == Spec => []RingHoldsUnread
<1>1. IInv => RingHoldsUnread
  BY DEF IInv
<1> QED BY <1>1, Invariant, PTL

\* read_cursor passes write_cursor by one at most, and only at the end of the
\* text, so that the wrapped difference of the cursors never scans again.
THEOREM OverrunIsBounded == Spec => []OverrunByOne
<1>1. IInv => OverrunByOne
  BY DEF IInv
<1> QED BY <1>1, Invariant, PTL

\* After an error in the text no call is answered: start_scanning exits first.
THEOREM ErrorsExit == Spec => []NoAnswerAfterError
<1>1. IInv => NoAnswerAfterError
  BY DEF IInv
<1> QED BY <1>1, Invariant, PTL

(***************************************************************************)
(* The queue.  What has been scanned is the beginning of the tokens of the *)
(* text, and all of them when the text has ended.                          *)
(***************************************************************************)
TokensUpTo(n) == {q \in TokenAt(text) : q <= n}

\* The tokens scanned are the tokens before the next lexeme, in order.
InOrder ==
  /\ Cardinality(TokensUpTo(current - 1)) = Len(scanned)
  /\ \A k \in 1 .. Len(scanned) :
       scanned[k] \in TokenAt(text) /\ Cardinality(TokensUpTo(scanned[k])) = k

\* The scan ends at the end of the text, unless the program will not answer.
EndReached == ended /\ ~hasError /\ pc # "spin" => current = Len(text) + 1

\* The token after next is only asked for behind a token that is there.
LookedFirst ==
  \/ pc = "idle" /\ reply[1] = "peek" /\ reply[2] # EOF
  \/ pc = "scan" /\ op = "next"
  => read < write

QInv == IInv /\ InOrder /\ EndReached /\ LookedFirst

\* What skip_whitespace goes over is white space.
LEMMA SkippedIsSpace ==
  ASSUME IInv
  PROVE  /\ \A i \in current .. FirstFrom(current) - 1 : i \in Nat /\ text[i] = "space"
         /\ FirstFrom(current) <= Len(text) => text[FirstFrom(current)] # "space"
<1> DEFINE solid == {i \in current .. Len(text) : text[i] # "space"}
<1>1. Len(text) \in Nat /\ current \in 1 .. Len(text) + 1
  BY DEF IInv, TypeOK
<1>2. CASE solid = {}
  BY <1>1, <1>2 DEF FirstFrom
<1>3. CASE solid # {}
  <2>1. solid \subseteq Nat
    BY <1>1
  <2>2. \E x \in solid : \A y \in solid : x <= y
    BY <1>3, <2>1, LeastElement
  <2>3. FirstFrom(current) \in solid /\ \A y \in solid : FirstFrom(current) <= y
    BY <1>3, <2>2 DEF FirstFrom
  <2> QED BY <1>1, <2>3
<1> QED BY <1>2, <1>3

LEMMA TokensAreFinite ==
  ASSUME IInv
  PROVE  /\ TokenAt(text) \subseteq Positions
         /\ IsFiniteSet(TokenAt(text)) /\ Cardinality(TokenAt(text)) \in Nat
         /\ \A n : /\ IsFiniteSet(TokensUpTo(n)) /\ Cardinality(TokensUpTo(n)) \in Nat
                   /\ Cardinality(TokensUpTo(n)) <= Cardinality(TokenAt(text))
<1>1. TokenAt(text) \subseteq Positions /\ Len(text) \in Nat
  BY DEF IInv, TokenAt, Positions
<1>2. IsFiniteSet(Positions)
  BY <1>1, FS_Interval DEF Positions
<1>3. IsFiniteSet(TokenAt(text)) /\ Cardinality(TokenAt(text)) \in Nat
  BY <1>1, <1>2, FS_Subset, FS_CardinalityType
<1>4. ASSUME NEW n
      PROVE  /\ IsFiniteSet(TokensUpTo(n)) /\ Cardinality(TokensUpTo(n)) \in Nat
             /\ Cardinality(TokensUpTo(n)) <= Cardinality(TokenAt(text))
  <2>1. TokensUpTo(n) \in SUBSET TokenAt(text)
    BY DEF TokensUpTo
  <2> QED BY <1>3, <2>1, FS_Subset, FS_CardinalityType
<1> QED BY <1>1, <1>3, <1>4

\* A later token has more tokens up to it.
LEMMA RankIncreases ==
  ASSUME IInv, NEW p \in TokenAt(text), NEW q \in TokenAt(text), p < q
  PROVE  Cardinality(TokensUpTo(p)) < Cardinality(TokensUpTo(q))
<1>1. p \in Nat /\ q \in Nat
  BY TokensAreFinite DEF Positions
<1>2. TokensUpTo(p) \in SUBSET TokensUpTo(q) /\ q \in TokensUpTo(q) \ TokensUpTo(p)
  BY <1>1, TokensAreFinite DEF TokensUpTo, Positions
<1>3. TokensUpTo(p) # TokensUpTo(q)
  BY <1>2
<1>4. /\ Cardinality(TokensUpTo(p)) <= Cardinality(TokensUpTo(q))
      /\ Cardinality(TokensUpTo(p)) # Cardinality(TokensUpTo(q))
  BY <1>2, <1>3, TokensAreFinite, FS_Subset
<1> QED BY <1>4, TokensAreFinite

\* The token with n tokens up to it is the n-th of the text.
LEMMA NthToken ==
  ASSUME IInv, NEW p \in TokenAt(text)
  PROVE  LET n == Cardinality(TokensUpTo(p))
         IN  n \in 1 .. Len(TokensOf(text)) /\ TokensOf(text)[n] = p
<1> DEFINE n == Cardinality(TokensUpTo(p))
           total == Cardinality(TokenAt(text))
<1>1. n \in Nat /\ total \in Nat /\ n <= total
  BY TokensAreFinite
<1>2. n # 0
  <2>1. p \in TokensUpTo(p)
    BY TokensAreFinite DEF TokensUpTo, Positions
  <2>2. IsFiniteSet(TokensUpTo(p))
    BY TokensAreFinite
  <2> QED BY <2>1, <2>2, FS_EmptySet
<1>3. ASSUME NEW q \in TokenAt(text), Cardinality(TokensUpTo(q)) = n
      PROVE  q = p
  <2>1. p \in Nat /\ q \in Nat
    BY TokensAreFinite DEF Positions
  <2>2. ~(p < q) /\ ~(q < p)
    BY <1>1, <1>3, RankIncreases
  <2> QED BY <2>1, <2>2
<1>4. (CHOOSE q \in TokenAt(text) : Cardinality(TokensUpTo(q)) = n) = p
  BY <1>3
<1>5. TokensOf(text) = [m \in 1 .. total |->
                          CHOOSE q \in TokenAt(text) : Cardinality(TokensUpTo(q)) = m]
  BY DEF TokensOf, TokensUpTo
<1>6. Len(TokensOf(text)) = total /\ n \in 1 .. total
  BY <1>1, <1>2, <1>5
<1>7. TokensOf(text)[n] = p
  BY <1>4, <1>5, <1>6
<1> QED BY <1>6, <1>7

\* The tokens of a text are a sequence of its positions.
LEMMA TokensOfType ==
  ASSUME IInv
  PROVE  \E S : TokensOf(text) \in Seq(S)
<1>1. Cardinality(TokenAt(text)) \in Nat
  BY TokensAreFinite
<1> DEFINE nth(m) == CHOOSE q \in TokenAt(text) : Cardinality(TokensUpTo(q)) = m
           S == {nth(m) : m \in 1 .. Cardinality(TokenAt(text))}
<1>2. TokensOf(text) = [m \in 1 .. Cardinality(TokenAt(text)) |-> nth(m)]
  BY DEF TokensOf, TokensUpTo
<1>3. TokensOf(text) \in Seq(S)
  <2> HIDE DEF nth
  <2> QED BY <1>1, <1>2
<1> QED BY <1>3

\* One lexeme more: the tokens up to it are one more when it is a token.
LEMMA ScanKeepsOrder ==
  ASSUME QInv, Scan
  PROVE  InOrder'
<1> DEFINE p == FirstFrom(current)
           T == TokensUpTo(current - 1)
<1>1. /\ Len(text) \in Nat /\ current \in 1 .. Len(text) + 1
      /\ p \in current .. Len(text) + 1 /\ p \in Nat
      /\ scanned \in Seq(Positions) /\ text' = text
  BY FirstFromAhead DEF QInv, IInv, TypeOK, Scan, ScanLexeme
<1>2. IsFiniteSet(T) /\ Cardinality(T) = Len(scanned)
  BY TokensAreFinite DEF QInv, InOrder
<1>3. \A q \in TokenAt(text) : q \in 1 .. Len(text) /\ text[q] \in {"word", "mark", "quote"}
  BY TokensAreFinite DEF TokenAt, QInv, Positions
<1>4. ASSUME NEW q \in TokenAt(text) PROVE ~(current <= q /\ q < p)
  BY <1>1, <1>3, SkippedIsSpace DEF QInv
<1>5. \A n : TokensUpTo(n)' = TokensUpTo(n)
  BY <1>1 DEF TokensUpTo
<1>6. CASE p > Len(text)
  <2>1. p = Len(text) + 1 /\ current' = p /\ scanned' = scanned
    BY <1>1, <1>6 DEF Scan, ScanLexeme, NoNewToken
  <2>2. TokensUpTo(p - 1) = T
    BY <1>1, <1>3, <1>4 DEF TokensUpTo
  <2> QED BY <1>1, <1>2, <1>5, <2>1, <2>2 DEF QInv, InOrder
<1>7. CASE p <= Len(text) /\ p \notin TokenAt(text)
  <2>1. current' = p + 1 /\ scanned' = scanned
    <3>1. text[p] \notin {"word", "mark", "quote"}
      BY <1>1, <1>7 DEF TokenAt, QInv, IInv
    <3> QED BY <1>1, <1>7, <3>1 DEF Scan, ScanLexeme, NoNewToken
  <2>2. TokensUpTo(p) = T /\ p + 1 - 1 = p
    BY <1>1, <1>3, <1>4, <1>7 DEF TokensUpTo
  <2> QED BY <1>1, <1>2, <1>5, <2>1, <2>2 DEF QInv, InOrder
<1>8. CASE p <= Len(text) /\ p \in TokenAt(text)
  <2>1. current' = p + 1 /\ scanned' = Append(scanned, p)
    BY <1>1, <1>3, <1>8 DEF Scan, ScanLexeme, AddToken
  <2>2. TokensUpTo(p) = T \cup {p} /\ p \notin T /\ p + 1 - 1 = p
    BY <1>1, <1>3, <1>4, <1>8 DEF TokensUpTo
  <2>3. Cardinality(TokensUpTo(p)) = Len(scanned) + 1
    BY <1>2, <2>2, FS_AddElement
  <2>4. /\ Len(scanned') = Len(scanned) + 1 /\ scanned'[Len(scanned) + 1] = p
        /\ \A k \in 1 .. Len(scanned) : scanned'[k] = scanned[k]
    BY <1>1, <2>1
  <2>5. ASSUME NEW k \in 1 .. Len(scanned')
        PROVE  scanned'[k] \in TokenAt(text) /\ Cardinality(TokensUpTo(scanned'[k])) = k
    <3>1. CASE k = Len(scanned) + 1
      BY <1>8, <2>3, <2>4, <3>1
    <3>2. CASE k # Len(scanned) + 1
      <4>1. k \in 1 .. Len(scanned)
        BY <1>1, <2>4, <3>2
      <4> QED BY <2>4, <4>1 DEF QInv, InOrder
    <3> QED BY <3>1, <3>2
  <2>6. Cardinality(TokensUpTo(current' - 1)) = Len(scanned')
    <3>1. current' - 1 = p
      BY <1>1, <2>1
    <3> QED BY <2>3, <2>4, <3>1
  <2> QED BY <1>1, <1>5, <2>5, <2>6 DEF InOrder
<1> QED BY <1>1, <1>6, <1>7, <1>8

LEMMA ScanKeepsQInv == ASSUME QInv, Scan PROVE QInv'
<1>1. IInv' /\ InOrder'
  BY ScanKeepsIInv, ScanKeepsOrder DEF QInv
<1>2. EndReached'
  <2> DEFINE p == FirstFrom(current)
  <2>1. p \in 1 .. Len(text) + 1 /\ Len(text) \in Nat /\ text' = text
    BY FirstFromAhead DEF QInv, IInv, TypeOK, Scan, ScanLexeme
  <2>2. p > Len(text) => current' = Len(text) + 1
    BY <2>1 DEF Scan, ScanLexeme
  <2>3. p <= Len(text) => current' = p + 1
    BY <2>1 DEF Scan, ScanLexeme
  <2>4. ASSUME p <= Len(text), ended', ~hasError', pc' # "spin"
        PROVE  p = Len(text)
    <3>1. ~(p > Len(text))
      BY <2>1, <2>4
    <3> HIDE DEF p
    <3> QED BY <2>4, <3>1, Zenon DEF Scan, ScanLexeme, p
  <2> QED BY <2>1, <2>2, <2>3, <2>4 DEF EndReached
<1>3. LookedFirst'
  <2>1. /\ read \in Nat /\ write \in Nat /\ read' = read /\ write' \in Nat /\ write <= write'
        /\ reply' = reply /\ op' = op /\ pc' # "idle"
    BY DEF QInv, IInv, TypeOK, Scan, ScanLexeme, AddToken, NoNewToken
  <2>2. read < write => read' < write'
    BY <2>1
  <2> QED BY <2>1, <2>2 DEF QInv, LookedFirst, Scan
<1> QED BY <1>1, <1>2, <1>3 DEF QInv

\* A call moves no token and does not scan.
LEMMA CallKeepsOrder ==
  ASSUME QInv, UNCHANGED Source, pc' \in {"idle", "scan"}, pc \in {"idle", "scan"}
  PROVE  InOrder' /\ EndReached'
<1>1. UNCHANGED <<text, current, ended, hasError, scanned>>
  BY DEF Source
<1>2. \A n : TokensUpTo(n)' = TokensUpTo(n)
  BY <1>1 DEF TokensUpTo
<1> QED BY <1>1, <1>2 DEF QInv, InOrder, EndReached

\* What a call answers.
LEMMA AnswerKeepsQInv ==
  ASSUME QInv, IInv', NEW call, NEW token, Answer(call, token), pc \in {"idle", "scan"},
         call = "peek" /\ token # EOF => read' = read /\ read < write
  PROVE  QInv'
<1>1. UNCHANGED Source /\ pc' = "idle" /\ reply' = <<call, token>>
  BY DEF Answer
<1>2. InOrder' /\ EndReached'
  BY <1>1, CallKeepsOrder
<1>3. LookedFirst'
  BY <1>1 DEF LookedFirst, Source
<1> QED BY <1>2, <1>3 DEF QInv

LEMMA WaitKeepsQInv ==
  ASSUME QInv, IInv', NEW call, Wait(call), pc \in {"idle", "scan"}, 
         call = "next" => read < write
  PROVE  QInv'
<1>1. UNCHANGED Source /\ UNCHANGED read /\ pc' = "scan" /\ op' = call
  BY DEF Wait
<1>2. InOrder' /\ EndReached'
  BY <1>1, CallKeepsOrder
<1>3. LookedFirst'
  BY <1>1 DEF LookedFirst, Source
<1> QED BY <1>2, <1>3 DEF QInv

LEMMA PeekNowKeepsQInv ==
  ASSUME QInv, IInv', PeekNow, pc \in {"idle", "scan"}
  PROVE  QInv'
<1>1. ~Empty => read < write
  BY DEF QInv, IInv, TypeOK, Empty
<1> QED BY <1>1, AnswerKeepsQInv DEF PeekNow

LEMMA QueueInvariant == Spec => []QInv
<1>1. Init => QInv
  <2> SUFFICES ASSUME Init PROVE QInv
    OBVIOUS
  <2>1. IInv
    <3>1. text \in Seq(Lexemes) /\ Len(text) \in Nat
      BY TextsAssumption DEF Init
    <3>2. scanned \in Seq(Positions) /\ Len(scanned) = 0
      BY DEF Init
    <3> QED
      BY <3>1, <3>2, RingAssumption
         DEF Init, IInv, TypeOK, RingHoldsUnread, OverrunByOne, AdvanceWaits, NoAnswerAfterError
  <2>2. TokensUpTo(current - 1) = {} /\ Len(scanned) = 0
    BY <2>1, TokensAreFinite DEF Init, TokensUpTo, Positions
  <2>3. InOrder
    BY <2>2, FS_EmptySet DEF InOrder
  <2>4. EndReached /\ LookedFirst
    BY DEF Init, EndReached, LookedFirst
  <2> QED BY <2>1, <2>3, <2>4 DEF QInv
<1>2. QInv /\ [Next]_vars => QInv'
  <2> SUFFICES ASSUME QInv, [Next]_vars PROVE QInv'
    OBVIOUS
  <2>1. IInv'
    <3>1. CASE UNCHANGED vars
      BY <3>1 DEF vars, QInv, IInv, TypeOK, Positions, RingHoldsUnread, Slot, OverrunByOne,
         AdvanceWaits, NoAnswerAfterError
    <3>2. CASE Exit
      BY <3>2 DEF Exit, QInv, IInv, TypeOK, Positions, RingHoldsUnread, Slot, OverrunByOne,
         AdvanceWaits, NoAnswerAfterError
    <3> QED
      BY <3>1, <3>2, ScanKeepsIInv, ResumeKeepsIInv, CallsKeepIInv
         DEF QInv, Next, Step, Spin, Exited
  <2>2. CASE UNCHANGED vars
    <3>1. \A n : TokensUpTo(n)' = TokensUpTo(n)
      BY <2>2 DEF vars, TokensUpTo
    <3> QED BY <2>1, <2>2, <3>1 DEF vars, QInv, InOrder, EndReached, LookedFirst
  <2>3. CASE Scan
    BY <2>3, ScanKeepsQInv
  <2>4. CASE Exit
    <3>1. \A n : TokensUpTo(n)' = TokensUpTo(n)
      BY <2>4 DEF Exit, TokensUpTo
    <3> QED BY <2>1, <2>4, <3>1 DEF Exit, QInv, InOrder, EndReached, LookedFirst
  <2>5. CASE Resume
    <3>1. pc \in {"idle", "scan"}
      BY <2>5 DEF Resume
    <3>2. CASE op = "peek" /\ PeekNow
      BY <2>1, <3>1, <3>2, PeekNowKeepsQInv
    <3>3. CASE op = "next" /\ NextNow
      BY <2>1, <3>1, <3>3, AnswerKeepsQInv DEF NextNow
    <3>4. CASE op = "advance" /\ AdvanceNow
      BY <2>1, <3>1, <3>4, AnswerKeepsQInv DEF AdvanceNow
    <3> QED BY <2>5, <3>2, <3>3, <3>4 DEF Resume
  <2>6. CASE Peek
    BY <2>1, <2>6, PeekNowKeepsQInv, WaitKeepsQInv DEF Peek
  <2>7. CASE PeekNext
    <3>1. read < write
      BY <2>7 DEF QInv, LookedFirst, PeekNext
    <3> QED BY <2>1, <2>7, <3>1, AnswerKeepsQInv, WaitKeepsQInv DEF PeekNext, NextNow
  <2>8. CASE Advance
    BY <2>1, <2>8, AnswerKeepsQInv, WaitKeepsQInv DEF Advance, AdvanceNow
  <2> QED BY <2>2, <2>3, <2>4, <2>5, <2>6, <2>7, <2>8 DEF Next, Step, Spin, Exited
<1> QED BY <1>1, <1>2, PTL DEF Spec

(***************************************************************************)
(* The stream implements the queue.                                        *)
(***************************************************************************)
Rest == SubSeq(TokensOf(text), read + 1, Len(TokensOf(text)))

\* What is left of a sequence.
LEMMA SuffixOf ==
  ASSUME NEW S, NEW s \in Seq(S), NEW n \in Nat
  PROVE  LET t == SubSeq(s, n + 1, Len(s))
         IN  /\ Len(t) = IF n < Len(s) THEN Len(s) - n ELSE 0
             /\ n < Len(s) => t[1] = s[n + 1] /\ t # <<>> /\ Tail(t) = SubSeq(s, n + 2, Len(s))
             /\ n + 1 < Len(s) => t[2] = s[n + 2]
             /\ n >= Len(s) => t = <<>>
<1> DEFINE t == SubSeq(s, n + 1, Len(s))
<1>1. Len(s) \in Nat /\ \A i \in n + 1 .. Len(s) : s[i] \in S
  OBVIOUS
<1>2. /\ Len(t) = IF n + 1 <= Len(s) THEN Len(s) - (n + 1) + 1 ELSE 0
      /\ \A i \in 1 .. Len(s) - (n + 1) + 1 : t[i] = s[n + 1 + i - 1]
  BY <1>1, SubSeqProperties
<1>3. ASSUME n < Len(s)
      PROVE  t[1] = s[n + 1] /\ t # <<>> /\ Tail(t) = SubSeq(s, n + 2, Len(s))
  <2>1. n + 1 \in 1 .. Len(s) /\ Len(s) \in n + 1 .. Len(s) /\ n + 1 + 1 = n + 2
    BY <1>1, <1>3
  <2>2. Tail(t) = SubSeq(s, n + 2, Len(s))
    BY <2>1, HeadTailOfSubSeq
  <2>3. t[1] = s[n + 1 + 1 - 1] /\ n + 1 + 1 - 1 = n + 1
    BY <1>1, <1>2, <1>3
  <2>4. Len(t) # 0
    BY <1>1, <1>2, <1>3
  <2>5. Len(<<>>) = 0
    OBVIOUS
  <2>6. t # <<>>
    <3> HIDE DEF t
    <3> QED BY <2>4, <2>5
  <2>7. t[1] = s[n + 1]
    <3> HIDE DEF t
    <3> QED BY <2>3
  <2> QED BY <2>2, <2>6, <2>7
<1>4. n + 1 < Len(s) => t[2] = s[n + 2]
  <2> SUFFICES ASSUME n + 1 < Len(s) PROVE t[2] = s[n + 2]
    OBVIOUS
  <2>1. t[2] = s[n + 1 + 2 - 1] /\ n + 1 + 2 - 1 = n + 2
    BY <1>1, <1>2
  <2> QED BY <2>1
<1>5. n >= Len(s) => t = <<>>
  BY <1>1, SubSeqEmpty
<1>6. Len(t) = IF n < Len(s) THEN Len(s) - n ELSE 0
  BY <1>1, <1>2
<1> QED BY <1>3, <1>4, <1>5, <1>6

\* The tokens scanned are the first tokens of the text.
LEMMA ScannedAreFirst ==
  ASSUME QInv
  PROVE  /\ Len(TokensOf(text)) \in Nat /\ write \in Nat /\ write <= Len(TokensOf(text))
         /\ \A k \in 1 .. write : TokensOf(text)[k] = scanned[k]
         /\ current = Len(text) + 1 => write = Len(TokensOf(text))
<1>1. write \in Nat /\ write = Len(scanned) /\ Len(text) \in Nat /\ current \in 1 .. Len(text) + 1
  BY DEF QInv, IInv, TypeOK, RingHoldsUnread
<1>2. Len(TokensOf(text)) = Cardinality(TokenAt(text)) /\ Cardinality(TokenAt(text)) \in Nat
  BY TokensAreFinite DEF TokensOf, QInv
<1>3. write = Cardinality(TokensUpTo(current - 1))
  BY <1>1 DEF QInv, InOrder
<1>4. write <= Len(TokensOf(text))
  BY <1>2, <1>3, TokensAreFinite DEF QInv
<1>5. \A k \in 1 .. write : TokensOf(text)[k] = scanned[k]
  BY <1>1, NthToken DEF QInv, InOrder
<1>6. ASSUME current = Len(text) + 1 PROVE write = Len(TokensOf(text))
  <2>1. current - 1 = Len(text)
    BY <1>1, <1>6
  <2>2. TokensUpTo(current - 1) = TokenAt(text)
    BY <1>1, <2>1, TokensAreFinite DEF TokensUpTo, QInv, Positions
  <2> QED BY <1>2, <1>3, <2>2
<1> QED BY <1>1, <1>2, <1>4, <1>5, <1>6

\* What the ring holds is the beginning of what is left.
LEMMA RingIsRest ==
  ASSUME QInv
  PROVE  /\ Len(Rest) \in Nat
         /\ read < write => Rest # <<>> /\ Len(Rest) >= 1 /\ Rest[1] = Slot(read)
         /\ read + 1 < write => Len(Rest) >= 2 /\ Rest[2] = Slot(read + 1)
         /\ current = Len(text) + 1 =>
              /\ read >= write => Rest = <<>> /\ Len(Rest) = 0
              /\ read + 1 >= write => Len(Rest) < 2
         /\ Rest # <<>> => Tail(Rest) = SubSeq(TokensOf(text), read + 2, Len(TokensOf(text)))
<1> DEFINE total == Len(TokensOf(text))
<1>1. total \in Nat /\ read \in Nat /\ write \in Nat /\ write <= total
  BY ScannedAreFirst DEF QInv, IInv, TypeOK
<1>2. PICK S : TokensOf(text) \in Seq(S)
  BY TokensOfType DEF QInv
<1>3. /\ Len(Rest) = IF read < total THEN total - read ELSE 0
      /\ read < total => /\ Rest[1] = TokensOf(text)[read + 1] /\ Rest # <<>>
                         /\ Tail(Rest) = SubSeq(TokensOf(text), read + 2, total)
      /\ read + 1 < total => Rest[2] = TokensOf(text)[read + 2]
      /\ read >= total => Rest = <<>>
  BY <1>1, <1>2, SuffixOf DEF Rest
<1>4. \A c \in read .. write - 1 : Slot(c) = TokensOf(text)[c + 1]
  <2> SUFFICES ASSUME NEW c \in read .. write - 1
               PROVE  Slot(c) = TokensOf(text)[c + 1]
    OBVIOUS
  <2>1. c + 1 \in 1 .. write
    BY <1>1
  <2> QED BY <2>1, ScannedAreFirst DEF QInv, IInv, RingHoldsUnread
<1>5. ASSUME read < write PROVE Rest # <<>> /\ Len(Rest) >= 1 /\ Rest[1] = Slot(read)
  <2>1. read \in read .. write - 1 /\ read < total
    BY <1>1, <1>5
  <2>2. Slot(read) = TokensOf(text)[read + 1]
    BY <1>4, <2>1
  <2> QED BY <1>1, <1>3, <2>1, <2>2
<1>6. ASSUME read + 1 < write PROVE Len(Rest) >= 2 /\ Rest[2] = Slot(read + 1)
  <2>1. read + 1 \in read .. write - 1 /\ read < total /\ read + 1 < total /\ read + 1 + 1 = read + 2
    BY <1>1, <1>6
  <2>2. Slot(read + 1) = TokensOf(text)[read + 2]
    BY <1>4, <2>1
  <2> QED BY <1>1, <1>3, <2>1, <2>2
<1>7. ASSUME current = Len(text) + 1
      PROVE  /\ read >= write => Rest = <<>> /\ Len(Rest) = 0
             /\ read + 1 >= write => Len(Rest) < 2
  <2>1. write = total
    BY <1>7, ScannedAreFirst
  <2>2. read >= write => Rest = <<>> /\ Len(Rest) = 0
    BY <1>1, <1>3, <2>1
  <2>3. read + 1 >= write => Len(Rest) < 2
    BY <1>1, <1>3, <2>1
  <2> QED BY <2>2, <2>3
<1>8. Rest # <<>> => Tail(Rest) = SubSeq(TokensOf(text), read + 2, total)
  BY <1>1, <1>3
<1>9. Len(Rest) \in Nat
  BY <1>1, <1>3
<1> QED BY <1>5, <1>6, <1>7, <1>8, <1>9

\* A call that is answered has what it needs in the ring, or the text has ended.
Ready == read < write \/ current = Len(text) + 1
ReadyForTwo == read < write /\ (read + 1 < write \/ current = Len(text) + 1)

\* The scanner stops when the ring is full or the text has ended.
LEMMA StoppedIsReady ==
  ASSUME QInv, pc # "spin", ~hasError, ~More
  PROVE  Ready /\ (read < write => ReadyForTwo)
<1>1. N \in Nat /\ N >= 2 /\ read \in Nat /\ write \in Nat /\ ended \in BOOLEAN
  BY RingAssumption DEF QInv, IInv, TypeOK
<1>2. CASE ended
  <2>1. current = Len(text) + 1
    BY <1>2 DEF QInv, EndReached
  <2> QED BY <2>1 DEF Ready, ReadyForTwo
<1>3. CASE ~ended
  <2>1. ~(Unread < N) /\ read <= write
    <3>1. ~(Unread < N)
      BY <1>3 DEF More
    <3>2. ~(read > write)
      BY <1>3 DEF QInv, IInv, OverrunByOne
    <3> QED BY <1>1, <3>1, <3>2
  <2>2. Unread = write - read
    BY <2>1 DEF Unread
  <2>3. read + 1 < write
    BY <1>1, <2>1, <2>2
  <2>4. read < write
    BY <1>1, <2>3
  <2> QED BY <2>3, <2>4 DEF Ready, ReadyForTwo
<1> QED BY <1>2, <1>3


\* The steps of the queue, over what is left.
LEMMA QueueSteps ==
  ASSUME pc # "exited"
  PROVE  /\ /\ reply' = <<"peek", IF 1 <= Len(Rest) THEN Rest[1] ELSE EOF>>
            /\ Rest' = Rest /\ pc' # "exited"
            => Queue!Next
         /\ /\ reply' = <<"next", IF 2 <= Len(Rest) THEN Rest[2] ELSE EOF>>
            /\ Rest' = Rest /\ pc' # "exited"
            => Queue!Next
         /\ /\ Rest # <<>> /\ reply' = <<"advance", Rest[1]>> /\ Rest' = Tail(Rest)
            /\ pc' # "exited"
            => Queue!Next
         /\ /\ Rest = <<>> /\ reply' \in {<<"advance", EOF>>, <<"advance", NoToken>>}
            /\ Rest' = Rest /\ pc' # "exited"
            => Queue!Next
         /\ pc' = "exited" /\ Rest' = Rest /\ reply' = reply
            => Queue!Next
<1>1. /\ reply' = <<"peek", IF 1 <= Len(Rest) THEN Rest[1] ELSE EOF>>
      /\ Rest' = Rest /\ pc' # "exited"
      => Queue!Next
  BY DEF Queue!Next, Queue!Peek, Queue!Nth, Rest
<1>2. /\ reply' = <<"next", IF 2 <= Len(Rest) THEN Rest[2] ELSE EOF>>
      /\ Rest' = Rest /\ pc' # "exited"
      => Queue!Next
  BY DEF Queue!Next, Queue!PeekNext, Queue!Nth, Rest
<1>3. /\ Rest # <<>> /\ reply' = <<"advance", Rest[1]>> /\ Rest' = Tail(Rest)
      /\ pc' # "exited"
      => Queue!Next
  BY DEF Queue!Next, Queue!Advance, Rest
<1>4. /\ Rest = <<>> /\ reply' \in {<<"advance", EOF>>, <<"advance", NoToken>>}
      /\ Rest' = Rest /\ pc' # "exited"
      => Queue!Next
  BY DEF Queue!Next, Queue!Advance, Rest
<1>5. pc' = "exited" /\ Rest' = Rest /\ reply' = reply => Queue!Next
  BY DEF Queue!Next, Queue!Exit, Rest
<1> QED BY <1>1, <1>2, <1>3, <1>4, <1>5

\* An answer leaves the text alone.
LEMMA RestKept ==
  ASSUME UNCHANGED <<text, read>>
  PROVE  Rest' = Rest
BY DEF Rest

LEMMA PeekAnswers ==
  ASSUME QInv, PeekNow, Ready, pc # "exited"
  PROVE  Queue!Next
<1>1. /\ reply' = <<"peek", IF Empty THEN EOF ELSE Slot(read)>>
      /\ UNCHANGED <<text, read>> /\ pc' # "exited"
  BY DEF PeekNow, Answer, Source
<1>2. read \in Nat /\ write \in Nat
  BY DEF QInv, IInv, TypeOK
<1>3. CASE Empty
  <2>1. ~(1 <= Len(Rest))
    BY <1>2, <1>3, RingIsRest DEF Ready, Empty
  <2> QED BY <1>1, <1>3, <2>1, RestKept, QueueSteps
<1>4. CASE ~Empty
  <2>1. 1 <= Len(Rest) /\ Rest[1] = Slot(read)
    BY <1>2, <1>4, RingIsRest DEF Empty
  <2> QED BY <1>1, <1>4, <2>1, RestKept, QueueSteps
<1> QED BY <1>3, <1>4

LEMMA NextAnswers ==
  ASSUME QInv, NextNow, ReadyForTwo, pc # "exited"
  PROVE  Queue!Next
<1>1. /\ reply' = <<"next", IF Unread < 2 THEN EOF ELSE Slot(read + 1)>>
      /\ UNCHANGED <<text, read>> /\ pc' # "exited"
  BY DEF NextNow, Answer, Source
<1>2. read \in Nat /\ write \in Nat /\ read < write /\ Unread = write - read
  BY DEF QInv, IInv, TypeOK, ReadyForTwo, Unread
<1>3. CASE Unread < 2
  <2>1. ~(read + 1 < write) /\ read + 1 >= write
    BY <1>2, <1>3
  <2>2. ~(2 <= Len(Rest))
    BY <2>1, RingIsRest DEF ReadyForTwo
  <2> QED BY <1>1, <1>3, <2>2, RestKept, QueueSteps
<1>4. CASE ~(Unread < 2)
  <2>1. read + 1 < write
    BY <1>2, <1>4
  <2>2. 2 <= Len(Rest) /\ Rest[2] = Slot(read + 1)
    BY <2>1, RingIsRest
  <2> QED BY <1>1, <1>4, <2>2, RestKept, QueueSteps
<1> QED BY <1>3, <1>4

LEMMA AdvanceAnswers ==
  ASSUME QInv, AdvanceNow, Ready, pc # "exited"
  PROVE  Queue!Next
<1>1. /\ reply' = <<"advance", IF Empty THEN EOF ELSE Slot(read)>>
      /\ text' = text /\ read' = read + 1 /\ pc' # "exited"
  BY DEF AdvanceNow, Answer, Source
<1>2. read \in Nat /\ write \in Nat
  BY DEF QInv, IInv, TypeOK
<1>3. Rest' = SubSeq(TokensOf(text), read + 2, Len(TokensOf(text)))
  <2>1. read' + 1 = read + 2
    BY <1>1, <1>2
  <2> QED BY <1>1, <2>1 DEF Rest
<1>4. CASE Empty
  <2>1. read >= write /\ current = Len(text) + 1
    BY <1>2, <1>4 DEF Ready, Empty
  <2>2. Rest = <<>>
    BY <2>1, RingIsRest
  <2>3. Rest' = <<>>
    <3>1. PICK S : TokensOf(text) \in Seq(S)
      BY TokensOfType DEF QInv
    <3>2. write = Len(TokensOf(text))
      BY <2>1, ScannedAreFirst
    <3>3. read + 2 > Len(TokensOf(text))
      BY <1>2, <2>1, <3>2
    <3> QED BY <1>2, <1>3, <3>1, <3>2, <3>3, SubSeqEmpty
  <2> QED BY <1>1, <1>4, <2>2, <2>3, QueueSteps
<1>5. CASE ~Empty
  <2>1. read < write
    BY <1>2, <1>5 DEF Empty
  <2>2. Rest # <<>> /\ Rest[1] = Slot(read) /\ Rest' = Tail(Rest)
    BY <1>3, <2>1, RingIsRest
  <2> QED BY <1>1, <1>5, <2>2, QueueSteps
<1> QED BY <1>4, <1>5

\* Every step of the stream is a step of the queue, or changes nothing of it.
LEMMA StepsAsQueue ==
  ASSUME QInv, [Next]_vars
  PROVE  [Queue!Next]_(Queue!vars)
<1>1. ASSUME (pc # "exited" /\ pc' # "exited") \/ pc' = pc, UNCHANGED <<text, read, reply>>
      PROVE  UNCHANGED Queue!vars
  BY <1>1 DEF Queue!vars
<1>2. CASE UNCHANGED vars
  BY <1>1, <1>2 DEF vars
<1>3. CASE Scan
  BY <1>1, <1>3 DEF Scan, ScanLexeme
<1>4. CASE Exit
  BY <1>4, RestKept, QueueSteps DEF Exit
<1>5. CASE Resume
  <2>1. Ready /\ (read < write => ReadyForTwo) /\ pc # "exited"
    BY <1>5, StoppedIsReady DEF Resume
  <2>2. CASE op = "peek" /\ PeekNow
    BY <2>1, <2>2, PeekAnswers
  <2>3. CASE op = "next" /\ NextNow
    <3>1. read < write
      BY <1>5, <2>3 DEF QInv, LookedFirst, Resume
    <3> QED BY <2>1, <2>3, <3>1, NextAnswers
  <2>4. CASE op = "advance" /\ AdvanceNow
    BY <2>1, <2>4, AdvanceAnswers
  <2> QED BY <1>5, <2>2, <2>3, <2>4 DEF Resume
<1>6. ASSUME NEW call, Wait(call), pc = "idle"
      PROVE  UNCHANGED Queue!vars
  BY <1>1, <1>6 DEF Wait, Source
<1>7. ~Empty => Ready
  BY DEF Empty, Ready, QInv, IInv, TypeOK
<1>8. CASE Peek
  <2>1. pc = "idle" /\ pc # "exited"
    BY <1>8 DEF Peek
  <2> QED BY <1>6, <1>7, <1>8, <2>1, PeekAnswers DEF Peek
<1>9. CASE PeekNext
  <2>1. pc = "idle" /\ pc # "exited" /\ read < write
    BY <1>9 DEF PeekNext, QInv, LookedFirst
  <2>2. ~(Unread < 2) => ReadyForTwo
    BY <2>1 DEF Unread, ReadyForTwo, QInv, IInv, TypeOK
  <2>3. CASE Empty \/ Unread < 2
    BY <1>6, <1>9, <2>1, <2>3 DEF PeekNext
  <2>4. CASE ~(Empty \/ Unread < 2)
    BY <1>9, <2>1, <2>2, <2>4, NextAnswers DEF PeekNext
  <2> QED BY <2>3, <2>4
<1>10. CASE Advance
  <2>1. pc = "idle" /\ pc # "exited"
    BY <1>10 DEF Advance
  <2>2. CASE ended /\ Empty
    <3>1. /\ reply' = <<"advance", NoToken>> /\ UNCHANGED <<text, read>> /\ pc' # "exited"
      BY <1>10, <2>2 DEF Advance, Answer, Source
    <3>2. current = Len(text) + 1 /\ read >= write
      BY <2>1, <2>2 DEF QInv, IInv, TypeOK, NoAnswerAfterError, EndReached, Empty
    <3>3. Rest = <<>>
      BY <3>2, RingIsRest
    <3> QED BY <2>1, <3>1, <3>3, RestKept, QueueSteps
  <2>3. CASE ~ended /\ Empty
    BY <1>6, <1>10, <2>1, <2>3 DEF Advance
  <2>4. CASE ~Empty
    BY <1>7, <1>10, <2>1, <2>4, AdvanceAnswers DEF Advance
  <2> QED BY <2>2, <2>3, <2>4
<1> QED BY <1>2, <1>3, <1>4, <1>5, <1>8, <1>9, <1>10 DEF Next, Step, Spin, Exited

\* The stream answers every call as the queue of the text's tokens would, for
\* every text, every capacity of the ring and however the calls are mixed.
THEOREM StreamImplementsQueue == Spec => ImplementsQueue
<1>1. Init => Queue!Init
  BY DEF Init, Queue!Init
<1>2. QInv /\ [Next]_vars => [Queue!Next]_(Queue!vars)
  BY StepsAsQueue
<1> QED BY <1>1, <1>2, QueueInvariant, PTL DEF Spec, ImplementsQueue, Queue!Spec
=============================================================================
