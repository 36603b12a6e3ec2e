----------------------------- MODULE GuestProofs -----------------------------
(***************************************************************************)
(* Proofs about what comes out of a guest.  Commands (GuestExec): the API  *)
(* answers what happened there, for every limit on the output and whatever *)
(* the command prints.  Recording events (EventWire): they are read as     *)
(* they were written, for every size of the fields, any events and         *)
(* wherever the stream breaks off.                                         *)
(***************************************************************************)
EXTENDS GuestExec, EventWire, WellFoundedInduction, TLAPS

(* Sequences, and the first and the last of some places in them            *)

\* A set of numbers has a least one.
LEMMA LeastPlace ==
  ASSUME NEW S \in SUBSET Nat, S # {}
  PROVE  LET m == CHOOSE x \in S : \A y \in S : x <= y IN m \in S /\ \A y \in S : m <= y
<1>1. \E x \in S : \A y \in S : ~(<<y, x>> \in OpToRel(<, Nat))
  BY NatLessThanWellFounded, WFMin
<1>2. PICK x \in S : \A y \in S : ~(<<y, x>> \in OpToRel(<, Nat))
  BY <1>1
<1>3. ASSUME NEW y \in S PROVE x <= y
  <2>1. ~(y < x)
    BY <1>2 DEF OpToRel
  <2> QED BY <2>1
<1> QED BY <1>3

\* A set of places in a sequence has a last one.
LEMMA LastPlace ==
  ASSUME NEW n \in Nat, NEW S \in SUBSET (1 .. n), S # {}
  PROVE  LET m == CHOOSE x \in S : \A y \in S : x >= y IN m \in S /\ \A y \in S : m >= y
<1> DEFINE T == {k \in Nat : n - k \in S}
<1>1. T \in SUBSET Nat /\ T # {}
  <2>1. PICK x \in S : TRUE
    OBVIOUS
  <2>2. n - x \in Nat /\ n - (n - x) = x
    OBVIOUS
  <2> QED BY <2>1, <2>2
<1>2. PICK m \in T : \A y \in T : m <= y
  <2> HIDE DEF T
  <2> QED BY <1>1, LeastPlace
<1>3. n - m \in S
  BY <1>2
<1>4. ASSUME NEW y \in S PROVE n - m >= y
  <2>1. n - y \in Nat /\ n - (n - y) = y
    OBVIOUS
  <2>2. n - y \in T
    BY <2>1
  <2>3. m <= n - y /\ m \in Nat
    BY <1>2, <2>2
  <2> QED BY <2>3
<1> QED BY <1>3, <1>4

\* Two sequences, one behind the other.
LEMMA Behind ==
  ASSUME NEW S, NEW a \in Seq(S), NEW b \in Seq(S)
  PROVE  /\ a \o b \in Seq(S) /\ Len(a \o b) = Len(a) + Len(b)
         /\ \A i \in 1 .. Len(a) : (a \o b)[i] = a[i]
         /\ \A i \in 1 .. Len(b) : (a \o b)[Len(a) + i] = b[i]
OBVIOUS

\* A stretch of a sequence.
LEMMA Stretch ==
  ASSUME NEW S, NEW s \in Seq(S), NEW m \in Nat, NEW n \in Nat, m <= n, n <= Len(s)
  PROVE  /\ SubSeq(s, m + 1, n) \in Seq(S) /\ Len(SubSeq(s, m + 1, n)) = n - m
         /\ \A i \in 1 .. n - m : SubSeq(s, m + 1, n)[i] = s[m + i]
OBVIOUS

\* The start of a sequence.
LEMMA Start ==
  ASSUME NEW S, NEW s \in Seq(S), NEW n \in Nat, n <= Len(s)
  PROVE  /\ SubSeq(s, 1, n) \in Seq(S) /\ Len(SubSeq(s, 1, n)) = n
         /\ \A i \in 1 .. n : SubSeq(s, 1, n)[i] = s[i]
OBVIOUS

\* Sequences with the same entries are the same.
LEMMA SameEntries ==
  ASSUME NEW S, NEW s \in Seq(S), NEW t \in Seq(S), Len(s) = Len(t), \A i \in 1 .. Len(s) : s[i] = t[i]
  PROVE  s = t
OBVIOUS

-----------------------------------------------------------------------------
(* Commands run in a guest: the specification and its invariant            *)

\* The specification: what is proved is safety.
ExecSpec == ExecInit /\ [][ExecNext]_execVars

\* What the command and the shell print.
Prints == Tokens \union ExitCodes \union {"nl", "mark"}

\* What a buffer holds of everything that was written to it.
Captured(s) ==
  [buf |-> IF Len(s) > OutputCap THEN SubSeq(s, 1, OutputCap) ELSE s, truncated |-> Len(s) > OutputCap]

\* Everything the shell prints when the command ends.
Printed == output \o <<"nl", "mark", code, "nl">>

\* Until ssh ends the buffer holds what the command printed, and nothing is answered; then it
\* also holds the marker, unless the connection broke; the answer is made from that.
ExecInv ==
  /\ execAt \in {"request", "running", "ended", "over"}
  /\ output \in Seq(Tokens) /\ code \in ExitCodes /\ expired \in BOOLEAN
  /\ execAt \in {"request", "running"} => buffer = Captured(output)
  /\ execAt = "ended" \/ (execAt = "over" /\ execAnswer.status = 200) =>
       \/ sshCode = code /\ buffer = Captured(Printed)
       \/ sshCode = "255" /\ buffer = Captured(output)
  /\ execAt # "over" => execAnswer = NoResult
  /\ execAt = "over" /\ execAnswer.status = 200 => execAnswer = ExecResult

-----------------------------------------------------------------------------
\* What Captured is in its two cases.
LEMMA CapturedFlag ==
  ASSUME NEW s
  PROVE  Captured(s).truncated <=> Len(s) > OutputCap
BY Zenon DEF Captured

LEMMA CapturedFits ==
  ASSUME NEW s \in Seq(Prints), Len(s) <= OutputCap
  PROVE  Captured(s) = [buf |-> s, truncated |-> FALSE]
<1>1. ~(Len(s) > OutputCap)
  BY GuestExecAssumption
<1>2. (Len(s) > OutputCap) = FALSE
  BY <1>1
<1> QED BY <1>1, <1>2, Zenon DEF Captured

LEMMA CapturedCut ==
  ASSUME NEW s \in Seq(Prints), Len(s) > OutputCap
  PROVE  Captured(s) = [buf |-> SubSeq(s, 1, OutputCap), truncated |-> TRUE]
<1>1. (Len(s) > OutputCap) = TRUE
  OBVIOUS
<1> QED BY <1>1, Zenon DEF Captured

\* A buffer that is written to in pieces holds what it would hold of the whole.
LEMMA WrittenInPieces ==
  ASSUME NEW s \in Seq(Prints), NEW p \in Seq(Prints)
  PROVE  WriteCapped(Captured(s), p) = Captured(s \o p)
<1> DEFINE t == s \o p
           c == Captured(s)
           remaining == OutputCap - Len(c.buf)
<1>0. OutputCap \in Nat \ {0}
  BY GuestExecAssumption
<1>1. t \in Seq(Prints) /\ Len(t) = Len(s) + Len(p)
      /\ (\A i \in 1 .. Len(s) : t[i] = s[i])
      /\ (\A i \in 1 .. Len(p) : t[Len(s) + i] = p[i])
  OBVIOUS
<1>2. CASE Len(s) > OutputCap
  <2>1. c.buf = SubSeq(s, 1, OutputCap) /\ c.truncated = TRUE
    BY <1>2, CapturedCut
  <2>2. c.buf \in Seq(Prints) /\ Len(c.buf) = OutputCap /\ \A i \in 1 .. OutputCap : c.buf[i] = s[i]
    BY <1>0, <1>2, <2>1
  <2>3. remaining = 0
    BY <1>0, <2>2
  <2>4. SubSeq(p, 1, 0) = <<>>
    OBVIOUS
  <2>5. c.buf \o SubSeq(p, 1, remaining) = c.buf
    BY <2>2, <2>3, <2>4
  <2>6. Len(p) > 0 \/ p = <<>>
    OBVIOUS
  <2>7. c.buf \o p = c.buf \/ Len(p) > remaining
    BY <2>2, <2>3, <2>6
  <2>8. WriteCapped(c, p) = [buf |-> c.buf, truncated |-> TRUE]
    BY <2>1, <2>5, <2>7 DEF WriteCapped
  <2>9. SubSeq(t, 1, OutputCap) = SubSeq(s, 1, OutputCap)
    BY <1>0, <1>1, <1>2
  <2> HIDE DEF t
  <2>10. Captured(t) = [buf |-> SubSeq(t, 1, OutputCap), truncated |-> TRUE]
    <3>1. Len(t) > OutputCap
      BY <1>0, <1>1, <1>2
    <3> QED BY <1>1, <3>1, CapturedCut
  <2> QED BY <2>1, <2>8, <2>9, <2>10 DEF t
<1>3. CASE Len(s) <= OutputCap
  <2>1. c.buf = s /\ c.truncated = FALSE
    BY <1>3, CapturedFits
  <2>2. remaining = OutputCap - Len(s) /\ remaining \in Nat
    BY <1>0, <1>3, <2>1
  <2>3. CASE Len(p) > remaining
    <3> DEFINE q == SubSeq(p, 1, remaining)
    <3>1. q \in Seq(Prints) /\ Len(q) = remaining /\ \A i \in 1 .. remaining : q[i] = p[i]
      BY <2>2, <2>3
    <3>2. s \o q = SubSeq(t, 1, OutputCap)
      <4> HIDE DEF q, t, remaining
      <4>1. SubSeq(t, 1, OutputCap) \in Seq(Prints) /\ Len(SubSeq(t, 1, OutputCap)) = OutputCap
            /\ \A i \in 1 .. OutputCap : SubSeq(t, 1, OutputCap)[i] = t[i]
        BY <1>0, <1>1, <1>3, <2>2, <2>3
      <4>2. s \o q \in Seq(Prints) /\ Len(s \o q) = OutputCap
        BY <1>0, <1>3, <2>2, <3>1
      <4>3. ASSUME NEW i \in 1 .. OutputCap PROVE (s \o q)[i] = t[i]
        <5>1. CASE i <= Len(s)
          BY <1>1, <5>1, <3>1
        <5>2. CASE i > Len(s)
          <6>1. i - Len(s) \in 1 .. remaining /\ i - Len(s) \in 1 .. Len(p)
            BY <1>0, <1>3, <2>2, <2>3, <5>2
          <6>2. (s \o q)[i] = q[i - Len(s)]
            BY <3>1, <5>2, <6>1, <2>2, <1>0
          <6>3. t[Len(s) + (i - Len(s))] = p[i - Len(s)]
            BY <1>1, <6>1
          <6>4. Len(s) + (i - Len(s)) = i
            BY <1>0
          <6>5. q[i - Len(s)] = p[i - Len(s)]
            BY <3>1, <6>1
          <6> QED BY <6>2, <6>3, <6>4, <6>5
        <5>3. i <= Len(s) \/ i > Len(s)
          BY <1>0
        <5> QED BY <5>1, <5>2, <5>3, Zenon
      <4> DEFINE u == s \o q  v == SubSeq(t, 1, OutputCap)
      <4>4. u \in Seq(Prints) /\ v \in Seq(Prints) /\ Len(u) = Len(v) /\ \A i \in 1 .. Len(v) : u[i] = v[i]
        BY <4>1, <4>2, <4>3
      <4> HIDE DEF u, v
      <4>5. u = v
        BY <4>4
      <4> QED BY <4>5 DEF u, v
    <3>3. WriteCapped(c, p) = [buf |-> s \o q, truncated |-> TRUE]
      BY <2>1, <2>3 DEF WriteCapped
    <3>4. Len(t) > OutputCap
      BY <1>0, <1>1, <2>2, <2>3
    <3>5. Captured(t) = [buf |-> SubSeq(t, 1, OutputCap), truncated |-> TRUE]
      <4> HIDE DEF t
      <4> QED BY <1>1, <3>4, CapturedCut
    <3> QED BY <3>2, <3>3, <3>5
  <2>4. CASE ~(Len(p) > remaining)
    <3>1. WriteCapped(c, p) = [buf |-> t, truncated |-> FALSE]
      BY <2>1, <2>4 DEF WriteCapped
    <3>2. ~(Len(t) > OutputCap)
      BY <1>0, <1>1, <2>2, <2>4
    <3>3. Captured(t) = [buf |-> t, truncated |-> FALSE]
      <4>1. Len(t) <= OutputCap
        BY <1>0, <1>1, <3>2
      <4> HIDE DEF t
      <4> QED BY <1>1, <4>1, CapturedFits
    <3> QED BY <3>1, <3>3
  <2> QED BY <2>3, <2>4
<1> QED BY <1>0, <1>2, <1>3

\* A truncated text ends with the mark of the buffer, so no marker in it counts as the shell's,
\* wherever the text was cut and whatever the command printed.
LEMMA TruncatedHasNoSentinel ==
  ASSUME NEW s \in Seq(Prints), Len(s) > OutputCap
  PROVE  LET x == CappedString(Captured(s)) IN
         /\ x = SubSeq(s, 1, OutputCap - 1) \o <<"cut">>
         /\ ParseExitSentinel(x) = NoSentinel(x)
<1> DEFINE a == SubSeq(s, 1, OutputCap - 1)
           x == a \o <<"cut">>
           b == SubSeq(s, 1, OutputCap)
<1>0. OutputCap \in Nat \ {0}
  BY GuestExecAssumption
<1>1. a \in Seq(Prints) /\ Len(a) = OutputCap - 1 /\ \A i \in 1 .. OutputCap - 1 : a[i] = s[i]
  BY <1>0
<1>2. SubSeq(b, 1, OutputCap - 1) = a
  BY <1>0
<1>3. CappedString(Captured(s)) = x
  BY <1>0, <1>2 DEF CappedString, Captured
<1>4. /\ x \in Seq(Prints \union {"cut"}) /\ Len(x) = OutputCap
      /\ x[OutputCap] = "cut"
  <2> HIDE DEF a
  <2> QED BY <1>0, <1>1
<1> HIDE DEF x
<1>5. ASSUME NEW i \in Marks(x) PROVE SentinelAt(x, i) = NoSentinel(x)
  <2> DEFINE rest == SubSeq(x, i + 1, Len(x))
  <2>1. i \in 1 .. OutputCap /\ x[i] = "mark"
    BY <1>4, <1>5 DEF Marks
  <2>2. i < OutputCap
    BY <1>0, <1>4, <2>1
  <2>3. /\ Len(rest) = OutputCap - i
        /\ \A k \in 1 .. OutputCap - i : rest[k] = x[i + k]
    BY <1>0, <1>4, <2>1, <2>2
  <2>4. rest[OutputCap - i] = "cut"
    BY <1>0, <1>4, <2>1, <2>2, <2>3
  <2>5. ~(Head(rest) \in Digits /\ \A k \in 2 .. Len(rest) : rest[k] = "nl")
    <3>1. CASE OutputCap - i = 1
      <4>1. Head(rest) = rest[1]
        <5>1. rest \in Seq(Prints \union {"cut"}) /\ rest # <<>>
          BY <1>0, <1>4, <2>1, <2>2, <2>3, <3>1
        <5> HIDE DEF rest
        <5> QED BY <5>1
      <4> QED BY <2>3, <2>4, <3>1, <4>1, GuestExecAssumption DEF Digits
    <3>2. CASE OutputCap - i # 1
      <4>1. OutputCap - i \in 2 .. Len(rest)
        <5> HIDE DEF rest
        <5> QED BY <1>0, <2>1, <2>2, <2>3, <3>2
      <4> HIDE DEF rest
      <4> QED BY <2>4, <4>1
    <3> QED BY <3>1, <3>2
  <2> HIDE DEF rest
  <2> QED BY <2>5 DEF SentinelAt, rest
<1>6. ParseExitSentinel(x) = NoSentinel(x)
  <2>1. CASE Marks(x) = {}
    BY <2>1 DEF ParseExitSentinel
  <2>2. CASE Marks(x) # {}
    <3> DEFINE i == CHOOSE i \in Marks(x) : \A j \in Marks(x) : i >= j
    <3>1. Marks(x) \in SUBSET (1 .. OutputCap) /\ OutputCap \in Nat
      BY <1>0, <1>4 DEF Marks
    <3>2. i \in Marks(x)
      <4> HIDE DEF x
      <4> QED BY <2>2, <3>1, LastPlace
    <3> HIDE DEF i
    <3>3. ParseExitSentinel(x) = SentinelAt(x, i)
      BY <2>2 DEF ParseExitSentinel, i
    <3> QED BY <1>5, <3>2, <3>3
  <2> QED BY <2>1, <2>2
<1> QED BY <1>3, <1>6 DEF x

\* In a text that is whole the marker of the shell is found, whatever is before it.
LEMMA EndsWithSentinel ==
  ASSUME NEW o \in Seq(Tokens), NEW c \in ExitCodes
  PROVE  ParseExitSentinel(o \o <<"nl", "mark", c, "nl">>) = [ok |-> TRUE, code |-> c, clean |-> o]
<1> DEFINE e == <<"nl", "mark", c, "nl">>
           x == o \o e
           n == Len(o)
<1>1. n \in Nat /\ o \in Seq(Prints) /\ e \in Seq(Prints) /\ Len(e) = 4
      /\ e[1] = "nl" /\ e[2] = "mark" /\ e[3] = c /\ e[4] = "nl"
  BY DEF Prints
<1>2. x \in Seq(Prints) /\ Len(x) = n + 4
      /\ (\A i \in 1 .. n : x[i] = o[i])
      /\ (\A i \in 1 .. 4 : x[n + i] = e[i])
  <2> HIDE DEF e
  <2>0. o \in Seq(Prints) /\ e \in Seq(Prints)
    BY <1>1
  <2>1. x \in Seq(Prints) /\ Len(x) = n + Len(e) /\ (\A i \in 1 .. n : x[i] = o[i])
        /\ (\A i \in 1 .. Len(e) : x[n + i] = e[i])
    BY <2>0, Behind
  <2> HIDE DEF x, n
  <2> QED BY <1>1, <2>1
<1> HIDE DEF e, x, n
<1>3. x[n + 1] = "nl" /\ x[n + 2] = "mark" /\ x[n + 3] = c /\ x[n + 4] = "nl"
  BY <1>1, <1>2
<1>4. c # "mark" /\ c \in Digits
  BY GuestExecAssumption DEF Digits
<1>5. n + 2 \in Marks(x) /\ \A j \in Marks(x) : j <= n + 2
  <2>1. n + 2 \in Marks(x)
    BY <1>1, <1>2, <1>3 DEF Marks
  <2>2. ASSUME NEW j \in Marks(x) PROVE j <= n + 2
    <3>1. j \in 1 .. n + 4 /\ x[j] = "mark"
      BY <1>1, <1>2 DEF Marks
    <3>2. j # n + 3 /\ j # n + 4
      BY <1>3, <1>4, <3>1
    <3> QED BY <1>1, <3>1, <3>2
  <2> QED BY <2>1, <2>2
<1>6. ParseExitSentinel(x) = SentinelAt(x, n + 2)
  <2> DEFINE i == CHOOSE i \in Marks(x) : \A j \in Marks(x) : i >= j
  <2>1. Marks(x) \in SUBSET (1 .. n + 4) /\ n + 4 \in Nat /\ Marks(x) # {}
    BY <1>1, <1>2, <1>5 DEF Marks
  <2>2. i \in Marks(x) /\ \A j \in Marks(x) : i >= j
    BY <2>1, LastPlace
  <2>3. i = n + 2
    <3> HIDE DEF i
    <3> QED BY <1>1, <1>5, <2>1, <2>2
  <2>4. ParseExitSentinel(x) = SentinelAt(x, i)
    BY <2>1 DEF ParseExitSentinel
  <2> QED BY <2>3, <2>4
<1>7. SentinelAt(x, n + 2) = [ok |-> TRUE, code |-> c, clean |-> o]
  <2> DEFINE rest == SubSeq(x, (n + 2) + 1, Len(x))
  <2>1. rest \in Seq(Prints) /\ Len(rest) = 2 /\ rest[1] = x[n + 3] /\ rest[2] = x[n + 4]
    BY <1>1, <1>2
  <2>2. SubSeq(x, 1, n) = o
    BY <1>1, <1>2 DEF n
  <2> HIDE DEF rest
  <2>3. rest # <<>> /\ Head(rest) = c /\ \A k \in 2 .. Len(rest) : rest[k] = "nl"
    <3>1. rest # <<>>
      <4>1. Len(<<>>) = 0 /\ 0 # 2
        OBVIOUS
      <4> QED BY <2>1, <4>1, Zenon
    <3>2. Head(rest) = rest[1]
      BY <2>1, <3>1
    <3>3. ASSUME NEW k \in 2 .. Len(rest) PROVE rest[k] = "nl"
      <4>1. k = 2
        BY <2>1
      <4> QED BY <1>3, <2>1, <4>1
    <3> QED BY <1>3, <2>1, <3>1, <3>2, <3>3
  <2>4. n + 2 > 1 /\ (n + 2) - 1 = n + 1 /\ (n + 2) - 2 = n
    BY <1>1
  <2> QED BY <1>3, <1>4, <2>2, <2>3, <2>4 DEF SentinelAt, rest
<1> QED BY <1>6, <1>7 DEF x, e

-----------------------------------------------------------------------------
\* The invariant holds at first ...
LEMMA ExecInitInv == ExecInit => ExecInv
<1> SUFFICES ASSUME ExecInit PROVE ExecInv
  OBVIOUS
<1>1. <<>> \in Seq(Prints) /\ Len(<<>>) <= OutputCap
  BY GuestExecAssumption
<1>2. buffer = Captured(output)
  BY <1>1, CapturedFits DEF ExecInit
<1>3. output \in Seq(Tokens)
  <2>1. output = <<>>
    BY Zenon DEF ExecInit
  <2> QED BY <2>1
<1>5. code \in ExitCodes /\ execAt = "request" /\ execAnswer = NoResult
  BY Zenon DEF ExecInit
<1>4. expired \in BOOLEAN
  BY Zenon DEF ExecInit
<1> QED BY <1>2, <1>3, <1>4, <1>5 DEF ExecInv

\* A piece of output, or the marker, is written behind what was printed before.
LEMMA BufferStep ==
  ASSUME ExecInv, execAt = "running"
  PROVE  /\ \A p \in Seq(Tokens) : WriteCapped(buffer, p) = Captured(output \o p)
         /\ WriteCapped(buffer, <<"nl", "mark", code, "nl">>) = Captured(Printed)
<1>1. output \in Seq(Prints) /\ <<"nl", "mark", code, "nl">> \in Seq(Prints)
  BY DEF ExecInv, Prints
<1>2. \A p \in Seq(Tokens) : p \in Seq(Prints)
  BY DEF Prints
<1>3. buffer = Captured(output)
  BY DEF ExecInv
<1> QED BY <1>1, <1>2, <1>3, WrittenInPieces DEF Printed

\* ... and every step keeps it.
LEMMA ExecStep ==
  ASSUME ExecInv, [ExecNext]_execVars
  PROVE  ExecInv'
<1>1. CASE ExecAdmitted
  BY <1>1 DEF ExecAdmitted, ExecInv, Captured
<1>2. CASE ExecRefused
  <2>0. PICK s \in {400, 404, 409, 500, 501} : execAnswer' = [NoResult EXCEPT !.status = s]
    BY <1>2 DEF ExecRefused
  <2>3. execAnswer'.status = s
    BY <2>0, Zenon DEF NoResult
  <2>1. execAt' = "over" /\ execAnswer'.status # 200
    BY <1>2, <2>3 DEF ExecRefused
  <2>2. output' = output /\ code' = code /\ expired' = expired
    BY <1>2 DEF ExecRefused
  <2> QED BY <2>1, <2>2 DEF ExecInv
<1>3. ASSUME NEW n \in 1 .. 2, NEW p \in [1 .. n -> Tokens], CommandPrints(p)
      PROVE  ExecInv'
  <2>1. p \in Seq(Tokens)
    BY <1>3
  <2>2. output' \in Seq(Tokens) /\ buffer' = Captured(output')
    BY <1>3, <2>1, BufferStep DEF CommandPrints, ExecInv
  <2> QED BY <1>3, <2>2 DEF CommandPrints, ExecInv
<1>4. CASE ShellEnds
  <2>1. buffer' = Captured(Printed')
    BY <1>4, BufferStep DEF ShellEnds, Printed
  <2> QED BY <1>4, <2>1 DEF ShellEnds, ExecInv
<1>5. CASE SshBreaks
  <2>1. buffer' = Captured(output')
    BY <1>5 DEF SshBreaks, ExecInv
  <2> QED BY <1>5, <2>1 DEF SshBreaks, ExecInv
<1>6. CASE ContextExpires
  BY <1>6 DEF ContextExpires, ExecInv, Printed
<1>7. CASE ExecEnds
  <2>1. execAnswer' = ExecResult'
    BY <1>7 DEF ExecEnds, ExecResult
  <2> QED BY <1>7, <2>1 DEF ExecEnds, ExecInv, Printed
<1>8. CASE UNCHANGED execVars
  <2>1. ExecResult' = ExecResult /\ Printed' = Printed
    BY <1>8 DEF execVars, ExecResult, Printed
  <2> QED BY <1>8, <2>1 DEF execVars, ExecInv
<1> QED BY <1>1, <1>2, <1>3, <1>4, <1>5, <1>6, <1>7, <1>8 DEF ExecNext

-----------------------------------------------------------------------------
\* The command ran to its end if the buffer holds what the shell printed then.
LEMMA RanToEndMeans ==
  ASSUME ExecInv
  PROVE  RanToEnd <=> buffer = Captured(Printed)
<1>1. output \in Seq(Prints) /\ <<"nl", "mark", code, "nl">> \in Seq(Prints) /\ <<>> \in Seq(Prints)
  BY DEF ExecInv, Prints
<1>2. Captured(<<>>) = [buf |-> <<>>, truncated |-> FALSE]
  <2>1. Len(<<>>) <= OutputCap
    BY GuestExecAssumption
  <2> QED BY <1>1, <2>1, CapturedFits, Zenon
<1>3. <<>> \o output = output
  BY <1>1
<1>4. WriteCapped([buf |-> <<>>, truncated |-> FALSE], output) = Captured(output)
  BY <1>1, <1>2, <1>3, WrittenInPieces
<1>5. WriteCapped(Captured(output), <<"nl", "mark", code, "nl">>) = Captured(Printed)
  BY <1>1, WrittenInPieces DEF Printed
<1> QED BY <1>4, <1>5, Zenon DEF RanToEnd

\* A truncated answer is the start of what was printed, with a mark behind it.
LEMMA CutAnswer ==
  ASSUME NEW s \in Seq(Prints), Len(s) > OutputCap
  PROVE  LET x == SubSeq(s, 1, OutputCap - 1) \o <<"cut">> IN
         Last(x) = "cut" /\ IsPrefix(Front(x), s)
<1> DEFINE a == SubSeq(s, 1, OutputCap - 1)
           x == a \o <<"cut">>
<1>0. OutputCap \in Nat \ {0}
  BY GuestExecAssumption
<1>1. a \in Seq(Prints) /\ Len(a) = OutputCap - 1 /\ \A i \in 1 .. OutputCap - 1 : a[i] = s[i]
  BY <1>0
<1>2. x \in Seq(Prints \union {"cut"}) /\ Len(x) = OutputCap /\ x[OutputCap] = "cut"
  <2> HIDE DEF a
  <2> QED BY <1>0, <1>1
<1>3. \A i \in 1 .. OutputCap - 1 : x[i] = a[i]
  <2> HIDE DEF a
  <2> QED BY <1>0, <1>1
<1>4. Front(x) = a
  <2> DEFINE f == SubSeq(x, 1, Len(x) - 1)
  <2>1. f \in Seq(Prints \union {"cut"}) /\ Len(f) = OutputCap - 1 /\ \A i \in 1 .. OutputCap - 1 : f[i] = x[i]
    <3> HIDE DEF x
    <3> QED BY <1>0, <1>2
  <2>2. a \in Seq(Prints \union {"cut"})
    <3> HIDE DEF a
    <3> QED BY <1>1
  <2>3. Front(x) = f
    BY DEF Front
  <2> HIDE DEF f, a, x
  <2>4. f = a
    BY <1>1, <1>3, <2>1, <2>2
  <2> QED BY <2>3, <2>4
<1>5. Last(x) = "cut"
  <2> HIDE DEF x
  <2> QED BY <1>2 DEF Last
<1>6. IsPrefix(a, s)
  <2> HIDE DEF a
  <2> QED BY <1>0, <1>1 DEF IsPrefix, a
<1> QED BY <1>4, <1>5, <1>6

\* The invariant says what an answer is made of, and so that it is true.
LEMMA ExecInvAnswers ==
  ASSUME ExecInv
  PROVE  ExecAnswerIsTrue
<1> SUFFICES ASSUME execAnswer.status = 200
             PROVE  ExecAnswerIsTrue
  BY DEF ExecAnswerIsTrue, ExecCodeIsTrue, ExecOutputIsTrue
<1> DEFINE x == CappedString(buffer)
           p == ParseExitSentinel(x)
<1>1. execAt = "over" /\ execAnswer = ExecResult
  <2>1. NoResult.status = 0 /\ 0 # 200
    BY DEF NoResult
  <2>2. execAnswer # NoResult
    BY <2>1, Zenon
  <2> QED BY <2>2, Zenon DEF ExecInv
<1>2. \/ sshCode = code /\ buffer = Captured(Printed)
      \/ sshCode = "255" /\ buffer = Captured(output)
  BY <1>1 DEF ExecInv
<1>3. output \in Seq(Tokens) /\ output \in Seq(Prints) /\ code \in ExitCodes
      /\ <<"nl", "mark", code, "nl">> \in Seq(Prints)
  BY DEF ExecInv, Prints
<1>4. Printed \in Seq(Prints) /\ Len(Printed) = Len(output) + 4 /\ Len(output) \in Nat
  BY <1>3 DEF Printed
<1>5. OutputCap \in Nat \ {0}
  BY GuestExecAssumption
<1>6. ASSUME ~p.ok PROVE sshCode # "255" /\ execAnswer = [status |-> 200, code |-> sshCode, stdout |-> p.clean]
  <2>0. 504 # 200 /\ 500 # 200
    OBVIOUS
  <2>1. CASE expired
    <3>1. execAnswer = [status |-> 504, code |-> "", stdout |-> p.clean]
      BY <1>1, <1>6, <2>1 DEF ExecResult
    <3> QED BY <2>0, <3>1
  <2>2. CASE ~expired /\ sshCode # "255"
    BY <1>1, <1>6, <2>2 DEF ExecResult
  <2>3. CASE ~expired /\ sshCode = "255"
    <3>1. execAnswer = [status |-> 500, code |-> "255", stdout |-> p.clean]
      BY <1>1, <1>6, <2>3 DEF ExecResult
    <3> QED BY <2>0, <3>1
  <2> QED BY <2>1, <2>2, <2>3, Zenon
<1>7. ASSUME p.ok PROVE execAnswer = [status |-> 200, code |-> p.code, stdout |-> p.clean]
  BY <1>1, <1>7 DEF ExecResult
<1> HIDE DEF p
<1>8. CASE sshCode = code /\ buffer = Captured(Printed) /\ Len(Printed) > OutputCap
  <2>0. buffer = [buf |-> SubSeq(Printed, 1, OutputCap), truncated |-> TRUE]
    BY <1>4, <1>8, CapturedCut
  <2>6. buffer.truncated
    BY <2>0, Zenon
  <2>1. x = SubSeq(Printed, 1, OutputCap - 1) \o <<"cut">> /\ p = NoSentinel(x)
    BY <1>4, <1>8, TruncatedHasNoSentinel DEF p
  <2>2. ~p.ok /\ p.clean = x
    BY <2>1, Zenon DEF NoSentinel
  <2>3. execAnswer.code = code /\ execAnswer.stdout = x
    BY <1>6, <1>8, <2>2
  <2>4. Last(x) = "cut" /\ IsPrefix(Front(x), Printed)
    BY <1>4, <1>8, <2>1, CutAnswer
  <2>5. RanToEnd
    BY <1>8, RanToEndMeans
  <2> HIDE DEF x
  <2> QED BY <2>6, <2>3, <2>4, <2>5, Zenon DEF ExecAnswerIsTrue, ExecCodeIsTrue, ExecOutputIsTrue, Printed
<1>9. CASE sshCode = code /\ buffer = Captured(Printed) /\ Len(Printed) <= OutputCap
  <2>1. buffer = [buf |-> Printed, truncated |-> FALSE]
    BY <1>4, <1>9, CapturedFits
  <2>2. x = Printed
    BY <2>1, Zenon DEF CappedString
  <2>3. p = [ok |-> TRUE, code |-> code, clean |-> output]
    BY <1>3, <2>2, EndsWithSentinel DEF p, Printed
  <2>4. p.ok /\ p.code = code /\ p.clean = output
    BY <2>3, Zenon
  <2>5. execAnswer.code = code /\ execAnswer.stdout = output
    BY <1>7, <2>4
  <2>6. RanToEnd
    BY <1>9, RanToEndMeans
  <2>7. ~buffer.truncated
    BY <2>1, Zenon
  <2> QED BY <2>5, <2>6, <2>7, Zenon DEF ExecAnswerIsTrue, ExecCodeIsTrue, ExecOutputIsTrue
<1>10. CASE sshCode = "255" /\ buffer = Captured(output) /\ Len(output) > OutputCap
  <2>1. p = NoSentinel(x)
    BY <1>3, <1>10, TruncatedHasNoSentinel DEF p
  <2>2. ~p.ok
    BY <2>1, Zenon DEF NoSentinel
  <2> QED BY <1>6, <1>10, <2>2
<1>11. CASE sshCode = "255" /\ buffer = Captured(output) /\ Len(output) <= OutputCap
  <2>1. buffer = [buf |-> output, truncated |-> FALSE]
    BY <1>3, <1>11, CapturedFits
  <2>2. x = output
    BY <2>1, Zenon DEF CappedString
  <2>3. p.ok
    BY <1>6, <1>11
  <2>4. Marks(output) # {}
    <3>1. ASSUME Marks(output) = {} PROVE FALSE
      <4>1. p = NoSentinel(output)
        BY <2>2, <3>1 DEF p, ParseExitSentinel
      <4>2. ~p.ok
        BY <4>1, Zenon DEF NoSentinel
      <4> QED BY <2>3, <4>2
    <3> QED BY <3>1
  <2>5. "mark" \in {output[i] : i \in DOMAIN output}
    BY <2>4 DEF Marks
  <2>6. buffer # Captured(Printed)
    <3>1. CASE Len(Printed) > OutputCap
      <4>1. Captured(Printed).truncated /\ ~Captured(output).truncated
        BY <1>4, <1>5, <1>11, <3>1, CapturedFlag
      <4> QED BY <1>11, <4>1
    <3>2. CASE Len(Printed) <= OutputCap
      <4>1. Captured(Printed).buf = Printed
        BY <1>4, <3>2, CapturedFits
      <4>2. buffer.buf = output
        BY <2>1
      <4>3. output # Printed
        BY <1>4
      <4> QED BY <4>1, <4>2, <4>3, Zenon
    <3>3. Len(Printed) > OutputCap \/ Len(Printed) <= OutputCap
      BY <1>4, <1>5
    <3> QED BY <3>1, <3>2, <3>3, Zenon
  <2>7. ~RanToEnd
    BY <2>6, RanToEndMeans
  <2> QED BY <2>5, <2>7, Zenon DEF ExecAnswerIsTrue, ExecCodeIsTrue, ExecOutputIsTrue
<1>12. /\ Len(Printed) > OutputCap \/ Len(Printed) <= OutputCap
       /\ Len(output) > OutputCap \/ Len(output) <= OutputCap
  BY <1>4, <1>5
<1> QED BY <1>2, <1>8, <1>9, <1>10, <1>11, <1>12, Zenon

(***************************************************************************)
(* What the API answers to an exec request is what happened in the guest:  *)
(* the exit code of a command that ran to its end, and its output, whole   *)
(* or marked as cut, for every limit on the output, every set of tokens    *)
(* and exit codes, and whatever the command prints, in whatever pieces.    *)
(***************************************************************************)
THEOREM ExecAnswersAreTrue == ExecSpec => []ExecAnswerIsTrue
<1>1. ExecInit => ExecInv
  BY ExecInitInv
<1>2. ExecInv /\ [ExecNext]_execVars => ExecInv'
  BY ExecStep
<1>3. ExecInv => ExecAnswerIsTrue
  BY ExecInvAnswers
<1> QED BY <1>1, <1>2, <1>3, PTL DEF ExecSpec

-----------------------------------------------------------------------------
(* The wire format of events: pieces of what was written                   *)

\* w has the piece a behind its first j fields.
Part(w, j, a) == j + Len(a) <= Len(w) /\ \A i \in 1 .. Len(a) : w[j + i] = a[i]

\* A piece that is made of two.
LEMMA PartSplit ==
  ASSUME NEW w \in Seq(Nat), NEW j \in Nat, NEW a \in Seq(Nat), NEW b \in Seq(Nat), Part(w, j, a \o b)
  PROVE  Part(w, j, a) /\ Part(w, j + Len(a), b)
<1> DEFINE c == a \o b
<1>1. Len(c) = Len(a) + Len(b) /\ (\A i \in 1 .. Len(a) : c[i] = a[i])
      /\ (\A i \in 1 .. Len(b) : c[Len(a) + i] = b[i])
  BY Behind
<1>2. Len(a) \in Nat /\ Len(b) \in Nat /\ Len(w) \in Nat
  OBVIOUS
<1>3. j + Len(c) <= Len(w) /\ \A i \in 1 .. Len(c) : w[j + i] = c[i]
  BY DEF Part
<1> HIDE DEF c
<1>4. Part(w, j, a)
  <2>1. j + Len(a) <= Len(w)
    BY <1>1, <1>2, <1>3
  <2>2. ASSUME NEW i \in 1 .. Len(a) PROVE w[j + i] = a[i]
    <3>0. Len(c) = Len(a) + Len(b)
      BY <1>1
    <3>1. i \in 1 .. Len(c)
      BY <1>2, <3>0
    <3> QED BY <1>1, <1>3, <3>1, Zenon
  <2> QED BY <2>1, <2>2 DEF Part
<1>5. Part(w, j + Len(a), b)
  <2>1. j + Len(a) + Len(b) <= Len(w)
    BY <1>1, <1>2, <1>3
  <2>2. ASSUME NEW i \in 1 .. Len(b) PROVE w[j + Len(a) + i] = b[i]
    <3>1. Len(a) + i \in 1 .. Len(c) /\ j + (Len(a) + i) = j + Len(a) + i
      BY <1>1, <1>2
    <3>2. w[j + (Len(a) + i)] = c[Len(a) + i]
      BY <1>3, <3>1
    <3> QED BY <1>1, <3>1, <3>2
  <2> QED BY <2>1, <2>2 DEF Part
<1> QED BY <1>4, <1>5

-----------------------------------------------------------------------------
(* Definitions by recursion                                                *)

\* f starts with b and takes the steps of G.
Iterates(f, N, b, G) == f[0] = b /\ \A n \in 1 .. N : f[n] = G[n][f[n - 1]]

\* There is such a function, so that a definition by recursion over numbers has its meaning.
LEMMA IterationExists ==
  ASSUME NEW N \in Nat, NEW T, NEW b \in T, NEW G \in [1 .. N -> [T -> T]]
  PROVE  \E f \in [0 .. N -> T] : Iterates(f, N, b, G)
<1> DEFINE Good(k) == \E f \in [0 .. k -> T] : f[0] = b /\ \A n \in 1 .. k : f[n] = G[n][f[n - 1]]
           S == {k \in 0 .. N : ~Good(k)}
<1>1. S = {}
  <2> SUFFICES ASSUME S # {} PROVE FALSE
    OBVIOUS
  <2>1. S \in SUBSET Nat
    OBVIOUS
  <2>2. PICK m \in S : \A y \in S : m <= y
    <3> HIDE DEF S
    <3> QED BY <2>1, LeastPlace
  <2>3. m \in 0 .. N /\ ~Good(m)
    OBVIOUS
  <2> HIDE DEF Good
  <2>4. m # 0
    <3>1. Good(0)
      <4> DEFINE f == [n \in 0 .. 0 |-> b]
      <4>1. f \in [0 .. 0 -> T] /\ f[0] = b /\ \A n \in 1 .. 0 : f[n] = G[n][f[n - 1]]
        OBVIOUS
      <4> QED BY <4>1 DEF Good
    <3> QED BY <2>3, <3>1
  <2>5. m - 1 \in 0 .. N /\ ~(m <= m - 1)
    BY <2>3, <2>4
  <2>6. Good(m - 1)
    BY <2>2, <2>5
  <2>7. PICK f \in [0 .. m - 1 -> T] : f[0] = b /\ \A n \in 1 .. m - 1 : f[n] = G[n][f[n - 1]]
    BY <2>6 DEF Good
  <2> DEFINE g == [n \in 0 .. m |-> IF n = m THEN G[m][f[m - 1]] ELSE f[n]]
  <2>8. m \in Nat /\ m \in 1 .. N
    BY <2>3, <2>4
  <2>9. f[m - 1] \in T /\ G[m][f[m - 1]] \in T
    BY <2>7, <2>8
  <2>10. g \in [0 .. m -> T]
    <3>1. ASSUME NEW n \in 0 .. m PROVE g[n] \in T
      BY <2>7, <2>8, <2>9
    <3> QED BY <3>1
  <2>11. g[0] = b
    BY <2>4, <2>7, <2>8
  <2>12. ASSUME NEW n \in 1 .. m PROVE g[n] = G[n][g[n - 1]]
    <3>1. g[n - 1] = f[n - 1]
      BY <2>8
    <3>2. CASE n = m
      BY <2>8, <3>1, <3>2
    <3>3. CASE n # m
      <4>1. n \in 1 .. m - 1 /\ n \in 0 .. m
        BY <2>8, <3>3
      <4>2. g[n] = f[n]
        BY <3>3, <4>1
      <4> HIDE DEF g
      <4> QED BY <2>7, <3>1, <4>1, <4>2
    <3> QED BY <3>2, <3>3
  <2> HIDE DEF g
  <2>13. Good(m)
    BY <2>10, <2>11, <2>12 DEF Good
  <2> QED BY <2>3, <2>13
<1>2. N \in 0 .. N
  OBVIOUS
<1>3. Good(N)
  <2> HIDE DEF Good
  <2> QED BY <1>1, <1>2
<1> QED BY <1>3 DEF Iterates

\* f[n] is the first n sequences of ss, one behind the other.
Flattens(f, ss, N) == f[0] = <<>> /\ \A n \in 1 .. N : f[n] = f[n - 1] \o ss[n]

\* FlattenSeq puts the sequences one behind the other.
LEMMA FlattenFacts ==
  ASSUME NEW S, NEW ss \in Seq(Seq(S))
  PROVE  \E f \in [0 .. Len(ss) -> Seq(S)] : Flattens(f, ss, Len(ss)) /\ FlattenSeq(ss) = f[Len(ss)]
<1> DEFINE N == Len(ss)
           T == Seq(S)
           G == [n \in 1 .. N |-> [x \in T |-> x \o ss[n]]]
<1>1. N \in Nat /\ \A n \in 1 .. N : ss[n] \in T
  OBVIOUS
<1>2. ASSUME NEW n \in 1 .. N, NEW x \in T PROVE G[n][x] = x \o ss[n] /\ G[n][x] \in T
  <2>1. G[n][x] = x \o ss[n]
    OBVIOUS
  <2>2. x \o ss[n] \in T
    BY <1>1
  <2> HIDE DEF G
  <2> QED BY <2>1, <2>2
<1>3. <<>> \in T
  OBVIOUS
<1> HIDE DEF G, T
<1>4. PICK f \in [0 .. N -> T] : f[0] = <<>> /\ \A n \in 1 .. N : f[n] = G[n][f[n - 1]]
  <2>1. G \in [1 .. N -> [T -> T]]
    BY <1>2 DEF G
  <2>2. N \in Nat
    BY <1>1
  <2> HIDE DEF N
  <2>3. \E f \in [0 .. N -> T] : Iterates(f, N, <<>>, G)
    BY <1>3, <2>1, <2>2, IterationExists
  <2> QED BY <2>3 DEF Iterates
<1>5. ASSUME NEW n \in 1 .. N PROVE f[n] = f[n - 1] \o ss[n]
  <2>1. n - 1 \in 0 .. N
    BY <1>1
  <2>2. f[n - 1] \in T
    BY <1>4, <2>1
  <2> QED BY <1>2, <1>4, <2>2
<1>6. FlattenSeq(ss) = f[N]
  <2>1. CASE N = 0
    <3>1. ss = <<>>
      BY <2>1
    <3> QED BY <1>4, <2>1, <3>1 DEF FlattenSeq
  <2>2. CASE N # 0
    <3> DEFINE E(h) == [i \in 1 .. N |-> IF i = 1 THEN ss[i] ELSE h[i - 1] \o ss[i]]
               h0 == [i \in 1 .. N |-> f[i]]
               fl == CHOOSE h : h = E(h)
    <3>1. h0 = E(h0)
      <4>1. ASSUME NEW i \in 1 .. N PROVE h0[i] = IF i = 1 THEN ss[i] ELSE h0[i - 1] \o ss[i]
        <5>1. CASE i = 1
          <6>0. 1 \in 1 .. N /\ 1 - 1 = 0
            BY <5>1
          <6>1. f[1] = f[0] \o ss[1] /\ f[0] = <<>> /\ ss[1] \in Seq(S)
            BY <1>4, <1>5, <1>1, <6>0 DEF T
          <6> QED BY <5>1, <6>1
        <5>2. CASE i # 1
          <6>1. i - 1 \in 1 .. N
            BY <1>1, <5>2
          <6> QED BY <1>5, <5>2, <6>1
        <5> QED BY <5>1, <5>2
      <4> QED BY <4>1
    <3>2. fl = E(fl)
      <4> HIDE DEF E, h0
      <4> QED BY <3>1
    <3>3. FlattenSeq(ss) = fl[N]
      BY <2>2 DEF FlattenSeq
    <3> DEFINE B == {i \in 1 .. N : fl[i] # f[i]}
    <3>4. B = {}
      <4> SUFFICES ASSUME B # {} PROVE FALSE
        OBVIOUS
      <4>1. B \in SUBSET Nat
        OBVIOUS
      <4>2. PICK m \in B : \A y \in B : m <= y
        <5> HIDE DEF B
        <5> QED BY <4>1, LeastPlace
      <4>3. m \in 1 .. N /\ fl[m] # f[m]
        OBVIOUS
      <4>4. fl[m] = IF m = 1 THEN ss[m] ELSE fl[m - 1] \o ss[m]
        <5> HIDE DEF fl
        <5> QED BY <3>2, <4>3
      <4> HIDE DEF fl, E
      <4>5. CASE m = 1
        <5>0. 1 \in 1 .. N /\ 1 - 1 = 0
          BY <4>3, <4>5
        <5>1. f[1] = f[0] \o ss[1] /\ f[0] = <<>> /\ ss[1] \in Seq(S)
          BY <1>4, <1>5, <1>1, <5>0 DEF T
        <5> QED BY <4>3, <4>4, <4>5, <5>1
      <4>6. CASE m # 1
        <5>1. m - 1 \in 1 .. N /\ ~(m <= m - 1)
          BY <1>1, <4>3, <4>6
        <5>2. fl[m - 1] = f[m - 1]
          BY <4>2, <5>1
        <5> QED BY <1>5, <4>3, <4>4, <4>6, <5>2
      <4> QED BY <4>5, <4>6
    <3>5. N \in 1 .. N
      BY <1>1, <2>2
    <3> HIDE DEF fl
    <3> QED BY <3>3, <3>4, <3>5
  <2> QED BY <2>1, <2>2
<1> QED BY <1>4, <1>5, <1>6 DEF T, Flattens

-----------------------------------------------------------------------------
(* Reading what was written, from a stream that may break off              *)

Readers == [ok : BOOLEAN, rest : Seq(Nat), last : Seq(Nat)]

\* The reader r of the stream z has passed j fields, or has failed because there are not as many.
Placed(r, z, j) ==
  /\ r \in Readers
  /\ j <= Len(z) => r.ok /\ r.rest = SubSeq(z, j + 1, Len(z))
  /\ j > Len(z) => ~r.ok /\ r.last = <<>>

\* The stream z is w, or the start of it, or w with something behind it.
Agree(z, w) == \A i \in 1 .. Len(w) : i <= Len(z) => z[i] = w[i]

\* The two ends of io.ReadFull.
LEMMA ReadFullCases ==
  ASSUME NEW r, NEW n
  PROVE  /\ r.ok /\ n <= Len(r.rest) =>
              ReadFull(r, n) = [ok |-> TRUE, last |-> SubSeq(r.rest, 1, n), rest |-> SubSeq(r.rest, n + 1, Len(r.rest))]
         /\ ~(r.ok /\ n <= Len(r.rest)) => ReadFull(r, n) = [ok |-> FALSE, last |-> <<>>, rest |-> <<>>]
<1>1. (HasFields(r, n) => ReadFull(r, n) = Took(r, n)) /\ (~HasFields(r, n) => ReadFull(r, n) = ReadFailed)
  BY Zenon DEF ReadFull
<1> QED BY <1>1 DEF HasFields, Took, ReadFailed

\* A reader stays a reader.
LEMMA ReadFullType ==
  ASSUME NEW r \in Readers, NEW n \in Nat
  PROVE  ReadFull(r, n) \in Readers
<1> DEFINE q == [ok |-> TRUE, last |-> SubSeq(r.rest, 1, n), rest |-> SubSeq(r.rest, n + 1, Len(r.rest))]
<1>1. r.rest \in Seq(Nat)
  BY DEF Readers
<1>2. CASE r.ok /\ n <= Len(r.rest)
  <2>1. SubSeq(r.rest, 1, n) \in Seq(Nat) /\ SubSeq(r.rest, n + 1, Len(r.rest)) \in Seq(Nat)
    BY <1>1, <1>2
  <2>2. q \in Readers
    BY <2>1, Zenon DEF Readers
  <2>3. ReadFull(r, n) = q
    BY <1>2, ReadFullCases
  <2> QED BY <2>2, <2>3, Zenon
<1>3. CASE ~(r.ok /\ n <= Len(r.rest))
  <2>1. <<>> \in Seq(Nat)
    OBVIOUS
  <2>2. [ok |-> FALSE, last |-> <<>>, rest |-> <<>>] \in Readers
    BY <2>1, Zenon DEF Readers
  <2>3. ReadFull(r, n) = [ok |-> FALSE, last |-> <<>>, rest |-> <<>>]
    BY <1>3, ReadFullCases
  <2> QED BY <2>2, <2>3, Zenon
<1> QED BY <1>2, <1>3, Zenon

\* A piece of w is read as it was written, if the stream goes so far.
LEMMA PieceRead ==
  ASSUME NEW z \in Seq(Nat), NEW w \in Seq(Nat), Agree(z, w), NEW j \in Nat, NEW a \in Seq(Nat), Part(w, j, a),
         NEW r, Placed(r, z, j)
  PROVE  LET q == ReadFull(r, Len(a)) IN
         Placed(q, z, j + Len(a)) /\ (j + Len(a) <= Len(z) => q.last = a)
<1> DEFINE n == Len(a)
           q == ReadFull(r, n)
<1>1. n \in Nat /\ Len(z) \in Nat /\ Len(w) \in Nat
  OBVIOUS
<1>2. q \in Readers
  BY <1>1, ReadFullType DEF Placed
<1> DEFINE R == r.rest
<1>6. j + n <= Len(w) /\ \A i \in 1 .. n : w[j + i] = a[i]
  BY DEF Part
<1>3. CASE j + n <= Len(z)
  <2> DEFINE l == SubSeq(R, 0 + 1, n)
             t == SubSeq(R, n + 1, Len(R))
             u == SubSeq(z, j + n + 1, Len(z))
  <2>1. r.ok /\ R = SubSeq(z, j + 1, Len(z))
    BY <1>1, <1>3 DEF Placed
  <2> HIDE DEF n, R
  <2>2. R \in Seq(Nat) /\ Len(R) = Len(z) - j /\ \A i \in 1 .. Len(z) - j : R[i] = z[j + i]
    <3>1. j <= Len(z)
      BY <1>1, <1>3
    <3> QED BY <1>1, <2>1, <3>1, Stretch
  <2>3. n <= Len(R)
    BY <1>1, <1>3, <2>2
  <2>4. q = [ok |-> TRUE, last |-> SubSeq(R, 1, n), rest |-> t]
    BY <2>1, <2>3, ReadFullCases DEF R
  <2>5. l = SubSeq(R, 1, n)
    OBVIOUS
  <2>6. l = a
    <3>1. l \in Seq(Nat) /\ Len(l) = n /\ \A i \in 1 .. n : l[i] = R[i]
      <4>1. l \in Seq(Nat) /\ Len(l) = n - 0 /\ \A i \in 1 .. n - 0 : l[i] = R[0 + i]
        <5>1. 0 <= n /\ 0 \in Nat
          BY <1>1
        <5> QED BY <1>1, <2>2, <2>3, <5>1, Stretch
      <4> HIDE DEF l
      <4> QED BY <1>1, <4>1
    <3> HIDE DEF l
    <3>2. ASSUME NEW i \in 1 .. n PROVE l[i] = a[i]
      <4>1. w[j + i] = a[i]
        BY <1>6
      <4>2. j + i \in 1 .. Len(w) /\ j + i <= Len(z) /\ i \in 1 .. Len(z) - j
        BY <1>1, <1>3, <1>6
      <4>3. z[j + i] = w[j + i]
        BY <4>2 DEF Agree
      <4> QED BY <2>2, <3>1, <4>1, <4>2, <4>3
    <3>3. Len(a) = n
      BY DEF n
    <3> QED BY <3>1, <3>2, <3>3, SameEntries
  <2>7. t = u
    <3>1. u \in Seq(Nat) /\ Len(u) = Len(z) - (j + n) /\ \A i \in 1 .. Len(z) - (j + n) : u[i] = z[j + n + i]
      <4>1. j + n \in Nat
        BY <1>1
      <4> QED BY <1>1, <1>3, <4>1, Stretch
    <3>2. t \in Seq(Nat) /\ Len(t) = Len(R) - n /\ \A i \in 1 .. Len(R) - n : t[i] = R[n + i]
      <4> DEFINE k == Len(R)
      <4>1. k \in Nat /\ k <= Len(R) /\ n <= k
        BY <2>2, <2>3
      <4> HIDE DEF k
      <4>2. LET v == SubSeq(R, n + 1, k) IN v \in Seq(Nat) /\ Len(v) = k - n /\ \A i \in 1 .. k - n : v[i] = R[n + i]
        <5>1. R \in Seq(Nat) /\ n \in Nat
          BY <1>1, <2>2
        <5> QED BY <4>1, <5>1, Stretch, SMTT(30)
      <4> QED BY <4>2 DEF k
    <3> HIDE DEF t, u
    <3>3. Len(t) = Len(u)
      BY <1>1, <2>2, <3>1, <3>2
    <3>4. ASSUME NEW i \in 1 .. Len(t) PROVE t[i] = u[i]
      <4>1. n + i \in 1 .. Len(z) - j /\ j + (n + i) = j + n + i /\ i \in 1 .. Len(R) - n /\ i \in 1 .. Len(z) - (j + n)
        BY <1>1, <1>3, <2>2, <3>2
      <4>2. t[i] = R[n + i] /\ R[n + i] = z[j + (n + i)] /\ u[i] = z[j + n + i]
        BY <2>2, <3>1, <3>2, <4>1
      <4> QED BY <4>1, <4>2
    <3> QED BY <3>1, <3>2, <3>3, <3>4, SameEntries
  <2> HIDE DEF q, l, t
  <2>8. ~(j + n > Len(z))
    BY <1>1, <1>3
  <2>9. q.ok
    BY <2>4, Zenon
  <2>10. q.last = a
    BY <2>4, <2>5, <2>6
  <2>11. q.rest = u
    BY <2>4, <2>7
  <2>12. Placed(q, z, j + n)
    BY <1>2, <2>8, <2>9, <2>11, Zenon DEF Placed
  <2> QED BY <2>10, <2>12 DEF n, q
<1>4. CASE j + n > Len(z)
  <2>1. ~(r.ok /\ n <= Len(R))
    <3>1. CASE j <= Len(z)
      <4>1. R = SubSeq(z, j + 1, Len(z))
        BY <3>1 DEF Placed
      <4>2. Len(R) = Len(z) - j
        BY <1>1, <3>1, <4>1, Stretch
      <4> HIDE DEF R, n
      <4> QED BY <1>1, <1>4, <4>2
    <3>2. CASE j > Len(z)
      BY <3>2 DEF Placed
    <3> QED BY <1>1, <3>1, <3>2
  <2>2. q = [ok |-> FALSE, last |-> <<>>, rest |-> <<>>]
    BY <2>1, ReadFullCases
  <2> HIDE DEF q, n
  <2>3. ~q.ok
    BY <2>2, Zenon
  <2>5. q.last = <<>>
    BY <2>2, Zenon
  <2>4. ~(j + n <= Len(z))
    BY <1>1, <1>4
  <2>6. Placed(q, z, j + n)
    BY <1>2, <2>3, <2>4, <2>5, Zenon DEF Placed
  <2> QED BY <2>4, <2>6 DEF n, q
<1>5. j + n <= Len(z) \/ j + n > Len(z)
  BY <1>1
<1> QED BY <1>3, <1>4, <1>5, Zenon

\* A field of one number, and what Number makes of it.
LEMMA NumberRead ==
  ASSUME NEW z \in Seq(Nat), NEW w \in Seq(Nat), Agree(z, w), NEW j \in Nat, NEW k \in Nat, Part(w, j, <<k>>),
         NEW r, Placed(r, z, j)
  PROVE  LET q == ReadFull(r, 1) IN
         Placed(q, z, j + 1) /\ Number(q) = IF j + 1 <= Len(z) THEN k ELSE 0
<1> DEFINE a == <<k>>
           q == ReadFull(r, 1)
<1>1. a \in Seq(Nat) /\ Len(a) = 1 /\ a[1] = k /\ Part(w, j, a) /\ a # <<>>
  OBVIOUS
<1> HIDE DEF a
<1>2. Placed(q, z, j + 1) /\ (j + 1 <= Len(z) => q.last = a)
  BY <1>1, PieceRead, Zenon
<1> HIDE DEF q
<1>3. CASE j + 1 <= Len(z)
  <2>1. q.last = a
    BY <1>2, <1>3
  <2>2. Number(q) = k
    BY <1>1, <2>1, Zenon DEF Number
  <2> QED BY <1>2, <1>3, <2>2 DEF q
<1>4. CASE ~(j + 1 <= Len(z))
  <2>1. j + 1 > Len(z)
    BY <1>4
  <2>2. q.last = <<>>
    BY <1>2, <2>1, Zenon DEF Placed
  <2>3. Number(q) = 0
    BY <2>2, Zenon DEF Number
  <2> QED BY <1>2, <1>4, <2>3 DEF q
<1> QED BY <1>2, <1>3, <1>4 DEF q

\* A string with its length before it is read as it was written.
LEMMA StringRead ==
  ASSUME NEW z \in Seq(Nat), NEW w \in Seq(Nat), Agree(z, w), NEW j \in Nat, NEW a \in Seq(Nat), NEW max \in Nat,
         Len(a) <= max, Part(w, j, WriteLengthPrefixedString(a)), NEW r, Placed(r, z, j)
  PROVE  LET q == ReadLengthPrefixedString(r, max) IN
         Placed(q, z, j + 1 + Len(a)) /\ (j + 1 + Len(a) <= Len(z) => q.last = a)
<1> DEFINE l == ReadFull(r, 1)
           q == ReadLengthPrefixedString(r, max)
<1>0. Len(a) \in Nat /\ Len(z) \in Nat /\ j + 1 \in Nat
  OBVIOUS
<1>1. Part(w, j, <<Len(a)>>) /\ Part(w, j + 1, a)
  <2> DEFINE b == <<Len(a)>>
  <2>1. b \in Seq(Nat) /\ Len(b) = 1
    BY <1>0
  <2>2. Part(w, j, b \o a)
    BY DEF WriteLengthPrefixedString
  <2> HIDE DEF b
  <2>3. Part(w, j, b) /\ Part(w, j + Len(b), a)
    BY <2>1, <2>2, PartSplit
  <2> QED BY <2>1, <2>3 DEF b
<1>2. Placed(l, z, j + 1) /\ Number(l) = IF j + 1 <= Len(z) THEN Len(a) ELSE 0
  BY <1>0, <1>1, NumberRead
<1> HIDE DEF l
<1>3. CASE j + 1 <= Len(z)
  <2>1. l.ok /\ Number(l) = Len(a)
    BY <1>2, <1>3 DEF Placed
  <2>2. q = ReadFull(l, Len(a))
    BY <2>1 DEF ReadLengthPrefixedString, l
  <2> QED BY <1>0, <1>1, <1>2, <2>2, PieceRead
<1>4. CASE ~(j + 1 <= Len(z))
  <2>1. l \in Readers /\ ~l.ok /\ l.last = <<>>
    BY <1>0, <1>2, <1>4 DEF Placed
  <2>2. q = [l EXCEPT !.ok = FALSE]
    BY <2>1, Zenon DEF ReadLengthPrefixedString, l
  <2>3. q.last = l.last /\ q.rest = l.rest /\ q \in Readers
    BY <2>1, <2>2 DEF Readers
  <2>4. ~q.ok
    BY <2>1, <2>2, Zenon DEF Readers
  <2>5. j + 1 + Len(a) > Len(z) /\ ~(j + 1 + Len(a) <= Len(z))
    BY <1>0, <1>4
  <2> HIDE DEF q
  <2>6. Placed(q, z, j + 1 + Len(a))
    BY <2>1, <2>3, <2>4, <2>5, Zenon DEF Placed
  <2> QED BY <2>5, <2>6 DEF q
<1> QED BY <1>3, <1>4, Zenon

\* Pieces one behind the other.
LEMMA PartJoin ==
  ASSUME NEW w \in Seq(Nat), NEW j \in Nat, NEW a \in Seq(Nat), NEW b \in Seq(Nat),
         Part(w, j, a), Part(w, j + Len(a), b)
  PROVE  Part(w, j, a \o b)
<1> DEFINE c == a \o b
<1>1. Len(c) = Len(a) + Len(b) /\ (\A i \in 1 .. Len(a) : c[i] = a[i])
      /\ (\A i \in 1 .. Len(b) : c[Len(a) + i] = b[i])
  BY Behind
<1>2. Len(a) \in Nat /\ Len(b) \in Nat /\ Len(w) \in Nat
  OBVIOUS
<1>3. /\ j + Len(a) <= Len(w) /\ j + Len(a) + Len(b) <= Len(w)
      /\ (\A i \in 1 .. Len(a) : w[j + i] = a[i]) /\ (\A i \in 1 .. Len(b) : w[j + Len(a) + i] = b[i])
  BY DEF Part
<1> HIDE DEF c
<1>4. j + Len(c) <= Len(w)
  BY <1>1, <1>2, <1>3
<1>5. ASSUME NEW i \in 1 .. Len(c) PROVE w[j + i] = c[i]
  <2>1. CASE i <= Len(a)
    <3>1. i \in 1 .. Len(a)
      BY <1>1, <1>2, <2>1
    <3> QED BY <1>1, <1>3, <3>1
  <2>2. CASE ~(i <= Len(a))
    <3>1. i - Len(a) \in 1 .. Len(b) /\ Len(a) + (i - Len(a)) = i /\ j + Len(a) + (i - Len(a)) = j + i
      BY <1>1, <1>2, <2>2
    <3>2. w[j + Len(a) + (i - Len(a))] = b[i - Len(a)] /\ c[Len(a) + (i - Len(a))] = b[i - Len(a)]
      BY <1>1, <1>3, <3>1
    <3> QED BY <3>1, <3>2
  <2> QED BY <2>1, <2>2
<1> QED BY <1>4, <1>5 DEF Part, c

\* Three fields of one number.
LEMMA PartTriple ==
  ASSUME NEW w \in Seq(Nat), NEW j \in Nat, NEW a \in Nat, NEW b \in Nat, NEW c \in Nat, Part(w, j, <<a, b, c>>)
  PROVE  Part(w, j, <<a>>) /\ Part(w, j + 1, <<b>>) /\ Part(w, j + 2, <<c>>)
<1>0. Len(w) \in Nat
  OBVIOUS
<1>1. j + 3 <= Len(w) /\ w[j + 1] = a /\ w[j + 2] = b /\ w[j + 3] = c
  BY DEF Part
<1>2. ASSUME NEW k \in Nat, NEW v \in Nat, k + 1 <= Len(w), w[k + 1] = v PROVE Part(w, k, <<v>>)
  <2> DEFINE x == <<v>>
  <2>1. Len(x) = 1 /\ x[1] = v
    OBVIOUS
  <2> HIDE DEF x
  <2>2. ASSUME NEW i \in 1 .. Len(x) PROVE w[k + i] = x[i]
    <3>1. i = 1
      BY <2>1
    <3> QED BY <1>2, <2>1, <3>1
  <2>3. Part(w, k, x)
    BY <1>2, <2>1, <2>2 DEF Part
  <2> QED BY <2>3 DEF x
<1>3. Part(w, j, <<a>>)
  BY <1>0, <1>1, <1>2
<1>4. Part(w, j + 1, <<b>>)
  <2>1. j + 1 \in Nat /\ (j + 1) + 1 <= Len(w) /\ (j + 1) + 1 = j + 2
    BY <1>0, <1>1
  <2> QED BY <1>1, <1>2, <2>1
<1>5. Part(w, j + 2, <<c>>)
  <2>1. j + 2 \in Nat /\ (j + 2) + 1 <= Len(w) /\ (j + 2) + 1 = j + 3
    BY <1>0, <1>1
  <2> QED BY <1>1, <1>2, <2>1
<1> QED BY <1>3, <1>4, <1>5

\* An id comes back from its field, whether it fills it or not.
LEMMA PadTrim ==
  ASSUME NEW id \in Seq(Nat), Len(id) <= IDSize, \A i \in DOMAIN id : id[i] # 0
  PROVE  Pad(id) \in Seq(Nat) /\ Len(Pad(id)) = IDSize /\ TrimNullPadding(Pad(id)) = id
<1> DEFINE n == Len(id)
           b == Pad(id)
           bytes == {i \in DOMAIN b : b[i] # 0}
<1>0. IDSize \in Nat /\ n \in Nat /\ n <= IDSize
  BY EventWireAssumption
<1>1. \A i \in 1 .. n : id[i] \in Nat /\ id[i] # 0
  OBVIOUS
<1> HIDE DEF n
<1>2. b = [i \in 1 .. IDSize |-> IF i <= n THEN id[i] ELSE 0]
  BY DEF Pad, n
<1>3. \A i \in 1 .. IDSize : b[i] = (IF i <= n THEN id[i] ELSE 0) /\ b[i] \in Nat
  BY <1>0, <1>1, <1>2
<1>4. b \in Seq(Nat) /\ Len(b) = IDSize /\ DOMAIN b = 1 .. IDSize
  BY <1>0, <1>2, <1>3
<1> HIDE DEF b
<1>5. bytes = 1 .. n
  BY <1>0, <1>1, <1>3, <1>4
<1> HIDE DEF bytes
<1>6. SubSeq(b, 1, n) = id
  <2> DEFINE s == SubSeq(b, 0 + 1, n)
  <2>1. s \in Seq(Nat) /\ Len(s) = n - 0 /\ \A i \in 1 .. n - 0 : s[i] = b[0 + i]
    <3>1. 0 \in Nat /\ 0 <= n /\ n <= Len(b)
      BY <1>0, <1>4
    <3> QED BY <1>0, <1>4, <3>1, Stretch
  <2>2. s = SubSeq(b, 1, n)
    OBVIOUS
  <2> HIDE DEF s
  <2>3. Len(s) = Len(id) /\ \A i \in 1 .. Len(s) : s[i] = id[i]
    BY <1>0, <1>3, <2>1 DEF n
  <2>4. s = id
    BY <2>1, <2>3, SameEntries
  <2> QED BY <2>2, <2>4
<1>7. TrimNullPadding(b) = id
  <2>1. CASE n = 0
    <3>1. bytes = {}
      BY <1>5, <2>1
    <3> QED BY <1>6, <2>1, <3>1 DEF TrimNullPadding, bytes
  <2>2. CASE n # 0
    <3> DEFINE m == CHOOSE i \in bytes : \A j \in bytes : j <= i
    <3>1. n \in bytes /\ \A j \in bytes : j <= n
      BY <1>0, <1>5, <2>2
    <3>2. m \in bytes /\ \A j \in bytes : j <= m
      BY <3>1
    <3>3. m = n
      <4> HIDE DEF m
      <4> QED BY <1>0, <1>5, <3>1, <3>2
    <3>4. bytes # {}
      BY <3>1
    <3>5. TrimNullPadding(b) = SubSeq(b, 1, m)
      BY <3>4 DEF TrimNullPadding, bytes
    <3> QED BY <1>6, <3>3, <3>5
  <2> QED BY <2>1, <2>2
<1> QED BY <1>4, <1>7 DEF b

-----------------------------------------------------------------------------
(* The metadata                                                            *)

Entry == [key : Seq(Nat), value : Seq(Nat)]

\* Numbers, strings and entries that were read are such.
LEMMA NumberType == ASSUME NEW r \in Readers PROVE Number(r) \in Nat
<1>1. r.last \in Seq(Nat)
  BY DEF Readers
<1> DEFINE l == r.last
<1> HIDE DEF l
<1>2. l # <<>> => l[1] \in Nat
  BY <1>1 DEF l
<1> QED BY <1>2 DEF Number, l

LEMMA StringType ==
  ASSUME NEW r \in Readers, NEW max \in Nat
  PROVE  ReadLengthPrefixedString(r, max) \in Readers
<1> DEFINE l == ReadFull(r, 1)
<1>1. l \in Readers
  BY ReadFullType
<1> HIDE DEF l
<1>2. ReadFull(l, Number(l)) \in Readers
  BY <1>1, NumberType, ReadFullType
<1>3. [l EXCEPT !.ok = FALSE] \in Readers
  BY <1>1, Zenon DEF Readers
<1> QED BY <1>2, <1>3, Zenon DEF ReadLengthPrefixedString, l

LEMMA ReadEntryType ==
  ASSUME NEW a \in [reader : Readers, metadata : Seq(Entry)]
  PROVE  ReadEntry(a) \in [reader : Readers, metadata : Seq(Entry)]
<1> DEFINE k == ReadLengthPrefixedString(a.reader, MaxKey)
           v == ReadLengthPrefixedString(k, MaxValue)
<1>0. MaxKey \in Nat /\ MaxValue \in Nat
  BY EventWireAssumption
<1>1. k \in Readers
  BY <1>0, StringType
<1> HIDE DEF k
<1>2. v \in Readers
  BY <1>0, <1>1, StringType
<1> HIDE DEF v
<1>3. [key |-> k.last, value |-> v.last] \in Entry
  BY <1>1, <1>2 DEF Entry, Readers
<1>4. Append(a.metadata, [key |-> k.last, value |-> v.last]) \in Seq(Entry)
  BY <1>3
<1> QED BY <1>2, <1>4, Zenon DEF ReadEntry, k, v

\* One entry of the metadata is read as it was written.
LEMMA EntryRead ==
  ASSUME NEW z \in Seq(Nat), NEW w \in Seq(Nat), Agree(z, w), NEW j \in Nat, NEW m \in Entry,
         Len(m.key) <= MaxKey, Len(m.value) <= MaxValue, Part(w, j, WriteEntry(m)),
         NEW a, Placed(a.reader, z, j)
  PROVE  /\ WriteEntry(m) \in Seq(Nat)
         /\ Placed(ReadEntry(a).reader, z, j + Len(WriteEntry(m)))
         /\ j + Len(WriteEntry(m)) <= Len(z) => ReadEntry(a).metadata = Append(a.metadata, m)
<1> DEFINE k == ReadLengthPrefixedString(a.reader, MaxKey)
           v == ReadLengthPrefixedString(k, MaxValue)
           wk == WriteLengthPrefixedString(m.key)
           wv == WriteLengthPrefixedString(m.value)
           j1 == j + 1 + Len(m.key)
           j2 == j1 + 1 + Len(m.value)
<1>0. /\ MaxKey \in Nat /\ MaxValue \in Nat /\ m.key \in Seq(Nat) /\ m.value \in Seq(Nat)
      /\ Len(m.key) \in Nat /\ Len(m.value) \in Nat /\ Len(z) \in Nat
      /\ m = [key |-> m.key, value |-> m.value]
  BY EventWireAssumption DEF Entry
<1>1. ASSUME NEW s \in Seq(Nat)
      PROVE  WriteLengthPrefixedString(s) \in Seq(Nat) /\ Len(WriteLengthPrefixedString(s)) = 1 + Len(s)
  BY DEF WriteLengthPrefixedString
<1>2. wk \in Seq(Nat) /\ Len(wk) = 1 + Len(m.key) /\ wv \in Seq(Nat) /\ Len(wv) = 1 + Len(m.value)
  BY <1>0, <1>1
<1> HIDE DEF wk, wv
<1>3. WriteEntry(m) = wk \o wv
  BY DEF WriteEntry, wk, wv
<1>4. WriteEntry(m) \in Seq(Nat) /\ Len(WriteEntry(m)) = Len(wk) + Len(wv)
  <2>1. wk \o wv \in Seq(Nat) /\ Len(wk \o wv) = Len(wk) + Len(wv)
    BY <1>2, Behind
  <2> QED BY <1>3, <2>1
<1>5. Part(w, j, wk) /\ Part(w, j + Len(wk), wv)
  BY <1>2, <1>3, PartSplit
<1>6. j1 \in Nat /\ j2 \in Nat /\ j + Len(wk) = j1 /\ j + Len(WriteEntry(m)) = j2 /\ (j2 <= Len(z) => j1 <= Len(z))
  <2> DEFINE lk == Len(m.key)
             lv == Len(m.value)
             le == Len(WriteEntry(m))
             lz == Len(z)
  <2>1. lk \in Nat /\ lv \in Nat /\ lz \in Nat /\ Len(wk) = 1 + lk /\ le = (1 + lk) + (1 + lv)
    BY <1>0, <1>2, <1>4
  <2> HIDE DEF lk, lv, lz, le
  <2>2. /\ j + 1 + lk \in Nat /\ j + 1 + lk + 1 + lv \in Nat /\ j + Len(wk) = j + 1 + lk
        /\ j + le = j + 1 + lk + 1 + lv /\ (j + 1 + lk + 1 + lv <= lz => j + 1 + lk <= lz)
    BY <2>1
  <2> QED BY <2>2 DEF lk, lv, lz, le
<1>7. Placed(k, z, j1) /\ (j1 <= Len(z) => k.last = m.key)
  BY <1>0, <1>5, StringRead DEF wk
<1> HIDE DEF j1, k
<1>8. Placed(v, z, j2) /\ (j2 <= Len(z) => v.last = m.value)
  <2> DEFINE x == m.value
  <2>1. x \in Seq(Nat) /\ Len(x) <= MaxValue /\ MaxValue \in Nat /\ j1 \in Nat
    BY <1>0, <1>6
  <2>2. Part(w, j1, WriteLengthPrefixedString(x)) /\ Placed(k, z, j1)
    BY <1>5, <1>6, <1>7 DEF wv
  <2> HIDE DEF x
  <2>3. /\ Placed(ReadLengthPrefixedString(k, MaxValue), z, j1 + 1 + Len(x))
        /\ j1 + 1 + Len(x) <= Len(z) => ReadLengthPrefixedString(k, MaxValue).last = x
    BY <2>1, <2>2, StringRead
  <2> QED BY <2>3 DEF x
<1> HIDE DEF j2, v
<1>9. ReadEntry(a) = [reader |-> v, metadata |-> Append(a.metadata, [key |-> k.last, value |-> v.last])]
  BY DEF ReadEntry, k, v
<1>10. ReadEntry(a).reader = v /\ ReadEntry(a).metadata = Append(a.metadata, [key |-> k.last, value |-> v.last])
  BY <1>9
<1>11. ASSUME j2 <= Len(z) PROVE ReadEntry(a).metadata = Append(a.metadata, m)
  <2>1. k.last = m.key /\ v.last = m.value
    BY <1>6, <1>7, <1>8, <1>11
  <2> QED BY <1>0, <1>10, <2>1
<1> QED BY <1>4, <1>6, <1>8, <1>10, <1>11

\* The loop over the entries has a result.
EntriesOf(en, c, N) ==
  en = [n \in 0 .. N |-> IF n = 0 THEN [reader |-> c, metadata |-> <<>>] ELSE ReadEntry(en[n - 1])]

LEMMA EntriesExist ==
  ASSUME NEW c \in Readers, NEW N \in Nat
  PROVE  \E en : EntriesOf(en, c, N)
<1> DEFINE T == [reader : Readers, metadata : Seq(Entry)]
           b == [reader |-> c, metadata |-> <<>>]
           G == [n \in 1 .. N |-> [x \in T |-> ReadEntry(x)]]
<1>1. b \in T
  <2>1. <<>> \in Seq(Entry)
    OBVIOUS
  <2> QED BY <2>1, Zenon
<1>2. \A x \in T : ReadEntry(x) \in T
  BY ReadEntryType
<1> HIDE DEF T, b
<1>3. G \in [1 .. N -> [T -> T]]
  BY <1>2
<1>4. \A n \in 1 .. N, x \in T : G[n][x] = ReadEntry(x)
  OBVIOUS
<1> HIDE DEF G
<1>5. PICK f \in [0 .. N -> T] : Iterates(f, N, b, G)
  BY <1>1, <1>3, IterationExists
<1>6. f[0] = b /\ \A n \in 1 .. N : f[n] = G[n][f[n - 1]]
  BY <1>5 DEF Iterates
<1>7. ASSUME NEW n \in 0 .. N PROVE f[n] = IF n = 0 THEN b ELSE ReadEntry(f[n - 1])
  <2>1. CASE n = 0
    BY <1>6, <2>1
  <2>2. CASE n # 0
    <3>1. n \in 1 .. N /\ n - 1 \in 0 .. N
      BY <2>2
    <3>2. f[n - 1] \in T
      BY <1>5, <3>1
    <3> QED BY <1>4, <1>6, <2>2, <3>1, <3>2
  <2> QED BY <2>1, <2>2
<1>8. f = [n \in 0 .. N |-> IF n = 0 THEN b ELSE ReadEntry(f[n - 1])]
  BY <1>5, <1>7
<1> QED BY <1>8 DEF EntriesOf, b

\* The start of a sequence that is one longer.
LEMMA StartAppend ==
  ASSUME NEW S, NEW s \in Seq(S), NEW n \in 1 .. Len(s)
  PROVE  SubSeq(s, 1, n) = Append(SubSeq(s, 1, n - 1), s[n])
<1> DEFINE a == SubSeq(s, 1, n)
           c == SubSeq(s, 1, n - 1)
           d == Append(c, s[n])
<1>0. s[n] \in S /\ n \in Nat /\ n - 1 \in Nat /\ Len(s) \in Nat
  OBVIOUS
<1>1. a \in Seq(S) /\ Len(a) = n /\ \A i \in 1 .. n : a[i] = s[i]
  BY <1>0
<1>2. c \in Seq(S) /\ Len(c) = n - 1 /\ \A i \in 1 .. n - 1 : c[i] = s[i]
  BY <1>0
<1> HIDE DEF a, c
<1>3. d \in Seq(S) /\ Len(d) = n /\ d[n] = s[n] /\ \A i \in 1 .. n - 1 : d[i] = c[i]
  BY <1>0, <1>2
<1> HIDE DEF d
<1>4. ASSUME NEW i \in 1 .. Len(a) PROVE a[i] = d[i]
  <2>1. i = n \/ i \in 1 .. n - 1
    BY <1>0, <1>1
  <2> QED BY <1>1, <1>2, <1>3, <2>1
<1>5. a = d
  BY <1>1, <1>3, <1>4, SameEntries
<1> QED BY <1>5 DEF a, c, d

\* The pieces the metadata is made of: each is where the ones before it end.
PieceAt(w, B, fl, we, n) == Part(w, B + Len(fl[n - 1]), we[n]) /\ Len(fl[n]) = Len(fl[n - 1]) + Len(we[n])

LEMMA EntryPieces ==
  ASSUME NEW w \in Seq(Nat), NEW B \in Nat, NEW N \in Nat, NEW we \in [1 .. N -> Seq(Nat)],
         NEW fl \in [0 .. N -> Seq(Nat)], Flattens(fl, we, N), Part(w, B, fl[N])
  PROVE  \A n \in 1 .. N : PieceAt(w, B, fl, we, n)
<1> DEFINE S == {k \in 0 .. N : ~Part(w, B, fl[N - k])}
<1>0. ASSUME NEW n \in 1 .. N
      PROVE  /\ fl[n - 1] \in Seq(Nat) /\ we[n] \in Seq(Nat) /\ Len(fl[n]) = Len(fl[n - 1]) + Len(we[n])
             /\ Part(w, B, fl[n]) => Part(w, B, fl[n - 1]) /\ Part(w, B + Len(fl[n - 1]), we[n])
  <2> DEFINE x == fl[n - 1]  y == we[n]
  <2>1. n - 1 \in 0 .. N /\ n \in 0 .. N
    OBVIOUS
  <2>2. x \in Seq(Nat) /\ y \in Seq(Nat) /\ fl[n] = x \o y
    BY <2>1 DEF Flattens
  <2> HIDE DEF x, y
  <2>3. Len(x \o y) = Len(x) + Len(y)
    BY <2>2, Behind
  <2>4. Part(w, B, x \o y) => Part(w, B, x) /\ Part(w, B + Len(x), y)
    BY <2>2, PartSplit
  <2> QED BY <2>2, <2>3, <2>4 DEF x, y
<1>1. S = {}
  <2> SUFFICES ASSUME S # {} PROVE FALSE
    OBVIOUS
  <2>1. S \in SUBSET Nat
    OBVIOUS
  <2>2. PICK m \in S : \A y \in S : m <= y
    <3> HIDE DEF S
    <3> QED BY <2>1, LeastPlace
  <2>3. m \in 0 .. N /\ ~Part(w, B, fl[N - m])
    OBVIOUS
  <2>4. m # 0
    BY <2>3
  <2>5. m - 1 \in 0 .. N /\ ~(m <= m - 1) /\ N - (m - 1) \in 1 .. N /\ (N - (m - 1)) - 1 = N - m
    BY <2>3, <2>4
  <2>6. Part(w, B, fl[N - (m - 1)])
    BY <2>2, <2>5
  <2>7. Part(w, B, fl[(N - (m - 1)) - 1])
    BY <1>0, <2>5, <2>6
  <2> QED BY <2>3, <2>5, <2>7
<1>2. ASSUME NEW n \in 1 .. N PROVE Part(w, B, fl[n])
  <2>1. N - n \in 0 .. N /\ N - (N - n) = n
    OBVIOUS
  <2> QED BY <1>1, <2>1
<1> QED BY <1>0, <1>2 DEF PieceAt

\* The metadata is read as it was written.
LEMMA MetadataRead ==
  ASSUME NEW z \in Seq(Nat), NEW w \in Seq(Nat), Agree(z, w), NEW B \in Nat, NEW md \in Seq(Entry),
         \A i \in DOMAIN md : Len(md[i].key) <= MaxKey /\ Len(md[i].value) <= MaxValue,
         Part(w, B, WriteMetadata(md)), NEW c, Placed(c, z, B), NEW en, EntriesOf(en, c, Len(md))
  PROVE  LET b == en[Len(md)] IN
         /\ WriteMetadata(md) \in Seq(Nat)
         /\ Placed(b.reader, z, B + Len(WriteMetadata(md)))
         /\ B + Len(WriteMetadata(md)) <= Len(z) => b.metadata = md
<1> DEFINE N == Len(md)
           we == [i \in 1 .. N |-> WriteEntry(md[i])]
<1>0. N \in Nat /\ Len(z) \in Nat /\ \A i \in 1 .. N : md[i] \in Entry /\ Len(md[i].key) <= MaxKey /\ Len(md[i].value) <= MaxValue
  OBVIOUS
<1>1. \A i \in 1 .. N : WriteEntry(md[i]) \in Seq(Nat)
  <2>1. ASSUME NEW s \in Seq(Nat) PROVE WriteLengthPrefixedString(s) \in Seq(Nat)
    BY DEF WriteLengthPrefixedString
  <2>2. ASSUME NEW m \in Entry PROVE WriteEntry(m) \in Seq(Nat)
    <3>1. m.key \in Seq(Nat) /\ m.value \in Seq(Nat)
      BY DEF Entry
    <3> QED BY <2>1, <3>1, Behind DEF WriteEntry
  <2> QED BY <1>0, <2>2
<1>2. we \in [1 .. N -> Seq(Nat)] /\ we \in Seq(Seq(Nat)) /\ Len(we) = N /\ \A i \in 1 .. N : we[i] = WriteEntry(md[i])
  BY <1>0, <1>1
<1>3. WriteMetadata(md) = FlattenSeq(we)
  BY DEF WriteMetadata
<1> HIDE DEF we
<1>4. PICK fl \in [0 .. N -> Seq(Nat)] : Flattens(fl, we, N) /\ FlattenSeq(we) = fl[N]
  <2> HIDE DEF N
  <2> QED BY <1>2, FlattenFacts
<1>5. en = [n \in 0 .. N |-> IF n = 0 THEN [reader |-> c, metadata |-> <<>>] ELSE ReadEntry(en[n - 1])]
  BY DEF EntriesOf
<1> HIDE DEF N
<1>6. Part(w, B, fl[N])
  BY <1>3, <1>4
<1>7. \A n \in 1 .. N : Part(w, B + Len(fl[n - 1]), we[n]) /\ Len(fl[n]) = Len(fl[n - 1]) + Len(we[n])
  <2>1. N \in Nat
    BY <1>0
  <2>2. \A n \in 1 .. N : PieceAt(w, B, fl, we, n)
    BY <1>2, <1>4, <1>6, <2>1, EntryPieces
  <2> QED BY <2>2 DEF PieceAt
<1> DEFINE Good(n) == /\ Placed(en[n].reader, z, B + Len(fl[n]))
                      /\ B + Len(fl[n]) <= Len(z) => en[n].metadata = SubSeq(md, 1, n)
           S == {n \in 0 .. N : ~Good(n)}
<1>8. S = {}
  <2> SUFFICES ASSUME S # {} PROVE FALSE
    OBVIOUS
  <2>1. S \in SUBSET Nat
    OBVIOUS
  <2>2. PICK m \in S : \A y \in S : m <= y
    <3> HIDE DEF S
    <3> QED BY <2>1, LeastPlace
  <2>3. m \in 0 .. N /\ ~Good(m)
    OBVIOUS
  <2> HIDE DEF Good
  <2>4. m # 0
    <3>1. en[0] = [reader |-> c, metadata |-> <<>>]
      BY <1>0, <1>5
    <3>2. en[0].reader = c /\ en[0].metadata = <<>>
      BY <3>1
    <3>3. Len(fl[0]) = 0 /\ B + 0 = B
      BY <1>4 DEF Flattens
    <3>4. SubSeq(md, 1, 0) = <<>>
      OBVIOUS
    <3>5. Good(0)
      BY <3>2, <3>3, <3>4 DEF Good
    <3> QED BY <2>3, <3>5
  <2>5. m - 1 \in 0 .. N /\ ~(m <= m - 1) /\ m \in 1 .. N
    BY <1>0, <2>3, <2>4
  <2>6. Good(m - 1)
    BY <2>2, <2>5
  <2> DEFINE j == B + Len(fl[m - 1])
             e == md[m]
  <2>7. en[m] = ReadEntry(en[m - 1])
    BY <1>5, <2>3, <2>4
  <2>8. j \in Nat /\ e \in Entry /\ Len(e.key) <= MaxKey /\ Len(e.value) <= MaxValue /\ Part(w, j, WriteEntry(e))
    <3>1. fl[m - 1] \in Seq(Nat)
      BY <1>4, <2>5
    <3>2. j \in Nat
      BY <3>1
    <3>3. Part(w, j, WriteEntry(e))
      BY <1>2, <1>7, <2>5
    <3> QED BY <1>0, <2>5, <3>2, <3>3
  <2>9. B + Len(fl[m]) = j + Len(WriteEntry(e)) /\ (B + Len(fl[m]) <= Len(z) => j <= Len(z))
    <3> DEFINE x == Len(fl[m - 1])  y == Len(WriteEntry(e))
    <3>1. fl[m - 1] \in Seq(Nat) /\ WriteEntry(e) \in Seq(Nat)
      BY <1>1, <1>4, <2>5
    <3>2. x \in Nat /\ y \in Nat
      BY <3>1
    <3>3. Len(fl[m]) = x + y
      BY <1>2, <1>7, <2>5
    <3> HIDE DEF x, y
    <3>4. B + (x + y) = (B + x) + y /\ (B + (x + y) <= Len(z) => B + x <= Len(z))
      BY <1>0, <3>2
    <3> QED BY <3>3, <3>4 DEF x, y
  <2>10. Placed(en[m - 1].reader, z, j) /\ (j <= Len(z) => en[m - 1].metadata = SubSeq(md, 1, m - 1))
    BY <2>6 DEF Good
  <2> HIDE DEF j, e
  <2>11. /\ Placed(ReadEntry(en[m - 1]).reader, z, j + Len(WriteEntry(e)))
         /\ j + Len(WriteEntry(e)) <= Len(z) => ReadEntry(en[m - 1]).metadata = Append(en[m - 1].metadata, e)
    BY <2>8, <2>10, EntryRead
  <2>12. SubSeq(md, 1, m) = Append(SubSeq(md, 1, m - 1), e)
    BY <2>5, StartAppend DEF e, N
  <2>13. Good(m)
    BY <2>7, <2>9, <2>10, <2>11, <2>12 DEF Good
  <2> QED BY <2>3, <2>13
<1>9. Good(N)
  <2> HIDE DEF Good
  <2>1. N \in 0 .. N
    BY <1>0
  <2> QED BY <1>8, <2>1
<1>10. SubSeq(md, 1, N) = md
  BY DEF N
<1>11. fl[N] \in Seq(Nat)
  BY <1>0, <1>4
<1> QED BY <1>3, <1>4, <1>9, <1>10, <1>11 DEF N

-----------------------------------------------------------------------------
(* An event                                                                *)

\* What an event that can be sent is made of.
LEMMA EventFacts ==
  ASSUME NEW e \in WireEvents
  PROVE  /\ e.vm \in Seq(Nat) /\ Len(e.vm) <= IDSize /\ (\A i \in DOMAIN e.vm : e.vm[i] # 0)
         /\ e.session \in Seq(Nat) /\ Len(e.session) <= IDSize /\ (\A i \in DOMAIN e.session : e.session[i] # 0)
         /\ e.time \in Nat /\ e.type \in Nat /\ e.payload \in Seq(Nat) /\ Len(e.payload) <= MaxPayload
         /\ e.metadata \in Seq(Entry) /\ Len(e.metadata) <= MaxEntries
         /\ \A i \in DOMAIN e.metadata : Len(e.metadata[i].key) <= MaxKey /\ Len(e.metadata[i].value) <= MaxValue
         /\ WriteEvent(e)[1] <= MaxPayload + HeaderSize
         /\ e = [vm |-> e.vm, session |-> e.session, time |-> e.time, type |-> e.type, payload |-> e.payload,
                 metadata |-> e.metadata]
<1>1. e \in [vm : Seq(Nat), session : Seq(Nat), time : Nat, type : Nat, payload : Seq(Nat), metadata : Seq(Entry)]
  BY EventWireAssumption DEF WireEvents, Entry
<1>2. WithinLimits(e) /\ WriteEvent(e)[1] <= MaxPayload + HeaderSize
  BY DEF WireEvents
<1>3. /\ e.vm \in Seq(Nat) /\ e.session \in Seq(Nat) /\ e.time \in Nat /\ e.type \in Nat /\ e.payload \in Seq(Nat)
      /\ e.metadata \in Seq(Entry)
  BY <1>1
<1>4. e = [vm |-> e.vm, session |-> e.session, time |-> e.time, type |-> e.type, payload |-> e.payload,
           metadata |-> e.metadata]
  BY <1>1
<1>5. /\ Len(e.vm) <= IDSize /\ (\A i \in DOMAIN e.vm : e.vm[i] # 0)
      /\ Len(e.session) <= IDSize /\ (\A i \in DOMAIN e.session : e.session[i] # 0)
      /\ Len(e.payload) <= MaxPayload /\ Len(e.metadata) <= MaxEntries
      /\ \A i \in DOMAIN e.metadata : Len(e.metadata[i].key) <= MaxKey /\ Len(e.metadata[i].value) <= MaxValue
  BY <1>2, Zenon DEF WithinLimits
<1> QED BY <1>2, <1>3, <1>4, <1>5, Zenon

\* The metadata is written as numbers.
LEMMA MetadataType ==
  ASSUME NEW md \in Seq(Entry)
  PROVE  WriteMetadata(md) \in Seq(Nat)
<1> DEFINE N == Len(md)
           we == [i \in 1 .. N |-> WriteEntry(md[i])]
<1>0. N \in Nat /\ \A i \in 1 .. N : md[i] \in Entry
  OBVIOUS
<1>1. ASSUME NEW s \in Seq(Nat) PROVE WriteLengthPrefixedString(s) \in Seq(Nat)
  BY DEF WriteLengthPrefixedString
<1>2. ASSUME NEW m \in Entry PROVE WriteEntry(m) \in Seq(Nat)
  <2>1. m.key \in Seq(Nat) /\ m.value \in Seq(Nat)
    BY DEF Entry
  <2> QED BY <1>1, <2>1, Behind DEF WriteEntry
<1>3. we \in Seq(Seq(Nat)) /\ Len(we) = N
  BY <1>0, <1>2
<1>4. WriteMetadata(md) = FlattenSeq(we)
  BY DEF WriteMetadata
<1> HIDE DEF we, N
<1>5. PICK fl \in [0 .. N -> Seq(Nat)] : Flattens(fl, we, N) /\ FlattenSeq(we) = fl[N]
  BY <1>3, FlattenFacts
<1>6. N \in 0 .. N
  BY <1>0
<1> QED BY <1>4, <1>5, <1>6

\* Where the fields of an event are.
LEMMA EventPieces ==
  ASSUME NEW e \in WireEvents
  PROVE  LET w == WriteEvent(e)
             I == IDSize
             P == Len(e.payload)
             m == WriteMetadata(e.metadata) IN
         /\ w \in Seq(Nat) /\ Len(w) = I + I + P + 5 + Len(m) /\ m \in Seq(Nat)
         /\ Part(w, 0, <<w[1]>>) /\ w[1] = I + I + 3 + P + 1 + Len(m)
         /\ Part(w, 1, Pad(e.vm)) /\ Part(w, 1 + I, Pad(e.session))
         /\ Part(w, 1 + I + I, <<e.time>>) /\ Part(w, I + I + 2, <<e.type>>)
         /\ Part(w, I + I + 3, WriteLengthPrefixedString(e.payload))
         /\ Part(w, I + I + P + 4, <<Len(e.metadata)>>)
         /\ Part(w, I + I + P + 5, m)
<1> DEFINE w == WriteEvent(e)
           I == IDSize
           P == Len(e.payload)
           m == WriteMetadata(e.metadata)
           M == Len(m)
           L == I + I + 3 + P + 1 + M
           c1 == <<L>>
           c2 == Pad(e.vm)
           c3 == Pad(e.session)
           c4 == <<e.time, e.type, P>>
           c5 == e.payload
           c6 == <<Len(e.metadata)>>
           w2 == c1 \o c2
           w3 == w2 \o c3
           w4 == w3 \o c4
           w5 == w4 \o c5
           w6 == w5 \o c6
<1>0. I \in Nat /\ P \in Nat /\ M \in Nat /\ L \in Nat /\ Len(e.metadata) \in Nat /\ m \in Seq(Nat)
  <2>1. m \in Seq(Nat) /\ e.payload \in Seq(Nat) /\ e.metadata \in Seq(Entry) /\ I \in Nat
    BY EventFacts, MetadataType, EventWireAssumption
  <2> HIDE DEF m
  <2>2. P \in Nat /\ M \in Nat /\ Len(e.metadata) \in Nat
    BY <2>1
  <2> HIDE DEF P, M
  <2> QED BY <2>1, <2>2
<1>1. w = w6 \o m
  BY Zenon DEF WriteEvent
<1>2. c1 \in Seq(Nat) /\ Len(c1) = 1 /\ c1[1] = L
  <2> HIDE DEF L
  <2> QED BY <1>0
<1>3. c2 \in Seq(Nat) /\ Len(c2) = I /\ c3 \in Seq(Nat) /\ Len(c3) = I
  BY EventFacts, PadTrim
<1>4. c4 \in Seq(Nat) /\ Len(c4) = 3 /\ c5 \in Seq(Nat) /\ Len(c5) = P
  <2>1. e.time \in Nat /\ e.type \in Nat /\ e.payload \in Seq(Nat)
    BY EventFacts
  <2>2. c5 \in Seq(Nat) /\ Len(c5) = P
    BY <2>1
  <2> HIDE DEF P
  <2> QED BY <1>0, <2>1, <2>2
<1>5. c6 \in Seq(Nat) /\ Len(c6) = 1
  BY <1>0
<1> HIDE DEF c1, c2, c3, c4, c5, c6, m, w, I, P, L, M
<1>6. w2 \in Seq(Nat) /\ Len(w2) = 1 + I
  <2>1. w2 \in Seq(Nat) /\ Len(w2) = Len(c1) + Len(c2)
    BY <1>2, <1>3, Behind
  <2> HIDE DEF w2
  <2> QED BY <1>2, <1>3, <2>1
<1> HIDE DEF w2
<1>7. w3 \in Seq(Nat) /\ Len(w3) = 1 + I + I
  <2>1. w3 \in Seq(Nat) /\ Len(w3) = Len(w2) + Len(c3)
    BY <1>3, <1>6, Behind
  <2> QED BY <1>3, <1>6, <2>1
<1> HIDE DEF w3
<1>8. w4 \in Seq(Nat) /\ Len(w4) = I + I + 4
  <2>1. w4 \in Seq(Nat) /\ Len(w4) = Len(w3) + Len(c4)
    BY <1>4, <1>7, Behind
  <2> HIDE DEF w4
  <2> QED BY <1>0, <1>4, <1>7, <2>1
<1> HIDE DEF w4
<1>9. w5 \in Seq(Nat) /\ Len(w5) = I + I + P + 4
  <2>1. w5 \in Seq(Nat) /\ Len(w5) = Len(w4) + Len(c5)
    BY <1>4, <1>8, Behind
  <2> HIDE DEF w5
  <2> QED BY <1>0, <1>4, <1>8, <2>1
<1> HIDE DEF w5
<1>10. w6 \in Seq(Nat) /\ Len(w6) = I + I + P + 5
  <2>1. w6 \in Seq(Nat) /\ Len(w6) = Len(w5) + Len(c6)
    BY <1>5, <1>9, Behind
  <2> HIDE DEF w6
  <2> QED BY <1>0, <1>5, <1>9, <2>1
<1> HIDE DEF w6
<1>11. w \in Seq(Nat) /\ Len(w) = I + I + P + 5 + M
  <2>1. w6 \o m \in Seq(Nat) /\ Len(w6 \o m) = Len(w6) + Len(m)
    BY <1>0, <1>10, Behind
  <2> QED BY <1>1, <1>10, <2>1 DEF M
<1>12. ASSUME NEW s \in Seq(Nat) PROVE 0 + Len(s) = Len(s) /\ Len(s) \in Nat
  OBVIOUS
<1>13. Part(w, 0, w6 \o m)
  BY <1>1, <1>11 DEF Part
<1>14. Part(w, 0, w6) /\ Part(w, I + I + P + 5, m)
  <2>1. Part(w, 0, w6) /\ Part(w, 0 + Len(w6), m)
    BY <1>0, <1>10, <1>11, <1>13, PartSplit
  <2> QED BY <1>10, <1>12, <2>1
<1>15. Part(w, 0, w5) /\ Part(w, I + I + P + 4, c6)
  <2>1. Part(w, 0, w5) /\ Part(w, 0 + Len(w5), c6)
    BY <1>5, <1>9, <1>11, <1>14, PartSplit DEF w6
  <2> QED BY <1>9, <1>12, <2>1
<1>16. Part(w, 0, w4) /\ Part(w, I + I + 4, c5)
  <2>1. Part(w, 0, w4) /\ Part(w, 0 + Len(w4), c5)
    BY <1>4, <1>8, <1>11, <1>15, PartSplit DEF w5
  <2> QED BY <1>8, <1>12, <2>1
<1>17. Part(w, 0, w3) /\ Part(w, 1 + I + I, c4)
  <2>1. Part(w, 0, w3) /\ Part(w, 0 + Len(w3), c4)
    BY <1>4, <1>7, <1>11, <1>16, PartSplit DEF w4
  <2> QED BY <1>7, <1>12, <2>1
<1>18. Part(w, 0, w2) /\ Part(w, 1 + I, c3)
  <2>1. Part(w, 0, w2) /\ Part(w, 0 + Len(w2), c3)
    BY <1>3, <1>6, <1>11, <1>17, PartSplit DEF w3
  <2> QED BY <1>6, <1>12, <2>1
<1>19. Part(w, 0, c1) /\ Part(w, 1, c2)
  <2>1. Part(w, 0, c1) /\ Part(w, 0 + Len(c1), c2)
    BY <1>2, <1>3, <1>11, <1>18, PartSplit DEF w2
  <2> QED BY <1>2, <1>12, <2>1
<1>20. w[1] = L
  <2>1. \A i \in 1 .. Len(c1) : w[0 + i] = c1[i]
    BY <1>19 DEF Part
  <2>2. 1 \in 1 .. Len(c1) /\ 0 + 1 = 1
    BY <1>2
  <2>3. w[0 + 1] = c1[1]
    BY <2>1, <2>2
  <2> QED BY <1>2, <2>2, <2>3
<1>21. Part(w, 1 + I + I, <<e.time>>) /\ Part(w, I + I + 2, <<e.type>>) /\ Part(w, I + I + 3, <<P>>)
  <2>0. 1 + I + I \in Nat /\ 1 + I + I + 1 = I + I + 2 /\ 1 + I + I + 2 = I + I + 3
    BY <1>0
  <2>3. e.time \in Nat /\ e.type \in Nat
    BY EventFacts
  <2>1. Part(w, 1 + I + I, <<e.time>>) /\ Part(w, 1 + I + I + 1, <<e.type>>) /\ Part(w, 1 + I + I + 2, <<P>>)
    BY <1>0, <1>11, <1>17, <2>0, <2>3, PartTriple DEF c4
  <2> QED BY <2>0, <2>1
<1>22. Part(w, I + I + 3, WriteLengthPrefixedString(e.payload))
  <2> DEFINE b == <<P>>
  <2>1. b \in Seq(Nat) /\ Len(b) = 1
    BY <1>0
  <2>2. Part(w, I + I + 3, b)
    BY <1>21
  <2> HIDE DEF b
  <2>3. I + I + 3 \in Nat /\ I + I + 3 + Len(b) = I + I + 4
    BY <1>0, <2>1
  <2>4. Part(w, I + I + 3, b \o c5)
    BY <1>4, <1>11, <1>16, <2>1, <2>2, <2>3, PartJoin
  <2> QED BY <2>4 DEF b, c5, P, WriteLengthPrefixedString
<1> QED BY <1>0, <1>11, <1>14, <1>15, <1>18, <1>19, <1>20, <1>21, <1>22 DEF w, I, P, L, M, m, c1, c2, c3, c6

\* An event is read as it was written, with what is behind it left over; one that breaks off
\* anywhere is refused.
LEMMA EventRead ==
  ASSUME NEW e \in WireEvents, NEW z \in Seq(Nat), Agree(z, WriteEvent(e))
  PROVE  LET w == WriteEvent(e) IN
         /\ Len(w) <= Len(z) => /\ ReadEvent(z).ok /\ ReadEvent(z).event = e
                                /\ ReadEvent(z).rest = SubSeq(z, Len(w) + 1, Len(z))
         /\ Len(w) > Len(z) => ~ReadEvent(z).ok
<1> DEFINE w == WriteEvent(e)
           I == IDSize
           P == Len(e.payload)
           m == WriteMetadata(e.metadata)
           M == Len(m)
           N == Len(e.metadata)
           lz == Len(z)
           r0 == Reader(z)
           r1 == ReadFull(r0, 1)
           r2 == ReadFull(r1, IDSize)
           r3 == ReadFull(r2, IDSize)
           r4 == ReadFull(r3, 1)
           r5 == ReadFull(r4, 1)
           r6 == ReadLengthPrefixedString(r5, MaxPayload)
           r7 == ReadFull(r6, 1)
           en == CHOOSE en : en = [n \in 0 .. Number(r7) |->
                                     IF n = 0 THEN [reader |-> r7, metadata |-> <<>>] ELSE ReadEntry(en[n - 1])]
           body == en[Number(r7)]
           bad == \/ Number(r1) < HeaderSize - 1 \/ Number(r1) > MaxPayload + HeaderSize
                  \/ Number(r7) > MaxEntries \/ ~body.reader.ok
           res == ReadEvent(z)
           good == [ok |-> TRUE, rest |-> body.reader.rest,
                    event |-> [vm |-> TrimNullPadding(r2.last), session |-> TrimNullPadding(r3.last),
                               time |-> Number(r4), type |-> Number(r5), payload |-> r6.last,
                               metadata |-> body.metadata]]
<1>1. res = IF bad THEN [ok |-> FALSE] ELSE good
  BY DEF ReadEvent
<1>2. /\ w \in Seq(Nat) /\ Len(w) = I + I + P + 5 + M /\ m \in Seq(Nat)
      /\ Part(w, 0, <<w[1]>>) /\ w[1] = I + I + 3 + P + 1 + M
      /\ Part(w, 1, Pad(e.vm)) /\ Part(w, 1 + I, Pad(e.session))
      /\ Part(w, 1 + I + I, <<e.time>>) /\ Part(w, I + I + 2, <<e.type>>)
      /\ Part(w, I + I + 3, WriteLengthPrefixedString(e.payload))
      /\ Part(w, I + I + P + 4, <<N>>)
      /\ Part(w, I + I + P + 5, m)
  BY EventPieces
<1>3. /\ e.time \in Nat /\ e.type \in Nat /\ e.payload \in Seq(Nat) /\ P <= MaxPayload
      /\ e.metadata \in Seq(Entry) /\ N <= MaxEntries
      /\ \A i \in DOMAIN e.metadata : Len(e.metadata[i].key) <= MaxKey /\ Len(e.metadata[i].value) <= MaxValue
  BY EventFacts
<1>4. w[1] <= MaxPayload + HeaderSize
  BY EventFacts
<1>5. /\ Pad(e.vm) \in Seq(Nat) /\ Len(Pad(e.vm)) = I /\ TrimNullPadding(Pad(e.vm)) = e.vm
      /\ Pad(e.session) \in Seq(Nat) /\ Len(Pad(e.session)) = I /\ TrimNullPadding(Pad(e.session)) = e.session
  BY EventFacts, PadTrim
<1>6. I \in Nat /\ P \in Nat /\ M \in Nat /\ N \in Nat /\ lz \in Nat /\ MaxPayload \in Nat /\ MaxEntries \in Nat
  <2>1. I \in Nat /\ MaxPayload \in Nat /\ MaxEntries \in Nat
    BY EventWireAssumption
  <2>2. P \in Nat /\ N \in Nat /\ lz \in Nat
    BY <1>3
  <2>3. M \in Nat
    <3> HIDE DEF m
    <3> QED BY <1>2
  <2> QED BY <2>1, <2>2, <2>3
<1>7. HeaderSize = I + I + 4
  <2> HIDE DEF P, M, N, lz
  <2> QED BY <1>6 DEF HeaderSize
<1>8. Agree(z, w)
  OBVIOUS
<1>20. Len(w) = I + I + P + 5 + M /\ w[1] = I + I + 3 + P + 1 + M
  BY <1>2
<1> HIDE DEF res, bad, good, body, en, r7, r6, r5, r4, r3, r2, r1, lz, N, M, m, w, I, P
<1>9. Placed(r0, z, 0)
  <2>1. SubSeq(z, 0 + 1, Len(z)) = z
    OBVIOUS
  <2>2. <<>> \in Seq(Nat)
    OBVIOUS
  <2>3. r0 \in Readers
    BY <2>2, Zenon DEF Readers, Reader
  <2>4. r0.ok
    BY Zenon DEF Reader
  <2>5. r0.rest = z
    BY DEF Reader
  <2>6. ~(0 > Len(z))
    BY <1>6 DEF lz
  <2> QED BY <2>1, <2>3, <2>4, <2>5, <2>6 DEF Placed
<1> HIDE DEF r0
<1>10. Placed(r1, z, 1) /\ Number(r1) = IF 1 <= lz THEN w[1] ELSE 0
  <2>1. w[1] \in Nat /\ 0 + 1 = 1 /\ 0 \in Nat
    BY <1>6, <1>20
  <2>2. Placed(r1, z, 0 + 1) /\ Number(r1) = IF 0 + 1 <= Len(z) THEN w[1] ELSE 0
    BY <1>2, <1>8, <1>9, <2>1, NumberRead DEF r1
  <2> QED BY <2>1, <2>2 DEF lz
<1>11. Placed(r2, z, 1 + I) /\ (1 + I <= lz => r2.last = Pad(e.vm))
  <2>1. 1 \in Nat /\ r2 = ReadFull(r1, Len(Pad(e.vm)))
    BY <1>5 DEF r2, I
  <2> DEFINE a == Pad(e.vm)
  <2>2. a \in Seq(Nat) /\ Len(a) = I /\ Part(w, 1, a) /\ w \in Seq(Nat)
    BY <1>2, <1>5
  <2> HIDE DEF a
  <2>3. Placed(r1, z, 1) /\ r2 = ReadFull(r1, Len(a))
    BY <1>10, <2>1 DEF a
  <2>4. Placed(r2, z, 1 + Len(a)) /\ (1 + Len(a) <= Len(z) => r2.last = a)
    BY <1>8, <2>1, <2>2, <2>3, PieceRead
  <2> QED BY <2>2, <2>4 DEF lz, a
<1>12. Placed(r3, z, 1 + I + I) /\ (1 + I + I <= lz => r3.last = Pad(e.session))
  <2>1. 1 + I \in Nat /\ r3 = ReadFull(r2, Len(Pad(e.session)))
    BY <1>5, <1>6 DEF r3, I
  <2> DEFINE a == Pad(e.session)
             j == 1 + I
  <2>2. a \in Seq(Nat) /\ Len(a) = I /\ Part(w, j, a) /\ w \in Seq(Nat) /\ j \in Nat
    BY <1>2, <1>5, <2>1
  <2>3. Placed(r2, z, j) /\ r3 = ReadFull(r2, Len(a))
    BY <1>11, <2>1
  <2> HIDE DEF a, j
  <2>4. Placed(r3, z, j + Len(a)) /\ (j + Len(a) <= Len(z) => r3.last = a)
    BY <1>8, <2>2, <2>3, PieceRead
  <2> QED BY <2>2, <2>4 DEF lz, a, j
<1>13. Placed(r4, z, I + I + 2) /\ Number(r4) = IF I + I + 2 <= lz THEN e.time ELSE 0
  <2>1. 1 + I + I \in Nat /\ 1 + I + I + 1 = I + I + 2
    BY <1>6
  <2>2. Placed(r4, z, 1 + I + I + 1) /\ Number(r4) = IF 1 + I + I + 1 <= Len(z) THEN e.time ELSE 0
    BY <1>2, <1>3, <1>8, <1>12, <2>1, NumberRead DEF r4
  <2> QED BY <2>1, <2>2 DEF lz
<1>14. Placed(r5, z, I + I + 3) /\ Number(r5) = IF I + I + 3 <= lz THEN e.type ELSE 0
  <2>1. I + I + 2 \in Nat /\ I + I + 2 + 1 = I + I + 3
    BY <1>6
  <2>2. Placed(r5, z, I + I + 2 + 1) /\ Number(r5) = IF I + I + 2 + 1 <= Len(z) THEN e.type ELSE 0
    BY <1>2, <1>3, <1>8, <1>13, <2>1, NumberRead DEF r5
  <2> QED BY <2>1, <2>2 DEF lz
<1>15. Placed(r6, z, I + I + P + 4) /\ (I + I + P + 4 <= lz => r6.last = e.payload)
  <2>1. I + I + 3 \in Nat /\ I + I + 3 + 1 + P = I + I + P + 4
    BY <1>6
  <2>2. Placed(r6, z, I + I + 3 + 1 + P) /\ (I + I + 3 + 1 + P <= Len(z) => r6.last = e.payload)
    <3>1. Len(e.payload) <= MaxPayload /\ e.payload \in Seq(Nat) /\ MaxPayload \in Nat
      BY <1>3, <1>6 DEF P
    <3> DEFINE a == e.payload
               j == I + I + 3
    <3>2. Part(w, j, WriteLengthPrefixedString(a)) /\ w \in Seq(Nat) /\ Placed(r5, z, j)
      BY <1>2, <1>14
    <3>3. a \in Seq(Nat) /\ Len(a) <= MaxPayload /\ MaxPayload \in Nat /\ j \in Nat
      BY <2>1, <3>1
    <3> HIDE DEF a, j
    <3>4. /\ Placed(ReadLengthPrefixedString(r5, MaxPayload), z, j + 1 + Len(a))
          /\ j + 1 + Len(a) <= Len(z) => ReadLengthPrefixedString(r5, MaxPayload).last = a
      BY <1>8, <3>2, <3>3, StringRead
    <3> QED BY <3>4 DEF r6, P, a, j
  <2> QED BY <2>1, <2>2 DEF lz
<1>16. Placed(r7, z, I + I + P + 5) /\ Number(r7) = IF I + I + P + 5 <= lz THEN N ELSE 0
  <2>1. I + I + P + 4 \in Nat /\ I + I + P + 4 + 1 = I + I + P + 5
    BY <1>6
  <2>2. Placed(r7, z, I + I + P + 4 + 1) /\ Number(r7) = IF I + I + P + 4 + 1 <= Len(z) THEN N ELSE 0
    <3>1. Part(w, I + I + P + 4, <<N>>) /\ w \in Seq(Nat) /\ N \in Nat /\ Placed(r6, z, I + I + P + 4)
      BY <1>2, <1>6, <1>15
    <3> QED BY <1>8, <2>1, <3>1, NumberRead DEF r7
  <2> QED BY <2>1, <2>2 DEF lz
<1>17. EntriesOf(en, r7, Number(r7))
  <2>1. r7 \in Readers
    BY <1>16 DEF Placed
  <2>2. Number(r7) \in Nat
    BY <2>1, NumberType
  <2>3. \E x : EntriesOf(x, r7, Number(r7))
    BY <2>1, <2>2, EntriesExist
  <2> QED BY <2>3 DEF EntriesOf, en
<1>18. CASE I + I + P + 5 <= lz
  <2>1. Number(r7) = N
    BY <1>16, <1>18
  <2>2. /\ Placed(body.reader, z, I + I + P + 5 + M)
        /\ I + I + P + 5 + M <= lz => body.metadata = e.metadata
    <3>1. I + I + P + 5 \in Nat
      BY <1>6
    <3>2. EntriesOf(en, r7, Len(e.metadata)) /\ body = en[Len(e.metadata)]
      BY <1>17, <2>1 DEF N, body
    <3>3. Part(w, I + I + P + 5, WriteMetadata(e.metadata))
      BY <1>2 DEF m
    <3> DEFINE md == e.metadata
               j == I + I + P + 5
    <3>4. /\ j \in Nat /\ w \in Seq(Nat) /\ Part(w, j, WriteMetadata(md)) /\ Placed(r7, z, j)
          /\ md \in Seq(Entry) /\ EntriesOf(en, r7, Len(md))
      BY <1>2, <1>3, <1>16, <3>1, <3>2, <3>3
    <3>5. \A i \in DOMAIN md : Len(md[i].key) <= MaxKey /\ Len(md[i].value) <= MaxValue
      BY <1>3
    <3> HIDE DEF md, j
    <3>6. /\ Placed(en[Len(md)].reader, z, j + Len(WriteMetadata(md)))
          /\ j + Len(WriteMetadata(md)) <= Len(z) => en[Len(md)].metadata = md
      BY <1>8, <3>4, <3>5, MetadataRead
    <3> QED BY <3>2, <3>6 DEF lz, M, m, md, j
  <2>3. CASE Len(w) <= lz
    <3>1. I + I + P + 5 + M <= lz
      BY <1>20, <2>3
    <3>2. body.reader.ok /\ body.reader.rest = SubSeq(z, Len(w) + 1, Len(z)) /\ body.metadata = e.metadata
      BY <1>20, <2>2, <3>1 DEF Placed, lz
    <3>3. /\ 1 <= lz /\ 1 + I <= lz /\ 1 + I + I <= lz /\ I + I + 2 <= lz /\ I + I + 3 <= lz
          /\ I + I + P + 4 <= lz
      BY <1>6, <3>1
    <3>4. Number(r1) = w[1] /\ Number(r4) = e.time /\ Number(r5) = e.type
      BY <1>10, <1>13, <1>14, <3>3
    <3>5. r2.last = Pad(e.vm) /\ r3.last = Pad(e.session) /\ r6.last = e.payload
      BY <1>11, <1>12, <1>15, <3>3
    <3>6. ~(w[1] < HeaderSize - 1) /\ ~(w[1] > MaxPayload + HeaderSize) /\ ~(N > MaxEntries)
      <4>1. N <= MaxEntries
        BY <1>3
      <4> QED BY <1>20, <1>4, <1>6, <1>7, <4>1
    <3>7. ~bad
      BY <2>1, <3>2, <3>4, <3>6 DEF bad
    <3>8. res = good
      BY <1>1, <3>7
    <3>9. e = [vm |-> e.vm, session |-> e.session, time |-> e.time, type |-> e.type, payload |-> e.payload,
               metadata |-> e.metadata]
      BY EventFacts
    <3>10. good = [ok |-> TRUE, rest |-> body.reader.rest, event |-> e]
      BY <1>5, <3>2, <3>4, <3>5, <3>9, Zenon DEF good
    <3>11. res.ok /\ res.event = e /\ res.rest = body.reader.rest
      <4>1. res = [ok |-> TRUE, rest |-> body.reader.rest, event |-> e]
        BY <3>8, <3>10, Zenon
      <4>2. res.ok
        BY <4>1, Zenon
      <4>3. res.event = e /\ res.rest = body.reader.rest
        BY <4>1
      <4> QED BY <4>2, <4>3
    <3>12. ~(Len(w) > Len(z))
      BY <1>20, <1>6, <2>3 DEF lz
    <3> QED BY <3>2, <3>11, <3>12 DEF w, res
  <2>4. CASE ~(Len(w) <= lz)
    <3>1. Len(w) > lz /\ I + I + P + 5 + M > lz
      BY <1>20, <1>6, <2>4
    <3>2. ~body.reader.ok
      BY <2>2, <3>1 DEF Placed, lz
    <3>3. bad
      BY <3>2 DEF bad
    <3>4. res = [ok |-> FALSE]
      BY <1>1, <3>3
    <3>5. ~res.ok
      BY <3>4, Zenon
    <3> QED BY <2>4, <3>5 DEF w, lz, res
  <2> QED BY <2>3, <2>4
<1>19. CASE ~(I + I + P + 5 <= lz)
  <2>1. I + I + P + 5 > lz /\ Len(w) > lz /\ ~(Len(w) <= lz)
    BY <1>20, <1>6, <1>19
  <2>2. ~r7.ok
    BY <1>16, <2>1 DEF Placed, lz
  <2>3. Number(r7) = 0
    BY <1>16, <1>19
  <2>4. body = [reader |-> r7, metadata |-> <<>>]
    <3>1. 0 \in 0 .. 0
      OBVIOUS
    <3>2. en[0] = [reader |-> r7, metadata |-> <<>>]
      BY <1>17, <2>3, <3>1 DEF EntriesOf
    <3> QED BY <2>3, <3>2 DEF body
  <2>5. body.reader = r7
    BY <2>4
  <2>6. bad
    BY <2>2, <2>5 DEF bad
  <2>7. res = [ok |-> FALSE]
    BY <1>1, <2>6
  <2>8. ~res.ok
    BY <2>7, Zenon
  <2> QED BY <2>1, <2>8 DEF w, lz, res
<1> QED BY <1>18, <1>19

\* The end of the stream is an error.
LEMMA NothingRead == ~ReadEvent(<<>>).ok
<1> DEFINE r1 == ReadFull(Reader(<<>>), 1)
<1>1. Len(<<>>) = 0 /\ ~(1 <= 0)
  OBVIOUS
<1>2. Reader(<<>>).rest = <<>>
  BY DEF Reader
<1>3. r1 = [ok |-> FALSE, last |-> <<>>, rest |-> <<>>]
  BY <1>1, <1>2, ReadFullCases
<1>4. Number(r1) = 0
  <2>1. r1.last = <<>>
    BY <1>3
  <2> QED BY <2>1 DEF Number
<1>5. 0 < HeaderSize - 1
  BY EventWireAssumption DEF HeaderSize
<1>6. Number(r1) < HeaderSize - 1
  BY <1>4, <1>5
<1> DEFINE res == ReadEvent(<<>>)
<1>7. res = [ok |-> FALSE]
  BY <1>6, Zenon DEF ReadEvent
<1> HIDE DEF res
<1>8. ~res.ok
  BY <1>7, Zenon
<1> QED BY <1>8 DEF res

-----------------------------------------------------------------------------
(* The stream                                                              *)

\* The first k fields of the stream s are the events r + 1 to n of ev; f says where each ends.
EndsAt(f, r, n, s, ev) ==
  \A i \in r + 1 .. n : /\ f[i] = f[i - 1] + Len(WriteEvent(ev[i]))
                        /\ Part(s, f[i - 1], WriteEvent(ev[i]))

InStream(r, n, s, ev, k) == \E f \in [r .. n -> Nat] : f[r] = 0 /\ f[n] = k /\ k <= Len(s) /\ EndsAt(f, r, n, s, ev)

\* What is behind them: nothing, or the start of the event that broke off.
Rest(k, n, s, ev) ==
  \/ k = Len(s)
  \/ /\ n + 1 <= Len(ev) /\ Len(s) - k < Len(WriteEvent(ev[n + 1]))
     /\ \A i \in 1 .. Len(s) - k : s[k + i] = WriteEvent(ev[n + 1])[i]

\* The specification: what is proved is safety.
WireSpec == WireInit /\ [][WireNext]_wireVars

\* What was read is the start of what was written, and the stream is the rest of it.
WireInv ==
  /\ writtenEvents \in Seq(WireEvents) /\ receivedEvents \in Seq(WireEvents) /\ stream \in Seq(Nat)
  /\ line \in {"open", "broken", "over"} /\ whole \in Nat
  /\ Len(receivedEvents) <= whole /\ whole <= Len(writtenEvents) /\ (line = "open" => whole = Len(writtenEvents))
  /\ \A i \in 1 .. Len(receivedEvents) : receivedEvents[i] = writtenEvents[i]
  /\ line = "over" => Len(receivedEvents) = whole
  /\ \E k \in Nat : /\ InStream(Len(receivedEvents), whole, stream, writtenEvents, k)
                    /\ line = "open" => k = Len(stream)
                    /\ Rest(k, whole, stream, writtenEvents)

\* No event is empty.
LEMMA EventType ==
  ASSUME NEW e \in WireEvents
  PROVE  WriteEvent(e) \in Seq(Nat) /\ Len(WriteEvent(e)) \in Nat /\ Len(WriteEvent(e)) > 0
<1> DEFINE w == WriteEvent(e)
<1>1. w \in Seq(Nat) /\ Part(w, 0, <<w[1]>>)
  BY EventPieces
<1> HIDE DEF w
<1>2. 0 + 1 <= Len(w) /\ Len(w) \in Nat
  BY <1>1 DEF Part
<1> QED BY <1>1, <1>2 DEF w

\* An event more is written.
LEMMA StreamGrows ==
  ASSUME NEW ev \in Seq(WireEvents), NEW s \in Seq(Nat), NEW r \in Nat, r <= Len(ev),
         InStream(r, Len(ev), s, ev, Len(s)), NEW e \in WireEvents
  PROVE  /\ s \o WriteEvent(e) \in Seq(Nat)
         /\ InStream(r, Len(ev) + 1, s \o WriteEvent(e), Append(ev, e), Len(s \o WriteEvent(e)))
<1> DEFINE n == Len(ev)
           w == WriteEvent(e)
           t == s \o w
           ee == Append(ev, e)
<1>1. PICK f \in [r .. n -> Nat] : f[r] = 0 /\ f[n] = Len(s) /\ EndsAt(f, r, n, s, ev)
  BY DEF InStream
<1>2. w \in Seq(Nat) /\ Len(w) \in Nat
  BY EventType
<1>3. n \in Nat /\ r <= n /\ Len(s) \in Nat
  OBVIOUS
<1>4. ee[n + 1] = e /\ \A i \in 1 .. n : ee[i] = ev[i]
  OBVIOUS
<1> HIDE DEF n, w, ee
<1>5. t \in Seq(Nat) /\ Len(t) = Len(s) + Len(w) /\ (\A i \in 1 .. Len(s) : t[i] = s[i])
      /\ (\A i \in 1 .. Len(w) : t[Len(s) + i] = w[i])
  BY <1>2, Behind
<1> HIDE DEF t
<1> DEFINE g == [i \in r .. n + 1 |-> IF i = n + 1 THEN Len(t) ELSE f[i]]
<1>6. g \in [r .. n + 1 -> Nat] /\ g[r] = 0 /\ g[n + 1] = Len(t) /\ \A i \in r .. n : g[i] = f[i]
  <2>1. Len(t) \in Nat
    BY <1>5
  <2>2. ASSUME NEW i \in r .. n + 1, i # n + 1 PROVE i \in r .. n
    BY <1>3, <2>2
  <2>3. g \in [r .. n + 1 -> Nat]
    BY <1>1, <2>1, <2>2
  <2>4. r \in r .. n /\ n + 1 \in r .. n + 1 /\ \A i \in r .. n : i \in r .. n + 1 /\ i # n + 1
    BY <1>3
  <2> QED BY <1>1, <2>3, <2>4
<1> HIDE DEF g
<1>7. ASSUME NEW i \in r + 1 .. n + 1
      PROVE  g[i] = g[i - 1] + Len(WriteEvent(ee[i])) /\ Part(t, g[i - 1], WriteEvent(ee[i]))
  <2>1. CASE i = n + 1
    <3>1. g[i - 1] = Len(s)
      <4>1. i - 1 = n /\ n \in r .. n
        BY <1>3, <2>1
      <4> QED BY <1>1, <1>6, <4>1
    <3>2. ee[i] = e
      BY <1>4, <2>1
    <3>3. Part(t, Len(s), w)
      <4>1. Len(s) + Len(w) <= Len(t)
        BY <1>2, <1>5
      <4> QED BY <1>5, <4>1, Zenon DEF Part
    <3> QED BY <1>5, <1>6, <2>1, <3>1, <3>2, <3>3 DEF w
  <2>2. CASE i # n + 1
    <3>1. i \in r + 1 .. n /\ i \in r .. n /\ i - 1 \in r .. n /\ i \in 1 .. n
      BY <1>3, <2>2
    <3> DEFINE x == WriteEvent(ev[i])
               j == f[i - 1]
    <3>2. f[i] = j + Len(x) /\ Part(s, j, x)
      BY <1>1, <3>1 DEF EndsAt
    <3>3. ee[i] = ev[i] /\ g[i] = f[i] /\ g[i - 1] = f[i - 1]
      BY <1>4, <1>6, <3>1
    <3>4. x \in Seq(Nat) /\ Len(x) \in Nat /\ j \in Nat
      <4>1. ev[i] \in WireEvents
        BY <3>1 DEF n
      <4> QED BY <1>1, <3>1, <4>1, EventType
    <3> HIDE DEF x, j
    <3>5. j + Len(x) <= Len(s) /\ \A l \in 1 .. Len(x) : s[j + l] = x[l]
      BY <3>2 DEF Part
    <3>6. ASSUME NEW l \in 1 .. Len(x) PROVE t[j + l] = x[l]
      <4>1. j + l \in 1 .. Len(s)
        BY <1>3, <3>4, <3>5
      <4> QED BY <1>5, <3>5, <4>1
    <3>7. j + Len(x) <= Len(t)
      BY <1>2, <1>3, <1>5, <3>4, <3>5
    <3>8. Part(t, j, x)
      BY <3>6, <3>7 DEF Part
    <3> QED BY <3>2, <3>3, <3>8 DEF x, j
  <2> QED BY <2>1, <2>2
<1>8. EndsAt(g, r, n + 1, t, ee)
  BY <1>7 DEF EndsAt
<1>9. Len(t) <= Len(t)
  BY <1>5
<1>10. InStream(r, n + 1, t, ee, Len(t))
  BY <1>6, <1>8, <1>9 DEF InStream
<1> QED BY <1>5, <1>10 DEF t, n, w, ee

\* The next event is w, and t is left when it has been read.
NextIs(ev, s, r, n, k, w, t) ==
  /\ Agree(s, w) /\ Len(w) <= Len(s) /\ t \in Seq(Nat) /\ k - Len(w) \in Nat
  /\ InStream(r + 1, n, t, ev, k - Len(w)) /\ Rest(k - Len(w), n, t, ev)
  /\ k = Len(s) => k - Len(w) = Len(t)

\* The next event is read.
LEMMA StreamShrinks ==
  ASSUME NEW ev \in Seq(WireEvents), NEW s \in Seq(Nat), NEW r \in Nat, NEW n \in Nat, r < n, n <= Len(ev),
         NEW k \in Nat, InStream(r, n, s, ev, k), Rest(k, n, s, ev)
  PROVE  LET w == WriteEvent(ev[r + 1]) IN NextIs(ev, s, r, n, k, w, SubSeq(s, Len(w) + 1, Len(s)))
<1> DEFINE w == WriteEvent(ev[r + 1])
           L == Len(w)
           t == SubSeq(s, L + 1, Len(s))
<1>0. \A i \in r + 1 .. n : ev[i] \in WireEvents /\ WriteEvent(ev[i]) \in Seq(Nat) /\ Len(WriteEvent(ev[i])) \in Nat
  <2>1. \A i \in r + 1 .. n : ev[i] \in WireEvents
    OBVIOUS
  <2> QED BY <2>1, EventType
<1>1. PICK f \in [r .. n -> Nat] : f[r] = 0 /\ f[n] = k /\ k <= Len(s) /\ EndsAt(f, r, n, s, ev)
  BY DEF InStream
<1>2. r + 1 \in r + 1 .. n /\ (r + 1) - 1 = r /\ Len(s) \in Nat
  OBVIOUS
<1>3. w \in Seq(Nat) /\ L \in Nat
  BY <1>0, <1>2
<1>4. f[r + 1] = L /\ Part(s, 0, w)
  <2>1. f[r + 1] = f[(r + 1) - 1] + L /\ Part(s, f[(r + 1) - 1], w)
    BY <1>1, <1>2 DEF EndsAt
  <2>2. 0 + L = L
    BY <1>3
  <2> QED BY <1>1, <1>2, <2>1, <2>2
<1>5. L <= Len(s) /\ \A i \in 1 .. L : s[i] = w[i]
  <2>1. 0 + L <= Len(s) /\ \A i \in 1 .. L : s[0 + i] = w[i]
    BY <1>4 DEF Part
  <2> HIDE DEF w
  <2> QED BY <1>3, <2>1
<1> HIDE DEF L, w
<1>6. Agree(s, w)
  BY <1>5 DEF Agree, L
<1>7. t \in Seq(Nat) /\ Len(t) = Len(s) - L /\ \A i \in 1 .. Len(s) - L : t[i] = s[L + i]
  <2> DEFINE q == Len(s)
  <2>1. q \in Nat /\ q <= Len(s) /\ L <= q
    BY <1>2, <1>5
  <2> HIDE DEF q
  <2>2. LET v == SubSeq(s, L + 1, q) IN v \in Seq(Nat) /\ Len(v) = q - L /\ \A i \in 1 .. q - L : v[i] = s[L + i]
    BY <1>3, <2>1, Stretch
  <2> QED BY <2>2 DEF q
<1> HIDE DEF t
\* No event ends before the first does.
<1>8. \A i \in r + 1 .. n : f[i] >= L /\ f[i] \in Nat
  <2> DEFINE B == {i \in r + 1 .. n : ~(f[i] >= L)}
  <2>0. \A i \in r + 1 .. n : f[i] \in Nat
    BY <1>1
  <2>1. B = {}
    <3> SUFFICES ASSUME B # {} PROVE FALSE
      OBVIOUS
    <3>1. B \in SUBSET Nat
      OBVIOUS
    <3>2. PICK m \in B : \A y \in B : m <= y
      <4> HIDE DEF B
      <4> QED BY <3>1, LeastPlace
    <3>3. m \in r + 1 .. n /\ ~(f[m] >= L)
      OBVIOUS
    <3>4. m # r + 1
      BY <1>3, <1>4, <3>3
    <3>5. m - 1 \in r + 1 .. n /\ ~(m <= m - 1)
      BY <3>3, <3>4
    <3>6. f[m - 1] >= L /\ f[m - 1] \in Nat
      BY <1>1, <3>2, <3>5
    <3>7. f[m] = f[m - 1] + Len(WriteEvent(ev[m])) /\ Len(WriteEvent(ev[m])) \in Nat
      BY <1>0, <1>1, <3>3 DEF EndsAt
    <3> DEFINE x == f[m - 1]  y == Len(WriteEvent(ev[m]))
    <3>8. x >= L /\ x \in Nat /\ y \in Nat /\ f[m] = x + y
      BY <3>6, <3>7
    <3> HIDE DEF x, y
    <3> QED BY <1>3, <3>3, <3>8
  <2> QED BY <2>0, <2>1
<1> DEFINE g == [i \in r + 1 .. n |-> f[i] - L]
<1>9. g \in [r + 1 .. n -> Nat]
  <2>1. \A i \in r + 1 .. n : f[i] - L \in Nat
    BY <1>3, <1>8
  <2> QED BY <2>1
<1>10. g[r + 1] = 0 /\ g[n] = k - L /\ k >= L
  BY <1>1, <1>2, <1>3, <1>4, <1>8
<1>11. k - L \in Nat /\ k - L <= Len(t)
  BY <1>1, <1>2, <1>3, <1>7, <1>10
<1>12. ASSUME NEW i \in (r + 1) + 1 .. n
       PROVE  g[i] = g[i - 1] + Len(WriteEvent(ev[i])) /\ Part(t, g[i - 1], WriteEvent(ev[i]))
  <2> DEFINE x == WriteEvent(ev[i])
             j == f[i - 1]
  <2>1. i \in r + 1 .. n /\ i - 1 \in r + 1 .. n
    OBVIOUS
  <2>2. f[i] = j + Len(x) /\ Part(s, j, x) /\ x \in Seq(Nat) /\ Len(x) \in Nat
    BY <1>0, <1>1, <2>1 DEF EndsAt
  <2>3. g[i] = f[i] - L /\ g[i - 1] = j - L /\ j \in Nat /\ j >= L
    BY <1>8, <2>1
  <2> HIDE DEF x, j, g
  <2>4. j + Len(x) <= Len(s) /\ \A l \in 1 .. Len(x) : s[j + l] = x[l]
    BY <2>2 DEF Part
  <2>5. g[i] = g[i - 1] + Len(x) /\ (j - L) + Len(x) <= Len(t)
    BY <1>2, <1>3, <1>7, <2>2, <2>3, <2>4
  <2>6. ASSUME NEW l \in 1 .. Len(x) PROVE t[(j - L) + l] = x[l]
    <3>0. j + Len(x) <= Len(s) /\ Len(x) \in Nat /\ j >= L /\ j \in Nat
      BY <2>2, <2>3, <2>4
    <3>1. (j - L) + l \in 1 .. Len(s) - L /\ L + ((j - L) + l) = j + l
      BY <1>2, <1>3, <3>0
    <3>2. t[(j - L) + l] = s[L + ((j - L) + l)]
      BY <1>7, <3>1
    <3> QED BY <2>4, <3>1, <3>2
  <2>7. Part(t, j - L, x)
    BY <2>5, <2>6 DEF Part
  <2> QED BY <2>3, <2>5, <2>7 DEF x
<1> HIDE DEF g
<1>13. EndsAt(g, r + 1, n, t, ev)
  BY <1>12 DEF EndsAt
<1>14. InStream(r + 1, n, t, ev, k - L)
  BY <1>9, <1>10, <1>11, <1>13 DEF InStream
<1>15. k = Len(s) => k - L = Len(t)
  BY <1>7
<1>16. Rest(k - L, n, t, ev)
  <2>1. CASE k = Len(s)
    BY <1>15, <2>1 DEF Rest
  <2>2. CASE k # Len(s)
    <3> DEFINE x == WriteEvent(ev[n + 1])
    <3>1. n + 1 <= Len(ev) /\ Len(s) - k < Len(x) /\ \A i \in 1 .. Len(s) - k : s[k + i] = x[i]
      BY <2>2 DEF Rest
    <3> HIDE DEF x
    <3>2. Len(t) - (k - L) = Len(s) - k
      BY <1>2, <1>3, <1>7
    <3>3. ASSUME NEW i \in 1 .. Len(s) - k PROVE t[(k - L) + i] = x[i]
      <4>1. (k - L) + i \in 1 .. Len(s) - L /\ L + ((k - L) + i) = k + i
        BY <1>1, <1>2, <1>3, <1>10
      <4>2. t[(k - L) + i] = s[L + ((k - L) + i)]
        BY <1>7, <4>1
      <4> QED BY <3>1, <4>1, <4>2
    <3> QED BY <3>1, <3>2, <3>3 DEF Rest, x
  <2> QED BY <2>1, <2>2
<1>17. NextIs(ev, s, r, n, k, w, t)
  BY <1>5, <1>6, <1>7, <1>11, <1>14, <1>15, <1>16 DEF NextIs, L
<1> QED BY <1>17 DEF w, L, t

\* The last event breaks off.
LEMMA StreamTears ==
  ASSUME NEW ev \in Seq(WireEvents), NEW s \in Seq(Nat), NEW r \in Nat, NEW n \in Nat, r < n, n <= Len(ev),
         InStream(r, n, s, ev, Len(s)), NEW c \in 1 .. Len(WriteEvent(ev[n]))
  PROVE  LET t == SubSeq(s, 1, Len(s) - c) IN
         t \in Seq(Nat) /\ \E k \in Nat : InStream(r, n - 1, t, ev, k) /\ Rest(k, n - 1, t, ev)
<1> DEFINE w == WriteEvent(ev[n])
           L == Len(w)
           t == SubSeq(s, 1, Len(s) - c)
<1>0. \A i \in r + 1 .. n : ev[i] \in WireEvents /\ WriteEvent(ev[i]) \in Seq(Nat) /\ Len(WriteEvent(ev[i])) \in Nat
  <2>1. \A i \in r + 1 .. n : ev[i] \in WireEvents
    OBVIOUS
  <2> QED BY <2>1, EventType
<1>1. PICK f \in [r .. n -> Nat] : f[r] = 0 /\ f[n] = Len(s) /\ EndsAt(f, r, n, s, ev)
  BY DEF InStream
<1> DEFINE k == f[n - 1]
<1>2. n \in r + 1 .. n /\ n - 1 \in r .. n /\ Len(s) \in Nat
  OBVIOUS
<1>3. w \in Seq(Nat) /\ L \in Nat /\ c \in 1 .. L /\ k \in Nat
  BY <1>0, <1>1, <1>2
<1>4. Len(s) = k + L /\ Part(s, k, w)
  BY <1>1, <1>2 DEF EndsAt
<1>5. \A i \in 1 .. L : s[k + i] = w[i]
  BY <1>4 DEF Part
<1> HIDE DEF w, L, k
<1>6. t \in Seq(Nat) /\ Len(t) = k + L - c /\ \A i \in 1 .. k + L - c : t[i] = s[i]
  <2> DEFINE q == Len(s) - c
  <2>1. q \in Nat /\ q <= Len(s) /\ q = k + L - c
    BY <1>2, <1>3, <1>4
  <2>2. t = SubSeq(s, 1, q)
    OBVIOUS
  <2> HIDE DEF q, t
  <2>3. t \in Seq(Nat) /\ Len(t) = q /\ \A i \in 1 .. q : t[i] = s[i]
    BY <2>1, <2>2, Start
  <2> QED BY <2>1, <2>3
<1> HIDE DEF t
<1> DEFINE g == [i \in r .. n - 1 |-> f[i]]
<1>7. g \in [r .. n - 1 -> Nat] /\ g[r] = 0 /\ g[n - 1] = k /\ k <= Len(t)
  <2>1. k <= Len(t)
    BY <1>3, <1>6
  <2>2. r \in r .. n - 1 /\ n - 1 \in r .. n - 1 /\ \A i \in r .. n - 1 : i \in r .. n
    OBVIOUS
  <2> QED BY <1>1, <2>1, <2>2 DEF k
<1>8. \A i \in r .. n - 1 : g[i] = f[i]
  OBVIOUS
<1> HIDE DEF g
\* No event ends behind the place where the last one begins.
<1>9. \A i \in r .. n - 1 : f[i] <= k /\ f[i] \in Nat
  <2> DEFINE B == {d \in 0 .. (n - 1) - r : ~(f[(n - 1) - d] <= k)}
  <2>0. \A i \in r .. n - 1 : f[i] \in Nat
    BY <1>1
  <2>1. B = {}
    <3> SUFFICES ASSUME B # {} PROVE FALSE
      OBVIOUS
    <3>1. B \in SUBSET Nat
      OBVIOUS
    <3>2. PICK m \in B : \A y \in B : m <= y
      <4> HIDE DEF B
      <4> QED BY <3>1, LeastPlace
    <3>3. m \in 0 .. (n - 1) - r /\ ~(f[(n - 1) - m] <= k)
      OBVIOUS
    <3>4. m # 0
      BY <1>3, <3>3 DEF k
    <3> DEFINE i == (n - 1) - (m - 1)
    <3>5. m - 1 \in 0 .. (n - 1) - r /\ ~(m <= m - 1) /\ i \in r + 1 .. n /\ i - 1 = (n - 1) - m /\ i - 1 \in r .. n - 1
      BY <3>3, <3>4
    <3>6. f[i] <= k
      BY <3>2, <3>5
    <3> HIDE DEF i
    <3>7. f[i] = f[i - 1] + Len(WriteEvent(ev[i])) /\ Len(WriteEvent(ev[i])) \in Nat /\ f[i - 1] \in Nat
      BY <1>0, <1>1, <2>0, <3>5 DEF EndsAt
    <3> DEFINE x == f[i - 1]  y == Len(WriteEvent(ev[i]))
    <3>8. x \in Nat /\ y \in Nat /\ x + y <= k /\ ~(x <= k)
      BY <3>3, <3>5, <3>6, <3>7
    <3> HIDE DEF x, y
    <3> QED BY <1>3, <3>8
  <2>2. ASSUME NEW i \in r .. n - 1 PROVE f[i] <= k
    <3>1. (n - 1) - i \in 0 .. (n - 1) - r /\ (n - 1) - ((n - 1) - i) = i
      OBVIOUS
    <3> QED BY <2>1, <3>1
  <2> QED BY <2>0, <2>2
<1>10. ASSUME NEW i \in r + 1 .. n - 1
       PROVE  g[i] = g[i - 1] + Len(WriteEvent(ev[i])) /\ Part(t, g[i - 1], WriteEvent(ev[i]))
  <2> DEFINE x == WriteEvent(ev[i])
             j == f[i - 1]
  <2>1. i \in r + 1 .. n /\ i \in r .. n - 1 /\ i - 1 \in r .. n - 1
    OBVIOUS
  <2>2. f[i] = j + Len(x) /\ Part(s, j, x) /\ Len(x) \in Nat
    BY <1>0, <1>1, <2>1 DEF EndsAt
  <2>3. g[i] = f[i] /\ g[i - 1] = j /\ j \in Nat /\ j + Len(x) <= k
    BY <1>8, <1>9, <2>1, <2>2
  <2> HIDE DEF x, j
  <2>4. \A l \in 1 .. Len(x) : s[j + l] = x[l]
    BY <2>2 DEF Part
  <2>5. ASSUME NEW l \in 1 .. Len(x) PROVE t[j + l] = x[l]
    <3>1. j + l \in 1 .. k + L - c
      BY <1>3, <2>2, <2>3
    <3> QED BY <1>6, <2>4, <3>1
  <2>6. j + Len(x) <= Len(t)
    BY <1>3, <1>6, <2>2, <2>3
  <2>7. Part(t, j, x)
    BY <2>5, <2>6 DEF Part
  <2> QED BY <2>2, <2>3, <2>7 DEF x
<1>11. EndsAt(g, r, n - 1, t, ev)
  BY <1>10 DEF EndsAt
<1>12. InStream(r, n - 1, t, ev, k)
  BY <1>7, <1>11 DEF InStream
<1>13. Rest(k, n - 1, t, ev)
  <2>1. (n - 1) + 1 = n /\ Len(t) - k < L /\ Len(t) - k = L - c
    BY <1>3, <1>6
  <2>2. ASSUME NEW i \in 1 .. Len(t) - k PROVE t[k + i] = w[i]
    <3>1. k + i \in 1 .. k + L - c /\ i \in 1 .. L
      BY <1>3, <2>1
    <3> QED BY <1>5, <1>6, <3>1
  <2> QED BY <2>1, <2>2 DEF Rest, w, L
<1> QED BY <1>3, <1>6, <1>12, <1>13 DEF t

\* What is left when every whole event has been read is refused.
LEMMA RestRefused ==
  ASSUME NEW ev \in Seq(WireEvents), NEW s \in Seq(Nat), NEW n \in Nat, n <= Len(ev), NEW k \in Nat,
         InStream(n, n, s, ev, k), Rest(k, n, s, ev)
  PROVE  k = 0 /\ ~ReadEvent(s).ok
<1>1. k = 0
  BY DEF InStream
<1>2. CASE k = Len(s)
  <2>1. s = <<>>
    BY <1>1, <1>2
  <2> QED BY <1>1, <2>1, NothingRead
<1>3. CASE k # Len(s)
  <2> DEFINE w == WriteEvent(ev[n + 1])
  <2>1. n + 1 <= Len(ev) /\ Len(s) - 0 < Len(w) /\ \A i \in 1 .. Len(s) - 0 : s[0 + i] = w[i]
    BY <1>1, <1>3 DEF Rest
  <2>2. ev[n + 1] \in WireEvents
    BY <2>1
  <2>3. w \in Seq(Nat) /\ Len(w) \in Nat /\ Len(s) \in Nat
    BY <2>2, EventType
  <2> HIDE DEF w
  <2>4. Len(w) > Len(s) /\ Agree(s, w)
    BY <2>1, <2>3 DEF Agree
  <2> QED BY <1>1, <2>2, <2>4, EventRead DEF w
<1> QED BY <1>2, <1>3

-----------------------------------------------------------------------------
\* The invariant holds at first ...
LEMMA WireInitInv == WireInit => WireInv
<1> SUFFICES ASSUME WireInit PROVE WireInv
  OBVIOUS
<1>1. writtenEvents = <<>> /\ stream = <<>> /\ line = "open" /\ whole = 0 /\ receivedEvents = <<>>
  BY DEF WireInit
<1>2. Len(<<>>) = 0 /\ <<>> \in Seq(WireEvents) /\ <<>> \in Seq(Nat)
  OBVIOUS
<1> DEFINE f == [i \in 0 .. 0 |-> 0]
<1>3. f \in [0 .. 0 -> Nat] /\ f[0] = 0
  OBVIOUS
<1>4. EndsAt(f, 0, 0, <<>>, <<>>)
  BY DEF EndsAt
<1> HIDE DEF f
<1>5. InStream(0, 0, <<>>, <<>>, 0)
  BY <1>2, <1>3, <1>4 DEF InStream
<1>6. Rest(0, 0, <<>>, <<>>)
  BY <1>2 DEF Rest
<1>7. \E k \in Nat : /\ InStream(Len(receivedEvents), whole, stream, writtenEvents, k)
                     /\ line = "open" => k = Len(stream)
                     /\ Rest(k, whole, stream, writtenEvents)
  BY <1>1, <1>2, <1>5, <1>6
<1> QED BY <1>1, <1>2, <1>7 DEF WireInv

\* ... and every step keeps it: the guest sends, ...
LEMMA SendsKeeps ==
  ASSUME WireInv, NEW e \in WireEvents, GuestSends(e)
  PROVE  WireInv'
<1> DEFINE r == Len(receivedEvents)
           n == Len(writtenEvents)
<1>1. /\ line = "open" /\ writtenEvents' = Append(writtenEvents, e) /\ stream' = stream \o WriteEvent(e)
      /\ whole' = whole + 1 /\ line' = line /\ receivedEvents' = receivedEvents
  BY DEF GuestSends
<1>2. /\ writtenEvents \in Seq(WireEvents) /\ receivedEvents \in Seq(WireEvents) /\ stream \in Seq(Nat)
      /\ r <= n /\ whole = n /\ r \in Nat /\ n \in Nat
      /\ \A i \in 1 .. r : receivedEvents[i] = writtenEvents[i]
  BY <1>1 DEF WireInv
<1>3. InStream(r, n, stream, writtenEvents, Len(stream))
  BY <1>1, <1>2 DEF WireInv
<1>4. stream' \in Seq(Nat) /\ InStream(r, n + 1, stream', writtenEvents', Len(stream'))
  BY <1>1, <1>2, <1>3, StreamGrows
<1>5. writtenEvents' \in Seq(WireEvents) /\ Len(writtenEvents') = n + 1 /\ \A i \in 1 .. n : writtenEvents'[i] = writtenEvents[i]
  BY <1>1, <1>2
<1>6. Rest(Len(stream'), n + 1, stream', writtenEvents') /\ Len(stream') \in Nat
  BY <1>4 DEF Rest
<1> HIDE DEF r, n
<1>7. \A i \in 1 .. r : receivedEvents[i] = writtenEvents'[i]
  BY <1>2, <1>5
<1>8. Len(receivedEvents') = r /\ whole' = n + 1
  BY <1>1, <1>2 DEF r
<1>9. \E k \in Nat : /\ InStream(Len(receivedEvents'), whole', stream', writtenEvents', k)
                     /\ line' = "open" => k = Len(stream')
                     /\ Rest(k, whole', stream', writtenEvents')
  BY <1>4, <1>6, <1>8
<1> QED BY <1>1, <1>2, <1>4, <1>5, <1>7, <1>8, <1>9 DEF WireInv

\* ... it goes away, ...
LEMMA GoesKeeps ==
  ASSUME WireInv, GuestGoes
  PROVE  WireInv'
<1> DEFINE r == Len(receivedEvents)
<1>1. line = "open" /\ line' = "broken" /\ writtenEvents' = writtenEvents /\ receivedEvents' = receivedEvents
  BY DEF GuestGoes
<1>2. /\ writtenEvents \in Seq(WireEvents) /\ receivedEvents \in Seq(WireEvents) /\ stream \in Seq(Nat)
      /\ r <= whole /\ whole = Len(writtenEvents) /\ r \in Nat /\ whole \in Nat
      /\ \A i \in 1 .. r : receivedEvents[i] = writtenEvents[i]
  BY <1>1 DEF WireInv
<1>3. InStream(r, whole, stream, writtenEvents, Len(stream)) /\ Rest(Len(stream), whole, stream, writtenEvents)
  BY <1>1, <1>2 DEF WireInv
<1>4. CASE UNCHANGED <<stream, whole>>
  <2>1. \E k \in Nat : /\ InStream(Len(receivedEvents'), whole', stream', writtenEvents', k)
                       /\ line' = "open" => k = Len(stream')
                       /\ Rest(k, whole', stream', writtenEvents')
    <3>1. Len(stream) \in Nat
      BY <1>2
    <3> QED BY <1>1, <1>3, <1>4, <3>1
  <2> QED BY <1>1, <1>2, <1>4, <2>1 DEF WireInv
<1>5. CASE /\ whole > r /\ whole' = whole - 1
           /\ \E n \in 1 .. Len(WriteEvent(writtenEvents[whole])) : stream' = SubSeq(stream, 1, Len(stream) - n)
  <2>1. PICK n \in 1 .. Len(WriteEvent(writtenEvents[whole])) : stream' = SubSeq(stream, 1, Len(stream) - n)
    BY <1>5
  <2>2. r < whole /\ whole <= Len(writtenEvents)
    BY <1>2, <1>5
  <2>3. /\ stream' \in Seq(Nat)
        /\ \E k \in Nat : InStream(r, whole - 1, stream', writtenEvents, k) /\ Rest(k, whole - 1, stream', writtenEvents)
    BY <1>2, <1>3, <2>1, <2>2, StreamTears
  <2>4. whole' = whole - 1 /\ whole - 1 \in Nat /\ r <= whole - 1 /\ whole - 1 <= Len(writtenEvents)
    BY <1>2, <1>5, <2>2
  <2>5. \E k \in Nat : /\ InStream(Len(receivedEvents'), whole', stream', writtenEvents', k)
                       /\ line' = "open" => k = Len(stream')
                       /\ Rest(k, whole', stream', writtenEvents')
    BY <1>1, <2>3, <2>4
  <2> QED BY <1>1, <1>2, <2>3, <2>4, <2>5 DEF WireInv
<1> QED BY <1>4, <1>5 DEF GuestGoes

\* ... and the receiver reads.
LEMMA ReadsKeeps ==
  ASSUME WireInv, ReceiverReads
  PROVE  WireInv'
<1> DEFINE r == Len(receivedEvents)
           res == ReadEvent(stream)
<1>1. /\ line # "over" /\ (line = "broken" \/ stream # <<>>) /\ writtenEvents' = writtenEvents /\ whole' = whole
      /\ res.ok => receivedEvents' = Append(receivedEvents, res.event) /\ stream' = res.rest /\ line' = line
      /\ ~res.ok => line' = "over" /\ receivedEvents' = receivedEvents /\ stream' = stream
  BY DEF ReceiverReads
<1>2. /\ writtenEvents \in Seq(WireEvents) /\ receivedEvents \in Seq(WireEvents) /\ stream \in Seq(Nat)
      /\ r <= whole /\ whole <= Len(writtenEvents) /\ r \in Nat /\ whole \in Nat /\ line \in {"open", "broken", "over"}
      /\ (\A i \in 1 .. r : receivedEvents[i] = writtenEvents[i]) /\ (line = "open" => whole = Len(writtenEvents))
  BY DEF WireInv
<1>3. PICK k \in Nat : /\ InStream(r, whole, stream, writtenEvents, k) /\ (line = "open" => k = Len(stream))
                       /\ Rest(k, whole, stream, writtenEvents)
  BY DEF WireInv
<1> HIDE DEF res
<1>4. CASE r < whole
  <2> DEFINE e == writtenEvents[r + 1]
             w == WriteEvent(e)
             t == SubSeq(stream, Len(w) + 1, Len(stream))
  <2>1. r + 1 \in 1 .. Len(writtenEvents)
    BY <1>2, <1>4
  <2>2. e \in WireEvents
    BY <1>2, <2>1
  <2>3. /\ Agree(stream, w) /\ Len(w) <= Len(stream) /\ t \in Seq(Nat) /\ k - Len(w) \in Nat
        /\ InStream(r + 1, whole, t, writtenEvents, k - Len(w)) /\ Rest(k - Len(w), whole, t, writtenEvents)
        /\ k = Len(stream) => k - Len(w) = Len(t)
    <3>1. writtenEvents \in Seq(WireEvents) /\ stream \in Seq(Nat) /\ r \in Nat /\ whole \in Nat /\ whole <= Len(writtenEvents)
      BY <1>2
    <3>2. InStream(r, whole, stream, writtenEvents, k) /\ Rest(k, whole, stream, writtenEvents)
      BY <1>3
    <3> HIDE DEF r
    <3>3. NextIs(writtenEvents, stream, r, whole, k, w, t)
      BY <1>4, <3>1, <3>2, StreamShrinks
    <3> QED BY <3>3 DEF NextIs
  <2>4. res.ok /\ res.event = e /\ res.rest = t
    BY <1>2, <2>2, <2>3, EventRead DEF res
  <2>5. receivedEvents' = Append(receivedEvents, e) /\ stream' = t /\ line' = line
    BY <1>1, <2>4
  <2> HIDE DEF e, t, w, r
  <2>6. /\ receivedEvents' \in Seq(WireEvents) /\ Len(receivedEvents') = r + 1 /\ receivedEvents'[r + 1] = e
        /\ \A i \in 1 .. r : receivedEvents'[i] = receivedEvents[i]
    BY <1>2, <2>2, <2>5 DEF r
  <2>7. ASSUME NEW i \in 1 .. r + 1 PROVE receivedEvents'[i] = writtenEvents[i]
    <3>1. i = r + 1 \/ i \in 1 .. r
      BY <1>2
    <3> QED BY <1>2, <2>6, <3>1 DEF e
  <2>8. r + 1 <= whole
    BY <1>2, <1>4
  <2>9. \E l \in Nat : /\ InStream(Len(receivedEvents'), whole', stream', writtenEvents', l)
                       /\ line' = "open" => l = Len(stream')
                       /\ Rest(l, whole', stream', writtenEvents')
    BY <1>1, <1>3, <2>3, <2>5, <2>6
  <2> QED BY <1>1, <1>2, <2>3, <2>5, <2>6, <2>7, <2>8, <2>9 DEF WireInv
<1>5. CASE ~(r < whole)
  <2>1. r = whole
    BY <1>2, <1>5
  <2>2. k = 0 /\ ~res.ok
    BY <1>2, <1>3, <2>1, RestRefused DEF res
  <2>3. line' = "over" /\ receivedEvents' = receivedEvents /\ stream' = stream
    BY <1>1, <2>2
  <2>4. \E l \in Nat : /\ InStream(Len(receivedEvents'), whole', stream', writtenEvents', l)
                       /\ line' = "open" => l = Len(stream')
                       /\ Rest(l, whole', stream', writtenEvents')
    BY <1>1, <1>3, <2>3
  <2> QED BY <1>1, <1>2, <2>1, <2>3, <2>4 DEF WireInv
<1> QED BY <1>4, <1>5

\* Every step keeps the invariant.
LEMMA WireStep == WireInv /\ [WireNext]_wireVars => WireInv'
<1> SUFFICES ASSUME WireInv, [WireNext]_wireVars PROVE WireInv'
  OBVIOUS
<1>1. CASE UNCHANGED wireVars
  BY <1>1 DEF wireVars, WireInv
<1> QED BY <1>1, SendsKeeps, GoesKeeps, ReadsKeeps DEF WireNext

(***************************************************************************)
(* The receiver reads the events the agent wrote, in order, each with its  *)
(* ids, payload and metadata, until the guest goes away; it then has read  *)
(* every event that came through whole, and refuses the one that broke     *)
(* off, for every size of the fields, any events within the limits and     *)
(* wherever the stream breaks off.                                         *)
(***************************************************************************)
THEOREM EventsReadAsWritten == WireSpec => []ReadAsWritten
<1>1. ASSUME WireInv PROVE ReadAsWritten
  <2> DEFINE r == Len(receivedEvents)
             a == SubSeq(receivedEvents, 1, r)
             b == SubSeq(writtenEvents, 1, r)
  <2>1. /\ writtenEvents \in Seq(WireEvents) /\ receivedEvents \in Seq(WireEvents) /\ r <= whole
        /\ whole <= Len(writtenEvents) /\ whole \in Nat /\ r \in Nat /\ (line = "over" => r = whole)
        /\ \A i \in 1 .. r : receivedEvents[i] = writtenEvents[i]
    BY <1>1 DEF WireInv
  <2>2. a = receivedEvents
    BY <2>1
  <2>3. IsPrefix(receivedEvents, writtenEvents)
    <3>1. b \in Seq(WireEvents) /\ Len(b) = r /\ \A i \in 1 .. r : b[i] = writtenEvents[i]
      BY <2>1
    <3> HIDE DEF b
    <3>2. receivedEvents = b
      <4>1. Len(receivedEvents) = Len(b) /\ \A i \in 1 .. Len(receivedEvents) : receivedEvents[i] = b[i]
        BY <2>1, <3>1
      <4> QED BY <2>1, <3>1, <4>1, SameEntries
    <3>3. r <= Len(writtenEvents)
      BY <2>1
    <3> QED BY <2>2, <3>2, <3>3 DEF IsPrefix, b
  <2>4. TornIsRefused
    BY <2>1 DEF TornIsRefused
  <2>5. line = "over" => Len(receivedEvents) >= whole
    BY <2>1
  <2>6. (IF Len(receivedEvents) <= whole THEN Len(receivedEvents) ELSE whole) = r
    BY <2>1
  <2> QED BY <2>2, <2>3, <2>4, <2>5, <2>6 DEF ReadAsWritten, WrittenIsRead
<1> QED BY <1>1, WireInitInv, WireStep, PTL DEF WireSpec
==============================================================================
