----------------------------- MODULE PartsProofs -----------------------------
(***************************************************************************)
(* Proofs about the two parts that work by themselves: Rtt, for every      *)
(* delay of the link and every sample, and InputBuffer, for every buffer   *)
(* size and every way to cut the input into reads.                         *)
(***************************************************************************)
EXTENDS Rtt, InputBuffer, NatFacts, SequenceTheorems

(***************************************************************************)
(* Rtt.  The estimate never falls below the least it can be averaged down  *)
(* to: floor_of(delay), which is the delay rounded down to a multiple of   *)
(* 8, or the limit of the backoff if that is less.                         *)
(***************************************************************************)
floor_of(d) == MIN(8 * (d \div 8), DEFAULT_TIMEOUT \div 4)

Above(d) == {t \in Nat : t >= 2 * floor_of(d)}

RttInv ==
    /\ delay \in Nat /\ rtt \in Nat /\ rtt >= floor_of(delay)
    /\ timers \in Seq(Above(delay)) /\ timers # <<>>
    /\ cnt \in 0..(MAX_TIMEOUT_CNT + 1) /\ recovering \in BOOLEAN /\ silent \in Nat

\* A sample of at least the delay does not bring the average below the
\* floor: what the division of the old estimate loses, the division of the
\* sample has left.
LEMMA AverageAboveFloor ==
    ASSUME NEW d \in Nat, NEW r \in Nat, NEW s \in Nat, s >= d, r >= floor_of(d)
    PROVE  update_rtt(r, s) \in Nat /\ update_rtt(r, s) >= floor_of(d)
<1> DEFINE q == d \div 8
           m == floor_of(d)
<1>1. q \in Nat /\ s \div 8 >= q /\ 8 * q <= d
  OBVIOUS
<1>2. m \in Nat /\ m <= 8 * q
  BY RttAssumption DEF floor_of, MIN
<1>3. CASE r = 0
  BY <1>1, <1>2, <1>3 DEF update_rtt
<1>4. CASE r # 0
  <2>1. update_rtt(r, s) = (r * 7) \div 8 + s \div 8
    BY <1>4 DEF update_rtt
  <2> HIDE DEF m, q
  <2>2. (r * 7) \div 8 + q >= m
    BY <1>1, <1>2 DEF m
  <2> QED
    BY <1>1, <1>2, <2>1, <2>2 DEF m
<1> QED
  BY <1>3, <1>4

\* Doubling rtt after a timeout (ul_check_timeout) does not take it below.
LEMMA BackOffAboveFloor ==
    ASSUME NEW d \in Nat, NEW r \in Nat, r >= floor_of(d)
    PROVE  back_off(r) \in Nat /\ back_off(r) >= floor_of(d)
BY RttAssumption DEF back_off, floor_of, MIN

\* GET_RTO doubles, so the timer starts at twice the floor or more.
LEMMA RtoAboveFloor ==
    ASSUME NEW d \in Nat, NEW r \in Nat, r >= floor_of(d)
    PROVE  rto_of(r) \in Above(d)
BY RttAssumption DEF rto_of, floor_of, MIN, Above

\* A new upload (ul_init) starts at half of the default timeout, above any floor.
LEMMA FreshAboveFloor ==
    ASSUME NEW d \in Nat, NEW r, NEW t, Fresh(r, t)
    PROVE  /\ r \in Nat /\ r >= floor_of(d)
           /\ t \in Seq(Above(d)) /\ t # <<>>
<1>1. r \in Nat /\ r >= floor_of(d)
  BY RttAssumption DEF Fresh, floor_of, MIN
<1>2. rto_of(r) \in Above(d) /\ t = <<rto_of(r)>>
  BY <1>1, RtoAboveFloor DEF Fresh
<1> QED
  BY <1>1, <1>2

\* An ACK takes timers off the front, and what is sent adds some at the end.
LEMMA TimersMove ==
    ASSUME NEW X, NEW t \in Seq(X), NEW n \in 1..Len(t), NEW more \in Nat, NEW o \in X,
           Len(t) - n + more > 0
    PROVE  moved(t, n, more, o) \in Seq(X) /\ moved(t, n, more, o) # <<>>
<1> DEFINE a == SubSeq(t, n + 1, Len(t))
           b == [i \in 1..more |-> o]
<1>1. a \in Seq(X) /\ Len(a) = Len(t) - n
  <2>1. \A i \in (n + 1)..Len(t) : t[i] \in X
    BY ElementOfSeq
  <2>2. Len(t) \in Nat /\ n + 1 <= Len(t) + 1
    BY LenProperties
  <2> QED
    BY <2>1, <2>2, SubSeqProperties
<1>2. b \in Seq(X) /\ Len(b) = more
  OBVIOUS
<1> HIDE DEF a, b
<1>3. a \o b \in Seq(X) /\ Len(a \o b) = Len(a) + Len(b)
  BY <1>1, <1>2, ConcatProperties
<1>4. a \o b # <<>>
  BY <1>1, <1>2, <1>3, EmptySeq
<1> QED
  BY <1>3, <1>4 DEF a, b, moved

\* The first timer is one of them.
LEMMA FirstTimer ==
    ASSUME NEW d \in Nat, timers \in Seq(Above(d)), timers # <<>>
    PROVE  rto \in Nat /\ rto >= 2 * floor_of(d)
BY HeadTailProperties DEF rto, Above

LEMMA FirstAfter ==
    ASSUME RttInv' PROVE rto' \in Nat /\ rto' >= 2 * floor_of(delay')
<1>1. delay' \in Nat /\ timers' \in Seq(Above(delay')) /\ timers' # <<>>
  BY DEF RttInv
<1>2. Head(timers') \in Above(delay')
  BY <1>1, HeadTailProperties
<1> QED
  BY <1>2 DEF rto, Above

\* Every event of the timer keeps rtt and rto above the floor of the delay.
LEMMA RttInvKept == ASSUME RttInv, [RttNext]_rttvars PROVE RttInv'
<1>1. ASSUME NEW n \in DOMAIN timers, Acked(n) PROVE RttInv'
  <2>1. rtt' \in Nat /\ rtt' >= floor_of(delay) /\ delay' = delay
    BY <1>1, AverageAboveFloor DEF Acked, RttInv
  <2>2. recovering' \in BOOLEAN
    BY <1>1 DEF Acked, RttInv
  <2>3. cnt' \in 0..(MAX_TIMEOUT_CNT + 1) /\ silent' \in Nat
    BY <1>1, TimeoutAssumption DEF Acked
  <2>4. timers' \in Seq(Above(delay)) /\ timers' # <<>>
    <3>1. rto_of(rtt') \in Above(delay)
      BY <2>1, RtoAboveFloor DEF RttInv
    <3>2. PICK more \in 0..FLIGHT :
             /\ Len(timers) - n + more \in 1..FLIGHT
             /\ timers' = moved(timers, n, more, rto_of(rtt'))
      BY <1>1 DEF Acked
    <3>3. timers \in Seq(Above(delay)) /\ n \in 1..Len(timers)
      BY <1>1, LenProperties DEF RttInv
    <3>4. more \in Nat /\ Len(timers) - n + more > 0
      BY <3>2, RttAssumption
    <3> QED
      BY <3>1, <3>2, <3>3, <3>4, TimersMove
  <2> QED
    BY <2>1, <2>2, <2>3, <2>4 DEF RttInv
<1>2. ASSUME NEW wait \in Waits, Repeated(wait) PROVE RttInv'
  <2>1. delay + wait \in Nat /\ delay + wait >= delay
    BY RttAssumption DEF RttInv
  <2>2. rtt' \in Nat /\ rtt' >= floor_of(delay) /\ UNCHANGED <<delay, cnt, silent>>
    BY <1>2, <2>1, AverageAboveFloor DEF Repeated, RttInv
  <2>3. timers' = timers \/ timers' = <<rto_of(rtt')>>
    BY <1>2 DEF Repeated
  <2>4. recovering' \in BOOLEAN
    BY <1>2 DEF Repeated, RttInv
  <2>5. timers' \in Seq(Above(delay)) /\ timers' # <<>>
    <3>1. rto_of(rtt') \in Above(delay)
      BY <2>2, RtoAboveFloor DEF RttInv
    <3>2. timers \in Seq(Above(delay)) /\ timers # <<>>
      BY DEF RttInv
    <3>3. CASE timers' = timers
      BY <3>2, <3>3
    <3>4. CASE timers' = <<rto_of(rtt')>>
      BY <3>1, <3>4
    <3> QED
      BY <2>3, <3>3, <3>4
  <2> QED
    BY <2>2, <2>4, <2>5 DEF RttInv
<1>3. CASE TimesOut
  <2>1. /\ rtt' \in Nat /\ rtt' >= floor_of(delay)
        /\ timers' = <<rto_of(rtt')>> /\ delay' = delay
    BY <1>3, BackOffAboveFloor DEF TimesOut, RttInv
  <2>2. cnt' \in 0..(MAX_TIMEOUT_CNT + 1) /\ silent' \in Nat /\ recovering' \in BOOLEAN
    BY <1>3, FirstTimer, TimeoutAssumption DEF TimesOut, given_up, RttInv
  <2>3. timers' \in Seq(Above(delay)) /\ timers' # <<>>
    BY <2>1, RtoAboveFloor DEF RttInv
  <2> QED
    BY <2>1, <2>2, <2>3 DEF RttInv
<1>4. CASE StartsAgain
  <2>1. recovering' \in BOOLEAN
    BY <1>4 DEF StartsAgain
  <2>2. cnt' \in 0..(MAX_TIMEOUT_CNT + 1) /\ silent' \in Nat
    BY <1>4, TimeoutAssumption DEF StartsAgain
  <2>3. delay \in Nat /\ delay' = delay /\ Fresh(rtt', timers')
    BY <1>4 DEF StartsAgain, RttInv
  <2> QED
    BY <2>1, <2>2, <2>3, FreshAboveFloor DEF RttInv
<1>5. CASE UNCHANGED rttvars
  BY <1>5 DEF rttvars, RttInv
<1> QED
  BY <1>1, <1>2, <1>3, <1>4, <1>5 DEF RttNext

\* The floor holds in every state.
LEMMA RttAlways == RttSpec => []RttInv
<1>1. RttInit => RttInv
  <2>1. SUFFICES ASSUME RttInit PROVE RttInv
    OBVIOUS
  <2>2. recovering \in BOOLEAN
    BY <2>1 DEF RttInit
  <2>3. cnt \in 0..(MAX_TIMEOUT_CNT + 1) /\ silent \in Nat
    BY <2>1, TimeoutAssumption DEF RttInit
  <2>4. delay \in Nat /\ Fresh(rtt, timers)
    BY <2>1, RttAssumption DEF RttInit
  <2> QED
    BY <2>2, <2>3, <2>4, FreshAboveFloor DEF RttInv
<1>2. RttInv /\ [RttNext]_rttvars => RttInv'
  BY RttInvKept
<1> QED
  BY <1>1, <1>2, PTL DEF RttSpec

\* On every link of 8 ms to twice the limit of the backoff, and for every
\* sequence of samples and timeouts, the timer leaves the answer its time.
THEOREM RttCoversDelay == RttSpec => []RtoCoversDelay
<1>1. RttInv => RtoCoversDelay
  <2>1. SUFFICES ASSUME RttInv, delay \in 8..(2 * (DEFAULT_TIMEOUT \div 4)),
                        NEW i \in DOMAIN timers
                 PROVE  timers[i] >= delay
    BY DEF RtoCoversDelay
  <2>2. timers[i] \in Above(delay)
    BY <2>1, ElementOfSeq, LenProperties DEF RttInv
  <2>3. /\ delay \in Nat /\ timers[i] \in Nat /\ timers[i] >= 2 * floor_of(delay)
        /\ delay >= 8 /\ delay <= 2 * (DEFAULT_TIMEOUT \div 4)
    BY <2>2, <2>1, RttAssumption DEF RttInv, Above
  <2>4. 2 * floor_of(delay) >= delay
    BY <2>3, RttAssumption DEF floor_of, MIN
  <2> QED
    BY <2>3, <2>4, RttAssumption DEF floor_of, MIN
<1> QED
  BY <1>1, RttAlways, PTL

-----------------------------------------------------------------------------
(***************************************************************************)
(* How long an upload lasts without an ACK.  Each timeout in a row doubles *)
(* what the next one waits, as long as the limit of the backoff allows.    *)
(* The first one counts for nothing: its timer was set before the ACK.     *)
(***************************************************************************)
\* after n timeouts in a row the estimate is at least r, and the first of them
\* was at least s ago
After(n, r, s) == cnt = n => rtt >= r /\ rto >= 2 * r /\ silent >= s

Doubling ==
    /\ cnt > 0 => recovering
    /\ After(0, 8, 0) /\ After(1, 16, 0) /\ After(2, 32, 32) /\ After(3, 64, 96)
    /\ After(4, 128, 224) /\ After(5, 256, 480)
    /\ cnt >= 6 => silent >= 992

Slow == delay >= 8 => Doubling

\* The doubling of the timer is kept by every event: each timeout in a row
\* waits at least twice as long as the one before.
LEMMA SlowKept ==
    ASSUME DEFAULT_TIMEOUT >= 1024, RttInv, Slow, [RttNext]_rttvars
    PROVE  Slow'
<1>0. RttInv'
  BY RttInvKept
<1>1. /\ delay \in Nat /\ rtt \in Nat /\ rto \in Nat /\ cnt \in Nat /\ silent \in Nat
      /\ delay' \in Nat /\ rtt' \in Nat /\ rto' \in Nat
      /\ delay >= 8 => floor_of(delay) \in Nat /\ floor_of(delay) >= 8
  <2>1. rto \in Nat
    BY FirstTimer DEF RttInv
  <2>2. rto' \in Nat
    BY <1>0, FirstAfter
  <2> QED
    BY <1>0, <2>1, <2>2, RttAssumption, TimeoutAssumption DEF RttInv, floor_of, MIN
<1>2. delay' = delay
  BY DEF RttNext, Acked, Repeated, TimesOut, StartsAgain, rttvars
<1>3. SUFFICES ASSUME delay >= 8, Doubling PROVE Doubling'
  BY <1>2 DEF Slow
<1>4. rtt' >= 8 /\ rto' >= 16
  <2>1. rtt' >= floor_of(delay) /\ rto' >= 2 * floor_of(delay)
    BY <1>0, <1>2, FirstAfter DEF RttInv
  <2> QED
    BY <1>1, <1>3, <2>1
<1>5. CASE (\E n \in DOMAIN timers : Acked(n)) \/ StartsAgain
  <2>1. cnt' = 0 /\ silent' = 0
    BY <1>5 DEF Acked, StartsAgain
  <2> QED
    BY <1>1, <1>4, <2>1 DEF Doubling, After
<1>6. ASSUME NEW wait \in Waits, Repeated(wait) PROVE Doubling'
  <2>1. cnt = 0 /\ cnt' = 0 /\ silent' = silent
    BY <1>1, <1>3, <1>6 DEF Repeated, Doubling
  <2> QED
    BY <1>1, <1>4, <2>1 DEF Doubling, After
<1>7. CASE TimesOut
  <2>1. /\ cnt' = cnt + 1 /\ recovering'
        /\ silent' = IF cnt = 0 THEN 0 ELSE silent + rto
        /\ rtt' = back_off(rtt) /\ rto' = rto_of(rtt')
    BY <1>7, HeadTailProperties DEF TimesOut, rto
  <2>2. /\ rtt' >= 2 * rtt \/ rtt' >= 256
        /\ rto' >= 2 * rtt'
    BY <1>1, <2>1, RttAssumption DEF back_off, rto_of, MIN
  <2> QED
    BY <1>1, <1>3, <2>1, <2>2 DEF Doubling, After
<1>8. CASE UNCHANGED rttvars
  BY <1>3, <1>8 DEF rttvars, Doubling, After, rto
<1> QED
  BY <1>5, <1>6, <1>7, <1>8 DEF RttNext

\* With the program's limits or larger ones, an upload on a link of 8 ms or
\* more is given up no sooner than 992 ms after the first of its timeouts in
\* a row, and so after the last ACK that confirmed anything.
THEOREM RttGivesUpSlowly ==
    ASSUME DEFAULT_TIMEOUT >= 1024, MAX_TIMEOUT_CNT >= 5
    PROVE  RttSpec => []GivesUpSlowly
<1>1. RttInit => Slow
  BY RttAssumption DEF RttInit, Fresh, rto_of, Slow, Doubling, After, rto
<1>2. RttInv /\ Slow /\ [RttNext]_rttvars => Slow'
  BY SlowKept
<1>3. RttInv /\ Slow => GivesUpSlowly
  BY TimeoutAssumption DEF RttInv, Slow, Doubling, GivesUpSlowly, given_up
<1> QED
  BY <1>1, <1>2, <1>3, RttAlways, PTL DEF RttSpec

(***************************************************************************)
(* InputBuffer.  memmove leaves the last cells of the buffer as they were. *)
(* As long as the text never filled more than half of it, those cells are  *)
(* behind every text there was and hold NULs, so the buffer is Clean: text *)
(* up to cur, NULs from there on.                                          *)
(***************************************************************************)
Characters == {NL, NUL, 1, 2, 3}

\* what is in the buffer and not yet handled
Text(b, n) == [p \in 1..n |-> b[p - 1]]

\* the buffer was never more than half full
Low == 2 * high <= USERBUF_SIZE + 1

Clean ==
    /\ cur \in 0..high
    /\ \A p \in Cells : p < cur => buf[p] # NUL
    /\ \A p \in Cells : p >= cur => buf[p] = NUL
    /\ handled \o Text(buf, cur) = input
    /\ ~scanning => \A p \in Cells : p < cur => buf[p] # NL

IbTypes ==
    /\ buf \in [Cells -> Characters] /\ cur \in Int /\ high \in Nat
    /\ scanning \in BOOLEAN
    /\ input \in Seq(Characters) /\ handled \in Seq(Characters)

IbInv == IbTypes /\ (Low => Clean)

\* Part of the buffer is text.
LEMMA TextIsSeq ==
    ASSUME NEW b \in [Cells -> Characters], NEW n \in 0..(USERBUF_SIZE + 1)
    PROVE  /\ Text(b, n) \in Seq(Characters) /\ Len(Text(b, n)) = n
           /\ \A p \in 1..n : Text(b, n)[p] = b[p - 1]
<1>1. \A p \in 1..n : p - 1 \in Cells
  BY InputAssumption DEF Cells
<1>2. n \in Nat
  BY InputAssumption
<1> QED
  BY <1>1, <1>2 DEF Text

\* An empty buffer, as create_userbuf leaves it.
LEMMA EmptyBuffer ==
    /\ create_userbuf \in [Cells -> Characters]
    /\ \A p \in Cells : create_userbuf[p] = NUL /\ ~(p < 0) /\ p >= 0
    /\ <<>> \o Text(create_userbuf, 0) = <<>> /\ <<>> \in Seq(Characters)
<1>1. create_userbuf \in [Cells -> Characters] /\ \A p \in Cells : create_userbuf[p] = NUL
  BY DEF create_userbuf, Characters
<1>2. \A p \in Cells : ~(p < 0) /\ p >= 0
  BY InputAssumption DEF Cells
<1>3. Text(create_userbuf, 0) = <<>>
  BY DEF Text
<1> QED
  BY <1>1, <1>2, <1>3

\* A read appends to the text, and to the NULs behind it nothing.
LEMMA ReadKeeps ==
    ASSUME IbInv, NEW n \in 1..USERBUF_SIZE, NEW ends \in SUBSET (1..n), ReadInput(n, ends)
    PROVE  IbInv'
<1> DEFINE char(i) == IF i \in ends THEN NL ELSE Char(Len(input) + i)
           added == [i \in 1..n |-> char(i)]
<1>1. USERBUF_SIZE \in Nat \ {0} /\ cur \in 0..(USERBUF_SIZE - 2) /\ n <= USERBUF_SIZE - cur
  BY InputAssumption DEF ReadInput
<1>2. IbTypes
  BY DEF IbInv
<1>3. Len(input) \in Nat
  BY <1>2, LenProperties DEF IbTypes
<1>4. \A i \in 1..n : char(i) \in {NL, 1, 2, 3}
  <2>1. \A k \in Nat : Char(k) \in {1, 2, 3}
    BY DEF Char
  <2>2. \A i \in 1..n : Len(input) + i \in Nat
    BY <1>3
  <2> QED
    BY <2>1, <2>2
<1>5. /\ buf' = [p \in Cells |-> IF p \in cur..(cur + n - 1) THEN char(p - cur + 1) ELSE buf[p]]
      /\ input' = input \o added
      /\ cur' = cur + n /\ high' = IF cur' > high THEN cur' ELSE high
      /\ scanning' = TRUE /\ handled' = handled
  BY DEF ReadInput
<1> HIDE DEF char
<1>6. \A i \in 1..n : char(i) \in Characters /\ char(i) # NUL
  BY <1>4 DEF Characters, NL, NUL
<1>7. added \in Seq(Characters) /\ Len(added) = n /\ \A i \in 1..n : added[i] = char(i)
  BY <1>1, <1>6
<1> HIDE DEF added
<1>8. \A p \in Cells : p \in cur..(cur + n - 1) => p - cur + 1 \in 1..n
  BY <1>1 DEF Cells
<1>9. IbTypes'
  <2>1. buf' \in [Cells -> Characters]
    BY <1>2, <1>5, <1>6, <1>8 DEF IbTypes
  <2>2. input' \in Seq(Characters) /\ handled' \in Seq(Characters)
    BY <1>2, <1>5, <1>7, ConcatProperties DEF IbTypes
  <2>3. cur' \in Int /\ high' \in Nat
    BY <1>1, <1>2, <1>5 DEF IbTypes
  <2>4. scanning' \in BOOLEAN
    BY <1>5
  <2> QED
    BY <2>1, <2>2, <2>3, <2>4 DEF IbTypes
<1>10. ASSUME Low' PROVE Clean'
  <2>1. high \in Nat /\ high <= high' /\ cur' \in 0..high'
    BY <1>1, <1>2, <1>5 DEF IbTypes
  <2>2. Low
    BY <1>1, <1>5, <1>10, <2>1 DEF Low
  <2>3. Clean
    BY <2>2 DEF IbInv
  <2>4. ASSUME NEW p \in Cells, p < cur' PROVE buf'[p] # NUL
    <3>1. CASE p \in cur..(cur + n - 1)
      BY <3>1, <1>5, <1>6, <1>8
    <3>2. CASE p \notin cur..(cur + n - 1)
      <4>1. p < cur
        BY <3>2, <2>4, <1>1, <1>5 DEF Cells
      <4> QED
        BY <4>1, <3>2, <2>3, <1>5 DEF Clean
    <3> QED
      BY <3>1, <3>2
  <2>5. ASSUME NEW p \in Cells, p >= cur' PROVE buf'[p] = NUL
    <3>1. p \notin cur..(cur + n - 1) /\ p >= cur
      BY <2>5, <1>1, <1>5 DEF Cells
    <3> QED
      BY <3>1, <2>3, <1>5 DEF Clean
  <2>6. Text(buf', cur') = Text(buf, cur) \o added
    <3>1. cur \in 0..(USERBUF_SIZE + 1) /\ cur' \in 0..(USERBUF_SIZE + 1)
      BY <1>1, <1>5
    <3>2. /\ Text(buf, cur) \in Seq(Characters) /\ Len(Text(buf, cur)) = cur
          /\ \A p \in 1..cur : Text(buf, cur)[p] = buf[p - 1]
      BY <1>2, <3>1, TextIsSeq DEF IbTypes
    <3>3. /\ Text(buf', cur') \in Seq(Characters) /\ Len(Text(buf', cur')) = cur'
          /\ \A p \in 1..cur' : Text(buf', cur')[p] = buf'[p - 1]
      BY <1>9, <3>1, TextIsSeq DEF IbTypes
    <3> DEFINE old == Text(buf, cur)
               new == Text(buf', cur')
    <3> HIDE DEF old, new
    <3>4. /\ old \o added \in Seq(Characters) /\ Len(old \o added) = cur'
      BY <3>2, <1>1, <1>5, <1>7, ConcatProperties DEF old
    <3>5. ASSUME NEW p \in 1..cur' PROVE new[p] = (old \o added)[p]
      <4>0. p - 1 \in Cells
        BY <1>1, <1>5 DEF Cells
      <4>1. CASE p <= cur
        <5>1. (old \o added)[p] = old[p] /\ p \in 1..cur
          BY <4>1, <3>2, <1>7, <1>1, <1>5, ConcatProperties DEF old
        <5>2. p - 1 \notin cur..(cur + n - 1)
          BY <4>1, <1>1
        <5> QED
          BY <5>1, <5>2, <4>0, <3>2, <3>3, <1>5 DEF old, new
      <4>2. CASE p > cur
        <5>1. (old \o added)[p] = added[p - cur] /\ p - cur \in 1..n
          BY <4>2, <3>2, <1>7, <1>1, <1>5, ConcatProperties DEF old
        <5>2. p - 1 \in cur..(cur + n - 1) /\ p - 1 - cur + 1 = p - cur
          BY <4>2, <1>1, <1>5
        <5> QED
          BY <5>1, <5>2, <4>0, <3>3, <1>5, <1>7 DEF new
      <4>3. p <= cur \/ p > cur
        BY <1>1, <1>5
      <4> QED
        BY <4>1, <4>2, <4>3, Zenon
    <3> QED
      BY <3>3, <3>4, <3>5, SeqEqual DEF old, new
  <2>7. handled' \o Text(buf', cur') = input'
    <3>1. /\ Text(buf, cur) \in Seq(Characters)
      <4>1. cur \in 0..(USERBUF_SIZE + 1)
        BY <1>1
      <4> QED
        BY <4>1, <1>2, TextIsSeq DEF IbTypes
    <3>2. handled \o (Text(buf, cur) \o added) = (handled \o Text(buf, cur)) \o added
      BY <3>1, <1>2, <1>7, ConcatAssociative, SMTT(30) DEF IbTypes
    <3>3. handled \o Text(buf, cur) = input
      BY <2>3 DEF Clean
    <3> QED
      BY <3>2, <3>3, <2>6, <1>5
  <2>8. scanning'
    BY <1>5
  <2> QED
    BY <2>1, <2>4, <2>5, <2>7, <2>8 DEF Clean
<1> QED
  BY <1>9, <1>10 DEF IbInv

\* Taking a line out: the text moves to the front, and the cells that memmove
\* leaves alone were NULs already.
LEMMA LineKeeps ==
    ASSUME IbInv, HandleLine
    PROVE  IbInv'
<1>1. USERBUF_SIZE \in Nat \ {0} /\ IbTypes
  BY InputAssumption DEF IbInv
<1> DEFINE U == USERBUF_SIZE
<1>2. PICK ret \in Cells :
          /\ strchr(ret)
          /\ handled' = handled \o [i \in 1..(ret + 1) |-> buf[i - 1]]
          /\ buf' = memmove([buf EXCEPT ![ret] = NUL], ret)
          /\ cur' = cur - (ret + 1)
  BY DEF HandleLine
<1>3. UNCHANGED <<scanning, input, high>> /\ scanning
  BY DEF HandleLine
<1>4. ret \in 0..U
  BY DEF Cells
<1> DEFINE b == [buf EXCEPT ![ret] = NUL]
           line == Text(buf, ret + 1)
<1>5. b \in [Cells -> Characters] /\ \A p \in Cells : b[p] = IF p = ret THEN NUL ELSE buf[p]
  BY <1>1 DEF IbTypes, Characters
<1>6. buf' = memmove(b, ret) /\ handled' = handled \o line
  BY <1>2 DEF Text
<1> HIDE DEF b
<1>7. \A p \in Cells : p < U - ret => p + ret + 1 \in Cells /\ p + ret + 1 # ret
  BY <1>1, <1>4 DEF Cells
<1>8. \A p \in Cells : buf'[p] = IF p < U - ret THEN buf[p + ret + 1] ELSE b[p]
  <2>1. \A p \in Cells : buf'[p] = IF p < U - ret THEN b[p + ret + 1] ELSE b[p]
    BY <1>6 DEF memmove
  <2> QED
    BY <2>1, <1>5, <1>7
<1>9. buf' \in [Cells -> Characters]
  BY <1>5, <1>6, <1>7 DEF memmove
<1>10. line \in Seq(Characters) /\ Len(line) = ret + 1
       /\ \A p \in 1..(ret + 1) : line[p] = buf[p - 1]
  <2>1. ret + 1 \in 0..(U + 1)
    BY <1>1, <1>4
  <2>2. buf \in [Cells -> Characters]
    BY <1>1 DEF IbTypes
  <2> QED
    BY <2>1, <2>2, TextIsSeq
<1> HIDE DEF line
<1>11. IbTypes'
  <2>1. handled' \in Seq(Characters)
    BY <1>1, <1>6, <1>10, ConcatProperties DEF IbTypes
  <2>2. cur' \in Int
    BY <1>1, <1>2, <1>4 DEF IbTypes
  <2>3. input' \in Seq(Characters) /\ high' \in Nat /\ scanning' \in BOOLEAN
    BY <1>1, <1>3 DEF IbTypes
  <2> QED
    BY <2>1, <2>2, <2>3, <1>9 DEF IbTypes
<1>12. ASSUME Low' PROVE Clean'
  <2>1. Low
    BY <1>3, <1>12 DEF Low
  <2>2. Clean
    BY <2>1 DEF IbInv
  <2>3. cur \in 0..high /\ high \in Nat /\ 2 * high <= U + 1 /\ cur \in 0..U
    BY <2>1, <2>2, <1>1 DEF Clean, Low, IbTypes
  <2>4. ret < cur
    <3>1. buf[ret] # NUL
      BY <1>2 DEF strchr, NL, NUL
    <3> QED
      BY <3>1, <2>2, <2>3, <1>4, <1>1 DEF Clean
  <2>5. cur' \in 0..high' /\ cur' <= U
    BY <2>3, <2>4, <1>1, <1>2, <1>3, <1>4
  <2>6. ASSUME NEW p \in Cells, p < cur' PROVE buf'[p] # NUL
    <3>1. p + ret + 1 < cur /\ p < U - ret
      BY <2>3, <2>4, <2>6, <1>1, <1>2, <1>4 DEF Cells
    <3> QED
      BY <3>1, <2>2, <1>7, <1>8 DEF Clean
  <2>7. ASSUME NEW p \in Cells, p >= cur' PROVE buf'[p] = NUL
    <3>1. CASE p < U - ret
      <4>1. p + ret + 1 >= cur
        BY <2>3, <2>7, <1>1, <1>2, <1>4 DEF Cells
      <4> QED
        BY <3>1, <4>1, <2>2, <1>7, <1>8 DEF Clean
    <3>2. CASE ~(p < U - ret)
      <4>1. p >= cur
        BY <3>2, <2>3, <2>4, <1>1, <1>4 DEF Cells
      <4>2. buf[p] = NUL
        BY <4>1, <2>2 DEF Clean
      <4>3. buf'[p] = b[p]
        BY <3>2, <1>8
      <4> QED
        BY <4>2, <4>3, <1>5
    <3> QED
      BY <3>1, <3>2
  <2> DEFINE old == Text(buf, cur)
             new == Text(buf', cur')
  <2>8. /\ old \in Seq(Characters) /\ Len(old) = cur
        /\ \A p \in 1..cur : old[p] = buf[p - 1]
    <3>1. cur \in 0..(U + 1) /\ buf \in [Cells -> Characters]
      BY <2>3, <1>1 DEF IbTypes
    <3> QED
      BY <3>1, TextIsSeq
  <2>9. /\ new \in Seq(Characters) /\ Len(new) = cur'
        /\ \A p \in 1..cur' : new[p] = buf'[p - 1]
    <3>1. cur' \in 0..(U + 1)
      BY <2>5, <2>3, <1>1, <1>3
    <3> QED
      BY <3>1, <1>9, TextIsSeq
  <2> HIDE DEF old, new
  <2>10. old = line \o new
    <3>1. /\ line \o new \in Seq(Characters) /\ Len(line \o new) = cur
      <4>1. /\ line \o new \in Seq(Characters) /\ Len(line \o new) = Len(line) + Len(new)
        BY <2>9, <1>10, ConcatProperties
      <4>2. Len(line) + Len(new) = cur
        BY <2>9, <2>3, <1>2, <1>4, <1>10
      <4> QED
        BY <4>1, <4>2
    <3>2. ASSUME NEW p \in 1..cur PROVE old[p] = (line \o new)[p]
      <4>1. CASE p <= ret + 1
        <5>1. (line \o new)[p] = line[p] /\ p \in 1..(ret + 1)
          BY <4>1, <2>9, <2>3, <1>2, <1>4, <1>10, ConcatProperties
        <5> QED
          BY <5>1, <2>8, <1>10
      <4>2. CASE p > ret + 1
        <5>1. (line \o new)[p] = new[p - (ret + 1)]
          BY <4>2, <2>9, <2>3, <1>2, <1>4, <1>10, ConcatProperties, SMTT(30)
        <5>2. /\ p - (ret + 1) \in 1..cur' /\ p - (ret + 1) - 1 \in Cells
              /\ p - (ret + 1) - 1 < U - ret
              /\ (p - (ret + 1) - 1) + ret + 1 = p - 1
          BY <4>2, <2>3, <1>1, <1>2, <1>4 DEF Cells
        <5>3. new[p - (ret + 1)] = buf'[p - (ret + 1) - 1]
          BY <5>2, <2>9
        <5>4. buf'[p - (ret + 1) - 1] = buf[p - 1]
          BY <5>2, <1>8
        <5> QED
          BY <5>1, <5>3, <5>4, <2>8
      <4>3. p <= ret + 1 \/ p > ret + 1
        BY <2>3, <1>4
      <4> QED
        BY <4>1, <4>2, <4>3, Zenon
    <3> QED
      BY <3>1, <3>2, <2>8, SeqEqual
  <2>11. handled' \o new = input'
    <3>1. (handled \o line) \o new = handled \o (line \o new)
      <4>1. handled \in Seq(Characters) /\ line \in Seq(Characters) /\ new \in Seq(Characters)
        BY <2>9, <1>1, <1>10 DEF IbTypes
      <4> QED
        BY <4>1, ConcatAssociative
    <3>2. handled \o old = input
      BY <2>2 DEF Clean, old
    <3> QED
      BY <3>1, <3>2, <2>10, <1>3, <1>6
  <2>12. scanning'
    BY <1>3
  <2> QED
    BY <2>5, <2>6, <2>7, <2>11, <2>12 DEF Clean, new
<1> QED
  BY <1>11, <1>12 DEF IbInv

\* The loop ends only when the text has no NL: strchr finds the first one if
\* there is any, since no NUL stands before it.
LEMMA LoopEndKeeps ==
    ASSUME IbInv, NoMoreLines
    PROVE  IbInv'
<1>1. /\ UNCHANGED <<buf, cur, input, handled, high>> /\ scanning' = FALSE
      /\ ~\E ret \in Cells : strchr(ret)
  BY DEF NoMoreLines
<1>2. IbTypes'
  <2>1. scanning' \in BOOLEAN
    BY <1>1
  <2> QED
    BY <2>1, <1>1 DEF IbInv, IbTypes
<1>3. ASSUME Low' PROVE Clean'
  <2>1. Clean
    BY <1>1, <1>3 DEF IbInv, Low
  <2>2. ASSUME NEW p \in Cells, p < cur, buf[p] = NL PROVE FALSE
    <3> DEFINE Ends == {q \in Cells : q < cur /\ buf[q] = NL}
    <3>1. p \in Ends /\ Ends \subseteq Nat
      BY <2>2 DEF Cells
    <3>2. PICK ret \in Ends : \A q \in Ends : ret <= q
      <4> HIDE DEF Ends
      <4> QED
        BY <3>1, LeastElement
    <3>3. ret \in Cells /\ ret < cur /\ buf[ret] = NL /\ ret \in 0..USERBUF_SIZE
      BY <3>2 DEF Cells
    <3>4. ASSUME NEW q \in 0..(ret - 1) PROVE buf[q] \notin {NL, NUL}
      <4>1. q \in Cells /\ q < cur /\ ~(ret <= q)
        BY <3>3, InputAssumption DEF Cells, IbInv, IbTypes
      <4>2. buf[q] # NUL
        BY <4>1, <2>1 DEF Clean
      <4>3. q \notin Ends
        BY <4>1, <3>2
      <4> QED
        BY <4>1, <4>2, <4>3
    <3>5. strchr(ret)
      BY <3>3, <3>4 DEF strchr
    <3> QED
      BY <3>3, <3>5, <1>1
  <2>3. \A p \in Cells : p < cur => buf[p] # NL
    BY <2>2
  <2> QED
    BY <2>1, <2>3, <1>1 DEF Clean
<1> QED
  BY <1>2, <1>3 DEF IbInv

\* The invariant is inductive.
THEOREM InputInvariant == InputSpec => []IbInv
<1>1. InputInit => IbInv
  <2> SUFFICES ASSUME InputInit PROVE IbInv
    OBVIOUS
  <2>1. /\ buf = create_userbuf /\ cur = 0 /\ scanning = FALSE
        /\ input = <<>> /\ handled = <<>> /\ high = 0
    BY DEF InputInit
  <2>2. IbTypes
    <3>1. scanning \in BOOLEAN
      BY <2>1
    <3>2. cur \in Int /\ high \in Nat
      BY <2>1
    <3> QED
      BY <3>1, <3>2, <2>1, EmptyBuffer, Zenon DEF IbTypes
  <2>3. Clean
    BY <2>1, EmptyBuffer DEF Clean
  <2> QED
    BY <2>2, <2>3 DEF IbInv
<1>2. IbInv /\ [InputNext]_inputvars => IbInv'
  <2> SUFFICES ASSUME IbInv, [InputNext]_inputvars PROVE IbInv'
    OBVIOUS
  <2>1. CASE \E n \in 1..USERBUF_SIZE : \E ends \in SUBSET (1..n) : ReadInput(n, ends)
    BY <2>1, ReadKeeps
  <2>2. CASE HandleLine
    BY <2>2, LineKeeps
  <2>3. CASE NoMoreLines
    BY <2>3, LoopEndKeeps
  <2>4. CASE InputTooLong
    <3>1. /\ buf' = create_userbuf /\ cur' = 0 /\ scanning' = FALSE
          /\ input' = <<>> /\ handled' = <<>> /\ high' = 0
      BY <2>4 DEF InputTooLong
    <3>2. IbTypes'
      <4>1. scanning' \in BOOLEAN
        BY <3>1
      <4>2. cur' \in Int /\ high' \in Nat
        BY <3>1
      <4> QED
        BY <4>1, <4>2, <3>1, EmptyBuffer, Zenon DEF IbTypes
    <3>3. Clean'
      BY <3>1, EmptyBuffer DEF Clean
    <3> QED
      BY <3>2, <3>3 DEF IbInv
  <2>5. CASE UNCHANGED inputvars
    BY <2>5 DEF inputvars, IbInv, IbTypes, Low, Clean
  <2> QED
    BY <2>1, <2>2, <2>3, <2>4, <2>5 DEF InputNext, EndOfInput
<1> QED
  BY <1>1, <1>2, PTL DEF InputSpec

\* LinesAsTyped, for every buffer size: process_user_input handles what was
\* typed, once and in order, as long as the buffer was never more than half
\* full.
THEOREM InputLines == InputSpec => []LinesAsTyped
<1>1. IbInv => LinesAsTyped
  <2> SUFFICES ASSUME IbInv, ~scanning, 2 * high <= USERBUF_SIZE + 1
               PROVE  /\ cur >= 0
                      /\ handled \o [p \in 1..cur |-> buf[p - 1]] = input
                      /\ \A p \in 1..cur : buf[p - 1] # NL
    BY DEF LinesAsTyped
  <2>1. Clean /\ IbTypes
    BY DEF IbInv, Low
  <2>2. cur \in 0..high /\ high \in Nat /\ USERBUF_SIZE \in Nat \ {0}
    BY <2>1, InputAssumption DEF Clean, IbTypes
  <2>3. \A p \in 1..cur : p - 1 \in Cells /\ p - 1 < cur
    BY <2>2 DEF Cells
  <2> QED
    BY <2>1, <2>2, <2>3 DEF Clean, Text
<1> QED
  BY <1>1, InputInvariant, PTL
=============================================================================
