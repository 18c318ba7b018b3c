-------------------------------- MODULE Rtt ---------------------------------
(***************************************************************************)
(* The numbers behind the sender's timer, in milliseconds: the estimate    *)
(* rtt that update_rtt keeps in integers, the timeout rto made of it, and  *)
(* the backoff when the timer runs out (util.c, util.h, upload.c).  Upload *)
(* leaves them out: there a timer is due or not.                           *)
(*                                                                         *)
(* What is followed is the timers of the packets on their way over a link  *)
(* on which an answer takes delay.  ul_send sets the timer of each packet  *)
(* when it sends it, so the one that becomes the first unacknowledged at   *)
(* an ACK has been on its way for a while, and its timer was made of an    *)
(* earlier estimate.  How much of it is left is not known: time is counted *)
(* from the first timeout on.  The deviation dev is left out: nothing but  *)
(* the debugging output reads it.                                          *)
(***************************************************************************)
EXTENDS TcpUtil, Sequences

CONSTANTS
    DEFAULT_TIMEOUT,   \* 5000 ms in the program
    Delays,            \* round trips of the links considered
    Waits,             \* how much longer a repeated ACK may take
    FLIGHT             \* model bound: packets on their way at a time

ASSUME RttAssumption ==
    /\ DEFAULT_TIMEOUT \in Nat
    /\ Delays \subseteq Nat /\ Waits \subseteq Nat
    /\ FLIGHT \in Nat \ {0}

VARIABLES
    delay,        \* of the link
    rtt,          \* upload_t.rtt
    timers,       \* upload_t.rto when each packet on its way was sent
    cnt,          \* upload_t.timeout_cnt
    recovering,   \* status is neither SLOW_START nor CONGESTION_AVOIDANCE
    silent        \* time since the first of the last timeouts in a row

rttvars == <<delay, rtt, timers, cnt, recovering, silent>>

\* mutant: samples below 8 ms are taken for the whole estimate
update_rtt_small(r, s_rtt) == IF r = 0 THEN s_rtt ELSE (r * 7) \div 8 + s_rtt \div 16

update_rtt(r, s_rtt) == IF r = 0 THEN s_rtt ELSE (r * 7) \div 8 + s_rtt \div 8

\* GET_RTO, and the bootstrap of ul_send
rto_of(r) == IF 2 * r = 0 THEN DEFAULT_TIMEOUT ELSE 2 * r

\* mutant: the estimate is not doubled
back_off_not(r) == MIN(r, DEFAULT_TIMEOUT \div 4)

\* ul_check_timeout
back_off(r) == MIN(r * 2, DEFAULT_TIMEOUT \div 4)

\* ul_init, and the first packet sent
Fresh(r, t) == r = DEFAULT_TIMEOUT \div 2 /\ t = <<rto_of(r)>>

\* ul_check_timeout looks at the first unacknowledged packet
rto == Head(timers)

RttInit ==
    /\ delay \in Delays
    /\ Fresh(rtt, timers)
    /\ cnt = 0 /\ recovering = FALSE /\ silent = 0

given_up == cnt > MAX_TIMEOUT_CNT

\* the first n packets on their way are acknowledged, and more are sent
moved(t, n, more, o) == SubSeq(t, n + 1, Len(t)) \o [i \in 1..more |-> o]

\* the ACK of the first n packets comes in time, or during recovery at any
\* time; only outside recovery it is a sample.  ul_send goes on
Acked(n) ==
    /\ ~given_up /\ (recovering \/ delay <= rto)
    /\ rtt' = IF recovering THEN rtt ELSE update_rtt(rtt, delay)
    /\ \E more \in 0..FLIGHT :
          /\ Len(timers) - n + more \in 1..FLIGHT
          /\ timers' = moved(timers, n, more, rto_of(rtt'))
    /\ cnt' = 0 /\ silent' = 0
    /\ recovering' \in {FALSE, recovering}
    /\ UNCHANGED delay

\* an ACK of earlier packets is repeated; each repetition is a sample too,
\* counted from when the packet was sent, and one too many is a loss
Repeated(wait) ==
    /\ ~given_up /\ ~recovering
    /\ rtt' = update_rtt(rtt, delay + wait)
    /\ \/ UNCHANGED <<timers, recovering>>
       \/ timers' = <<rto_of(rtt')>> /\ recovering' = TRUE
    /\ UNCHANGED <<delay, cnt, silent>>

\* the timer has run out: back off and send this one packet again, with a
\* new timer.  The next timeout in a row is a whole rto later
TimesOut ==
    /\ ~given_up
    /\ rtt' = back_off(rtt) /\ timers' = <<rto_of(rtt')>>
    /\ cnt' = cnt + 1 /\ silent' = IF cnt = 0 THEN 0 ELSE silent + rto
    /\ recovering' = TRUE
    /\ UNCHANGED delay

\* the upload was killed, and another one begins
StartsAgain ==
    /\ given_up
    /\ Fresh(rtt', timers')
    /\ cnt' = 0 /\ recovering' = FALSE /\ silent' = 0
    /\ UNCHANGED delay

RttNext ==
    \/ \E n \in DOMAIN timers : Acked(n)
    \/ \E wait \in Waits : Repeated(wait)
    \/ TimesOut
    \/ StartsAgain

RttSpec == RttInit /\ [][RttNext]_rttvars

(***************************************************************************)
(* Properties                                                              *)
(***************************************************************************)

\* Integer division loses up to 7 ms of the average at each of its two
\* terms, and the first backoff lowers the initial estimate; still, on a
\* link of 8 ms to twice the limit of the backoff (2500 ms in the program)
\* the timer never runs out before the answer can be there, after any number
\* of samples, losses and timeouts.
RtoCoversDelay ==
    delay \in 8..(2 * (DEFAULT_TIMEOUT \div 4)) =>
        \A i \in DOMAIN timers : timers[i] >= delay

\* On such a link an upload is given up (peer_server.c:218) no sooner than
\* 32 + 64 + 128 + 256 + 512 ms after the first of its timeouts in a row, and
\* so after the last ACK that confirmed anything, however small the estimate
\* was, and however little was left of the first timer, when that ACK came.
GivesUpSlowly == given_up /\ delay >= 8 => silent >= 992
=============================================================================
