------------------------------ MODULE RecvWin -------------------------------
(***************************************************************************)
(* The receive window (recv_win.c): a circular bitmap of RECV_WINDOW_SIZE  *)
(* bits.  The bit for next_seq is at index front; the bit for seq is       *)
(* seq - next_seq places further round.  The int array bm[] of the code is *)
(* the set of the indices of its set bits.                                 *)
(***************************************************************************)
EXTENDS TcpUtil

CONSTANT RECV_WINDOW_SIZE   \* 1024 in the program

ASSUME RecvWinAssumption == RECV_WINDOW_SIZE \in Nat \ {0}

BitIndices == 0..(RECV_WINDOW_SIZE - 1)

RecvWins == [bm : SUBSET BitIndices, front : BitIndices, next_seq : Nat \ {0}]

init_recvwin == [bm |-> {}, front |-> 0, next_seq |-> 1]

\* mutant: the index is not taken modulo the size
SEQ_IN_WIN_no_wrap(r, seq) == seq - r.next_seq + r.front

SEQ_IN_WIN(r, seq) == (seq - r.next_seq + r.front) % RECV_WINDOW_SIZE

seq_fit_in(r, seq) == seq >= r.next_seq /\ seq < r.next_seq + RECV_WINDOW_SIZE

seq_exist_in(r, seq) == SEQ_IN_WIN(r, seq) \in r.bm

recvwin_mark(r, seq) == [r EXCEPT !.bm = @ \cup {SEQ_IN_WIN(r, seq)}]

\* how many packets from next_seq on are there without a gap
run_length(r) ==
    CHOOSE size \in 0..RECV_WINDOW_SIZE :
        /\ \A i \in 0..(size - 1) : seq_exist_in(r, r.next_seq + i)
        /\ size < RECV_WINDOW_SIZE => ~seq_exist_in(r, r.next_seq + size)

\* mutant: the bits that are slid over stay set
recvwin_slideack_keeps_bits(r) ==
    LET size == run_length(r)
    IN  [bm       |-> r.bm,
         front    |-> SEQ_IN_WIN(r, r.next_seq + size),
         next_seq |-> r.next_seq + size]

recvwin_slideack(r) ==
    LET size == run_length(r)
    IN  [bm       |-> r.bm \ {SEQ_IN_WIN(r, r.next_seq + i) : i \in 0..(size - 1)},
         front    |-> SEQ_IN_WIN(r, r.next_seq + size),
         next_seq |-> r.next_seq + size]

\* the sequence numbers a window stands for: all below next_seq, and those
\* of the window whose bit is set
received(r) ==
    1..(r.next_seq - 1)
      \cup {seq \in r.next_seq..(r.next_seq + RECV_WINDOW_SIZE - 1) : seq_exist_in(r, seq)}
=============================================================================
