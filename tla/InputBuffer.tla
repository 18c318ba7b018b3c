----------------------------- MODULE InputBuffer ----------------------------
(***************************************************************************)
(* The buffer in which process_user_input collects what comes from the     *)
(* standard input until a line is complete (input_buffer.c).  A read       *)
(* returns a part of a line, a line or several, as terminals and pipes do. *)
(***************************************************************************)
EXTENDS Integers, Sequences

CONSTANTS
    USERBUF_SIZE,   \* 8191 in the program
    MAX_INPUT       \* model bound: characters typed

ASSUME InputAssumption == USERBUF_SIZE \in Nat \ {0} /\ MAX_INPUT \in Nat

VARIABLES
    buf, cur,    \* user_iobuf
    scanning,    \* process_user_input is in its while loop
    input,       \* all characters read
    handled,     \* all characters given to handle_line, with the NL of each line
    high         \* the largest value cur had

inputvars == <<buf, cur, scanning, input, handled, high>>

NL == -1
NUL == 0
Cells == 0..USERBUF_SIZE

\* the k-th character of the input, when it is no NL
Char(k) == (k % 3) + 1

\* the first cell with an NL, if strchr gets there before a NUL
strchr(p) == buf[p] = NL /\ \A q \in 0..(p - 1) : buf[q] \notin {NL, NUL}

\* mutant: as many cells are moved as the line had
memmove_line(b, ret) ==
    [p \in Cells |-> IF p <= ret /\ p + ret < USERBUF_SIZE THEN b[p + ret + 1] ELSE b[p]]

\* what follows cell ret moves to the front; the last cells keep what they had
memmove(b, ret) ==
    [p \in Cells |-> IF p < USERBUF_SIZE - ret THEN b[p + ret + 1] ELSE b[p]]

create_userbuf == [p \in Cells |-> NUL]

InputInit ==
    /\ buf = create_userbuf /\ cur = 0 /\ scanning = FALSE
    /\ input = <<>> /\ handled = <<>> /\ high = 0

\* process_user_input: read n characters, of which those at ends are NLs
ReadInput(n, ends) ==
    /\ ~scanning /\ cur \in 0..(USERBUF_SIZE - 2)
    /\ n <= USERBUF_SIZE - cur /\ Len(input) + n <= MAX_INPUT
    /\ LET char(i) == IF i \in ends THEN NL ELSE Char(Len(input) + i) IN
       /\ buf' = [p \in Cells |-> IF p \in cur..(cur + n - 1) THEN char(p - cur + 1) ELSE buf[p]]
       /\ input' = input \o [i \in 1..n |-> char(i)]
    /\ cur' = cur + n
    /\ high' = IF cur' > high THEN cur' ELSE high
    /\ scanning' = TRUE
    /\ UNCHANGED handled

\* one round of its loop: a line is handled and taken out
HandleLine ==
    /\ scanning
    /\ \E ret \in Cells :
          /\ strchr(ret)
          /\ handled' = handled \o [i \in 1..(ret + 1) |-> buf[i - 1]]
          /\ buf' = memmove([buf EXCEPT ![ret] = NUL], ret)
          /\ cur' = cur - (ret + 1)
    /\ UNCHANGED <<scanning, input, high>>

NoMoreLines ==
    /\ scanning /\ ~\E ret \in Cells : strchr(ret)
    /\ scanning' = FALSE
    /\ UNCHANGED <<buf, cur, input, handled, high>>

\* "buffer full; line too long!": the process exits and is started again.
\* cur is unsigned in the program: a value below 0 is a huge one there, and
\* fails the same test.
InputTooLong ==
    /\ ~scanning /\ cur \notin 0..(USERBUF_SIZE - 2)
    /\ buf' = create_userbuf /\ cur' = 0 /\ scanning' = FALSE
    /\ input' = <<>> /\ handled' = <<>> /\ high' = 0

\* the input has ended: read returns 0 and there is no line
EndOfInput ==
    /\ ~scanning /\ cur \in 0..(USERBUF_SIZE - 2) /\ Len(input) = MAX_INPUT
    /\ UNCHANGED inputvars

InputNext ==
    \/ \E n \in 1..USERBUF_SIZE : \E ends \in SUBSET (1..n) : ReadInput(n, ends)
    \/ HandleLine \/ NoMoreLines \/ InputTooLong \/ EndOfInput

InputSpec == InputInit /\ [][InputNext]_inputvars

(***************************************************************************)
(* Properties                                                              *)
(***************************************************************************)

\* memmove leaves old characters behind the text, and cur does not say so:
\* strchr would take an old NL for a new one.  As long as the buffer was
\* never more than half full that does not happen, however the input is cut
\* into reads: every line is handled as it was typed, once and in order.
LinesAsTyped ==
    ~scanning /\ 2 * high <= USERBUF_SIZE + 1 =>
        /\ cur >= 0
        /\ handled \o [p \in 1..cur |-> buf[p - 1]] = input
        /\ \A p \in 1..cur : buf[p - 1] # NL
=============================================================================
