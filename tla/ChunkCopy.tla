----------------------------- MODULE ChunkCopy ------------------------------
(***************************************************************************)
(* What a transfer of one chunk promises, without packets: the receiver's  *)
(* copy grows from the front, the sender believes only what the receiver   *)
(* has, and either end may give up on the other.  The sender works on      *)
(* request, and forgets what it knew when the request comes again.         *)
(***************************************************************************)
EXTENDS Integers

CONSTANTS SIZE, REQUESTS

VARIABLES
    requests,    \* copies of the request that have not come yet
    delivered,   \* length of the prefix the receiver has
    confirmed,   \* length of the prefix the sender knows of
    sender,      \* "idle", "active", "done" or "dead"
    receiver

ccvars == <<requests, delivered, confirmed, sender, receiver>>

CCInit ==
    /\ requests = REQUESTS
    /\ delivered = 0 /\ confirmed = 0
    /\ sender = "idle" /\ receiver = "active"

\* a request is met, or it is refused or lost
Request ==
    /\ requests > 0 /\ requests' = requests - 1
    /\ \/ sender' = "active" /\ confirmed' = 0
       \/ UNCHANGED <<sender, confirmed>>
    /\ UNCHANGED <<delivered, receiver>>

Deliver ==
    /\ receiver = "active"
    /\ delivered' \in (delivered + 1)..SIZE
    /\ receiver' = IF delivered' = SIZE THEN "done" ELSE "active"
    /\ UNCHANGED <<requests, confirmed, sender>>

Confirm ==
    /\ sender = "active"
    /\ confirmed' \in (confirmed + 1)..delivered
    /\ sender' = IF confirmed' = SIZE THEN "done" ELSE "active"
    /\ UNCHANGED <<requests, delivered, receiver>>

SenderGivesUp ==
    /\ sender = "active" /\ sender' = "dead"
    /\ UNCHANGED <<requests, delivered, confirmed, receiver>>

ReceiverGivesUp ==
    /\ receiver = "active" /\ receiver' = "dead"
    /\ UNCHANGED <<requests, delivered, confirmed, sender>>

CCNext == Request \/ Deliver \/ Confirm \/ SenderGivesUp \/ ReceiverGivesUp

CCSpec == CCInit /\ [][CCNext]_ccvars
=============================================================================
