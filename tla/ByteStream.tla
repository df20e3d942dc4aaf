----------------------------- MODULE ByteStream -----------------------------
(***************************************************************************)
(* What one direction of a connection promises: a FIFO byte stream.  The   *)
(* bytes put into it come out complete, unchanged and in order, for as     *)
(* long as the stream is open; closing it discards what is still inside.   *)
(***************************************************************************)
EXTENDS Naturals, Sequences

VARIABLES
    accepted,   \* how many bytes were put into the stream
    delivered,  \* the bytes that came out
    open

vars == <<accepted, delivered, open>>

Init == accepted = 0 /\ delivered = <<>> /\ open = TRUE

Put ==
    /\ open
    /\ accepted' \in Nat
    /\ accepted' > accepted
    /\ UNCHANGED <<delivered, open>>

(* The next bytes come out.  Their receiver may close the stream at once.  *)
Deliver ==
    /\ open
    /\ \E n \in Len(delivered) + 1 .. accepted :
          delivered' = [i \in 1 .. n |-> i]
    /\ open' \in BOOLEAN
    /\ UNCHANGED accepted

Close == open /\ open' = FALSE /\ UNCHANGED <<accepted, delivered>>

Next == Put \/ Deliver \/ Close

Spec == Init /\ [][Next]_vars

FairSpec == Spec /\ WF_vars(Deliver)
=============================================================================
