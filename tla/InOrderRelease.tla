--------------------------- MODULE InOrderRelease ---------------------------
(***************************************************************************)
(* What a sequencer promises its downstream (spec.md, section 4.1): the    *)
(* buffers that arrive, in any order, are released one at a time in        *)
(* ascending sequence-number order, n+1 never before n; a graceful         *)
(* shutdown drains the buffers still held, in ascending order, after which *)
(* nothing more arrives or is released.  Every buffer that arrived is      *)
(* eventually released.                                                    *)
(***************************************************************************)
EXTENDS Naturals, Sequences, SequencesExt

CONSTANT SeqNrs          \* the sequence numbers 1..N of one source partition

VARIABLES
  arrived,               \* buffers handed to the sequencer so far
  released,              \* the buffers released downstream, in order
  open                   \* FALSE once the sequencer has been drained

avars == <<arrived, released, open>>

\* The sequence number the next in-order release must carry.
NextExpected ==
  IF released = <<>> THEN 1 ELSE Last(released) + 1

Init ==
  /\ arrived = {}
  /\ released = <<>>
  /\ open = TRUE

Arrive(b) ==
  /\ open /\ b \in SeqNrs \ arrived
  /\ arrived' = arrived \cup {b}
  /\ UNCHANGED <<released, open>>

Release ==
  /\ open /\ NextExpected \in arrived
  /\ released' = Append(released, NextExpected)
  /\ UNCHANGED <<arrived, open>>

Drain ==
  /\ open
  /\ released' = released \o SetToSortSeq(arrived \ ToSet(released), <)
  /\ open' = FALSE
  /\ UNCHANGED arrived

Next == (\E b \in SeqNrs : Arrive(b)) \/ Release \/ Drain

Spec == Init /\ [][Next]_avars /\ WF_avars(Release)

=============================================================================
