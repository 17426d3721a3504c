------------------------------ MODULE MTPFrames ------------------------------
(***************************************************************************)
(* Frame numbers and buffer slots of the MTP library (msocket.h).  Frames  *)
(* count 1, 2, ..., MAX_SEQ-1 and wrap to 1: number 0 means "not framed    *)
(* yet".  Pure operators, shared by every module of the transport.         *)
(***************************************************************************)
EXTENDS Integers

CONSTANTS Buf,      \* slots of a send or receive buffer (5 in msocket.h)
          MaxSeq    \* MAX_SEQ (15 in msocket.h)

\* A buffer has a slot; a full receive buffer holds fewer frames than there
\* are frame numbers, so no two stored frames share a number.
ASSUME FrameAssumption ==
    /\ Buf \in Nat /\ Buf > 0
    /\ MaxSeq \in Nat /\ MaxSeq > Buf + 1

Slot == 0..(Buf - 1)

Frame == 1..(MaxSeq - 1)

\* "v % MAX_SEQ, and 1 instead of 0": the idiom of every frame counter.
Wrap(v) == IF v % MaxSeq = 0 THEN 1 ELSE v % MaxSeq

\* Mutant of NextFrame: the wrap is forgotten.
NextFrameNoWrap(f) == f + 1

NextFrame(f) == Wrap(f + 1)

\* The frame numbers Rthreadfunc compares with an arriving frame, n being
\* insertsize: val starts at togetframe and grows by j in round j, so the
\* steps accumulate (t, t+1, t+3, t+6, ...).
WindowVal(t) ==
    [j \in Slot |-> 
        LET val[i \in Slot] == IF i = 0 THEN t ELSE Wrap(val[i - 1] + i)
        IN  val[j]]

\* Mutant of RecvWindow: every frame number is in the window.
RecvWindowAll(t, n) == IF n < 1 THEN {} ELSE Frame

RecvWindow(t, n) ==
    IF n < 1 THEN {}
    ELSE {t} \cup { WindowVal(t)[j] : j \in Slot \cap 1..(n - 1) }

\* The frame number of the n-th message of a stream (n >= 1), in closed form.
FrameOf(n) == ((n - 1) % (MaxSeq - 1)) + 1

\* The n frame numbers that follow t, t included.
NextFrames(t, n) == { FrameOf(t + k) : k \in 0..(n - 1) }

\* m_sendto and Sthreadfunc fill and frame the slots round robin: the slot of
\* the n-th message.
SlotOf(n) == (n - 1) % Buf

\* Environment: a datagram does not outlive Lifetime later messages of its
\* stream (a frame number comes back after MaxSeq - 1 messages).
Lifetime == MaxSeq - 2
=============================================================================
