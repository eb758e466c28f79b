------------------------------- MODULE Channel -------------------------------
(***************************************************************************)
(* What a conversation promises to the application above it: each message  *)
(* is opened at most once, only after it was sent, and the responder says  *)
(* nothing before it has heard the initiator.  A party in `broken` has     *)
(* lost the first promise; nothing but a named event puts a party there    *)
(* and nothing takes it out again.                                         *)
(***************************************************************************)
EXTENDS Naturals, Sequences

CONSTANTS First, Second      \* the initiator and the responder

VARIABLES
    opened,   \* [party -> for each message it sent, how often it was opened]
    broken    \* the parties that may open a message again

Ends == {First, Second}

Other(p) == IF p = First THEN Second ELSE First

Init ==
    /\ opened = [p \in Ends |-> <<>>]
    /\ broken = {}

\* p has opened a message of the other end.
Heard(p) == \E i \in 1 .. Len(opened[Other(p)]) : opened[Other(p)][i] > 0

\* p sends its next message.
Say(p) ==
    /\ p = First \/ Heard(p)
    /\ opened' = [opened EXCEPT ![p] = Append(@, 0)]
    /\ UNCHANGED broken

\* p opens the i-th message of the other end.
Open(p, i) ==
    /\ p \in broken \/ opened[Other(p)][i] = 0
    /\ opened' = [opened EXCEPT ![Other(p)][i] = @ + 1]

\* A party breaks, in a step that opens nothing.
Break(p) ==
    /\ broken' = broken \cup {p}
    /\ UNCHANGED opened

Next ==
    \/ \E p \in Ends : Say(p)
    \/ \E p \in Ends : \E i \in 1 .. Len(opened[Other(p)]) :
          Open(p, i) /\ UNCHANGED broken
    \/ \E p \in Ends : Break(p)

Spec == Init /\ [][Next]_<<opened, broken>>
=============================================================================
