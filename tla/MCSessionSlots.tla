--------------------------- MODULE MCSessionSlots ---------------------------
(***************************************************************************)
(* Small instances of SessionSlots for TLC.                                *)
(***************************************************************************)
EXTENDS SessionSlots, TLC

CONSTANTS c1, c2, c3

\* An operator that stops and starts the instance, and two channel goroutines.
OperatorAndChannels ==
    [c \in Callers |-> CASE c = c1 -> {"stop", "start"}
                         [] c = c2 -> {"send", "clear"}
                         [] c = c3 -> {"send"}]

\* One client that stops, starts or deletes, one that talks.
OperatorAndChannel ==
    [c \in Callers |-> IF c = c1 THEN {"stop", "start", "delete"} ELSE {"send", "clear"}]

\* Two goroutines that send messages.
TwoSenders == [c \in Callers |-> {"send"}]

\* A stop while a message is handled.
StopAndSend == [c \in Callers |-> IF c = c1 THEN {"stop"} ELSE {"send"}]

\* Handles that are not used yet are interchangeable.
HandleSymmetry == Permutations(Workers \ {Worker0})

=============================================================================
