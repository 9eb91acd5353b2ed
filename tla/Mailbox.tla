------------------------------- MODULE Mailbox -------------------------------
(***************************************************************************)
(* What a notification queue promises: a bounded box that keeps the newest *)
(* notifications in order, is emptied as a whole, and does not stay full   *)
(* for ever.  How the reader learns that something is there is left open.  *)
(***************************************************************************)
EXTENDS Naturals, Sequences

CONSTANTS
    Capacity,   \* of the box
    MaxPuts     \* bound on the number of notifications, which are numbered

VARIABLES
    box,        \* what was put and not taken
    out,        \* what was taken, in the order it was taken
    puts        \* number of the last notification

Newest(s) == IF Len(s) > Capacity THEN Tail(s) ELSE s

boxVars == <<box, out, puts>>

BoxInit == box = <<>> /\ out = <<>> /\ puts = 0

Put ==
    /\ puts < MaxPuts /\ puts' = puts + 1
    /\ box' = Newest(Append(box, puts'))
    /\ UNCHANGED out

Take ==
    /\ box # <<>> /\ box' = <<>>
    /\ out' = out \o box
    /\ UNCHANGED puts

BoxNext == Put \/ Take

\* What the box never does; BoxSpec adds what it does at last.
BoxSafety == BoxInit /\ [][BoxNext]_boxVars

BoxSpec == BoxSafety /\ WF_boxVars(Take)

=============================================================================
