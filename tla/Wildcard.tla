------------------------------ MODULE Wildcard ------------------------------
(***************************************************************************)
(* The matcher of rule patterns (toolrules): the two-pointer scan with one *)
(* backtrack point, one step per turn of its loop, beside the definition   *)
(* of what a pattern means.                                                *)
(***************************************************************************)
EXTENDS Integers, Sequences

CONSTANTS
    MaxPattern, MaxText     \* bounds on the lengths that are tried

ASSUME WildcardAssumption == MaxPattern \in Nat /\ MaxText \in Nat

Alphabet == {"a", " ", "*", "\\"}
Words(n) == UNION {[1..k -> Alphabet] : k \in 0..n}

VARIABLES
    pattern, text,          \* the arguments of MatchWildcard
    probe,                  \* the pattern matchCore is running on
    px, tx,                 \* next position of each, from 1
    starPx, starTx,         \* last wildcard and the text it began at, 0 if none
    verdict                 \* "run", "yes", "no"

wildVars == <<pattern, text, probe, px, tx, starPx, starTx, verdict>>

WildTypeOK ==
    /\ pattern \in Words(MaxPattern) /\ text \in Words(MaxText)
    /\ px \in 1..(Len(probe) + 1) /\ tx \in 1..(Len(text) + 1)
    /\ starPx \in 0..Len(probe) /\ starTx \in 0..(Len(text) + 1)
    /\ verdict \in {"run", "yes", "no"}

-----------------------------------------------------------------------------
\* patternChar: an escaped character stands for itself; a final backslash too.
Escaped(p, i) == p[i] = "\\" /\ i < Len(p)
PatternChar(p, i) == IF Escaped(p, i) THEN p[i + 1] ELSE p[i]
Advance(p, i) == IF Escaped(p, i) THEN 2 ELSE 1

\* The positions that begin a token of p when escapes are read from the left.
TokenStarts(p) ==
    LET Starts[i \in 1..(Len(p) + 1)] ==
            IF i = 1 THEN TRUE
            ELSE \/ Starts[i - 1] /\ ~Escaped(p, i - 1)
                 \/ i > 2 /\ Starts[i - 2] /\ Escaped(p, i - 2)
    IN  {i \in 1..Len(p) : Starts[i]}

\* containsUnescapedStar.
ContainsUnescapedStar(p) == \E i \in TokenStarts(p) : p[i] = "*"

\* trailingSpaceStarOptional: the number of backslashes before the final
\* space is even and no other wildcard precedes it.
TrailingSpaceStarOptional(p) ==
    LET n == Len(p)
        head == SubSeq(p, 1, n - 2)
        slashes == {k \in 0..(n - 2) : \A i \in (n - 1 - k)..(n - 2) : p[i] = "\\"}
    IN  /\ n >= 2 /\ p[n] = "*" /\ p[n - 1] = " "
        /\ (CHOOSE k \in slashes : \A l \in slashes : l <= k) % 2 = 0
        /\ ~ContainsUnescapedStar(head)

WildInit ==
    /\ pattern \in Words(MaxPattern) /\ text \in Words(MaxText)
    /\ probe = pattern
    /\ px = 1 /\ tx = 1 /\ starPx = 0 /\ starTx = 0
    /\ verdict = "run"

Scan == verdict = "run" /\ tx <= Len(text)

\* The pattern is at a wildcard: remember where.
TakeStar ==
    /\ Scan /\ px <= Len(probe) /\ probe[px] = "*"
    /\ starPx' = px /\ starTx' = tx /\ px' = px + 1
    /\ UNCHANGED <<pattern, text, probe, tx, verdict>>

MatchesHere == px <= Len(probe) /\ probe[px] # "*" /\ PatternChar(probe, px) = text[tx]

TakeChar ==
    /\ Scan /\ MatchesHere
    /\ px' = px + Advance(probe, px) /\ tx' = tx + 1
    /\ UNCHANGED <<pattern, text, probe, starPx, starTx, verdict>>

Mismatch == Scan /\ ~MatchesHere /\ ~(px <= Len(probe) /\ probe[px] = "*")

\* Mutant of Backtrack: the scan goes on after the mismatch instead of after the start
\* the wildcard had.
BacktrackForward ==
    /\ Mismatch /\ starPx > 0
    /\ starTx' = tx + 1 /\ tx' = tx + 1 /\ px' = starPx + 1
    /\ UNCHANGED <<pattern, text, probe, starPx, verdict>>

\* Give the last wildcard one more character.
Backtrack ==
    /\ Mismatch /\ starPx > 0
    /\ starTx' = starTx + 1 /\ tx' = starTx + 1 /\ px' = starPx + 1
    /\ UNCHANGED <<pattern, text, probe, starPx, verdict>>

\* matchCore failed; MatchWildcard tries once more without a trailing " *".
Fail ==
    IF probe = pattern /\ TrailingSpaceStarOptional(pattern)
    THEN /\ probe' = SubSeq(pattern, 1, Len(pattern) - 2)
         /\ px' = 1 /\ tx' = 1 /\ starPx' = 0 /\ starTx' = 0
         /\ UNCHANGED <<pattern, text, verdict>>
    ELSE verdict' = "no" /\ UNCHANGED <<pattern, text, probe, px, tx, starPx, starTx>>

NoBacktrack == Mismatch /\ starPx = 0 /\ Fail

\* The text is used up: what is left of the pattern must be wildcards.
TextUsedUp ==
    /\ verdict = "run" /\ tx > Len(text)
    /\ IF \A i \in px..Len(probe) : probe[i] = "*"
       THEN verdict' = "yes" /\ UNCHANGED <<pattern, text, probe, px, tx, starPx, starTx>>
       ELSE Fail

WildNext == TakeStar \/ TakeChar \/ Backtrack \/ NoBacktrack \/ TextUsedUp

WildSpec == WildInit /\ [][WildNext]_wildVars

-----------------------------------------------------------------------------
\* What a pattern means: M[i, j] says that p from i matches all of t from j.
Means(p, t) ==
    LET M[i \in 1..(Len(p) + 2), j \in 1..(Len(t) + 1)] ==
            IF i > Len(p) THEN j = Len(t) + 1
            ELSE IF p[i] = "*" THEN \E k \in j..(Len(t) + 1) : M[i + 1, k]
            ELSE /\ j <= Len(t) /\ PatternChar(p, i) = t[j]
                 /\ M[i + Advance(p, i), j + 1]
    IN  M[1, 1]

\* The scan with its single backtrack point decides exactly what the pattern
\* means, escapes included, and a trailing " *" that is the only wildcard may
\* be left out (toolrules/wildcard.go, MatchWildcard).
MatchDecides ==
    verdict # "run" =>
      (verdict = "yes") = \/ Means(pattern, text)
                          \/ /\ TrailingSpaceStarOptional(pattern)
                             /\ Means(SubSeq(pattern, 1, Len(pattern) - 2), text)

=============================================================================
