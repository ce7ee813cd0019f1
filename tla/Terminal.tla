-------------------------------- MODULE Terminal --------------------------------
(* What the console promises of its input: a line that can be edited until it   *)
(* is entered, and the characters entered, which readers take in order.         *)
EXTENDS Naturals, Sequences, SequencesExt

CONSTANTS Keys, Readers, Size

VARIABLES ready, line,
    begun       \* readers that have got something and have not returned

vars == <<ready, line, begun>>

Init == ready = <<>> /\ line = <<>> /\ begun = {}

Full == Len(ready) + Len(line) = Size

Erase == line # <<>> /\ line' = Front(line) /\ UNCHANGED ready
Kill == line' = <<>> /\ UNCHANGED ready

(* A line is entered by its end, by the end of the file, or when no more fits. *)
Type(c) ==
    /\ ~Full
    /\ IF c \in {"nl", "D"} \/ Len(ready) + Len(line) + 1 = Size
       THEN ready' = ready \o Append(line, c) /\ line' = <<>>
       ELSE line' = Append(line, c) /\ UNCHANGED ready

(* The end of the file is taken by itself. *)
Take(p) == /\ ready # <<>> /\ (Head(ready) = "D" => p \notin begun)
           /\ ready' = Tail(ready) /\ begun' \in {begun, begun \cup {p}}
           /\ UNCHANGED line

Return(p) == begun' = begun \ {p} /\ UNCHANGED <<ready, line>>

Edit == Erase \/ Kill \/ \E c \in Keys : Type(c)

Next == (Edit /\ UNCHANGED begun) \/ \E p \in Readers : Take(p) \/ Return(p)

Spec == Init /\ [][Next]_vars
================================================================================
