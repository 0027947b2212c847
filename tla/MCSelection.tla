----------------------------- MODULE MCSelection -----------------------------
(* Selection on a screen of two rows of two columns, with two rows above. *)
EXTENDS Selection

\* The second cell of every second row separates words.
MCWordSeparators == {<<id, 2>> : id \in {2 * k : k \in 1..10}}

\* Above to the left, and below.
MCBeyond == {<<-1, -1>>, <<1, 2>>}

\* A line of one character, and a full row whose line goes on in the next.
MCLines == {<<1, TRUE>>, <<2, FALSE>>}
=============================================================================
