--------------------------- MODULE MCSentenceCodec ---------------------------
(* SentenceCodec for TLC: two units to a printed digit, two digits to a minute. *)
EXTENDS SentenceCodec

\* A position with coordinates of nine digits, of one and of three.
Origin == [lat |-> 0, lon |-> 0, alt |-> 0, sec |-> 604798, frac |-> 0,
           pos |-> <<-163453157, 3, -366>>, vel |-> <<0, 5, -4>>]

\* Around 0, 1 and 2 degrees and the poles, on both sides.
SomeAngles == LET near == {0, 1, 2, 3, 238, 239, 240, 241, 478, 479, 480, 21599, 21600}
              IN  near \cup {-a : a \in near}

Positions ==
    {[Origin EXCEPT !.lat = a, !.lon = b] : a \in SomeAngles, b \in {0, -3}}
      \cup {[Origin EXCEPT !.lat = a, !.lon = b] : a \in {0, -3}, b \in SomeAngles}
      \cup {[Origin EXCEPT !.alt = h] : h \in {7, -7, 40961}}

\* The second before the last of the week and the last one, each half millisecond near
\* their ends.
Times == {[Origin EXCEPT !.sec = s, !.frac = f] :
            s \in {604798, 604799}, f \in 0..140 \cup 1860..1999}

\* Coordinates around the powers of ten, and at ties between two fourth digits.
Solutions ==
    LET some == {0, 9994, 9995, 9999, 10000, 10005, 10015, 99994, 99995, 999949, 999950,
                 494249633, 999949999, 999950000, 999999999}
    IN  {[Origin EXCEPT !.pos = <<x, -x, 1>>, !.vel = <<y, 0, -y>>] : x, y \in some}

SomePoints == Positions \cup Times \cup Solutions
=============================================================================
