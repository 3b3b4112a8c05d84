---------------------------- MODULE SentenceCodec ----------------------------
(***************************************************************************)
(* A data point on its way through a sentence: the simulator's formatting of   *)
(* BESTXYZA and GPGGA (gps_sim_hardware_model_OEM615.cpp) and the device       *)
(* library's parsing (novatel_oem615_device.c).  A sentence is the sequence of  *)
(* its fields; strtok_r passes over empty ones.                              *)
(*                                                                         *)
(* Numbers are integers in the unit that tells the roundings apart.  Angles and   *)
(* the altitude: half of the last digit printed, PerMinute of them to a minute.   *)
(* Seconds: half a millisecond.  Coordinates: centimetres, and per second.  A      *)
(* float of the library is any value within its last bit; doubles are exact.       *)
(***************************************************************************)
EXTENDS Integers, Sequences, FiniteSets

CONSTANTS
    PerMinute,      \* angle units in a minute (2 * 10^7 in the code), even
    FloatPrecision, \* 2^24: a float holds a number to this part of it, half its last bit
    Points          \* the data points; seconds are into the week

\* From 2^19 seconds into the week to its end, where a float is at its coarsest.
LateInWeek == 524288..604799

\* Bound: under ten thousand kilometres.
CoordinateMax == 10000 * 100000 - 1
Coordinates == -CoordinateMax..CoordinateMax
Vectors == Coordinates \X Coordinates \X Coordinates

AnyPoint == [lat : Int, lon : Int, alt : Int, sec : Int, frac : 0..1999,
             pos : Vectors, vel : Vectors]

ASSUME CodecConstantsAssumption ==
    /\ PerMinute \in Nat /\ PerMinute > 0 /\ PerMinute % 2 = 0
    /\ FloatPrecision \in Nat /\ FloatPrecision >= 2
    /\ \A p \in Points : p \in AnyPoint /\ p.sec \in LateInWeek

Week == 2000

VARIABLES
    point,      \* what the data provider returned
    sentence,   \* the fields in the read buffer after the first token, <<>> when parsed
    kind,       \* the first token
    data        \* NOVATEL_OEM615_Device_Data_tlm_t

vars == <<point, sentence, kind, data>>

NoData == [weeks |-> 0, seconds |-> 0, frac |-> 0, pos |-> <<0, 0, 0>>, vel |-> <<0, 0, 0>>, lat |-> 0, lon |-> 0, alt |-> 0]

Init ==
    /\ point \in Points
    /\ sentence = <<>>
    /\ kind = "none"
    /\ data = NoData

-----------------------------------------------------------------------------
(* The simulator's side. *)

Magnitude(n) == IF n < 0 THEN -n ELSE n

\* Mutant: towards minus infinity.
TruncatedMutantFloor(n, d) == n \div d

\* int(d): towards zero.
Truncated(n, d) == IF n < 0 THEN -((-n) \div d) ELSE n \div d

\* The stream rounds to the nearest multiple of u, a tie to the even one.
Printed(n, u) ==
    LET q == n \div u
        r == n % u
    IN  IF 2 * r > u \/ (2 * r = u /\ q % 2 = 1) THEN (q + 1) * u ELSE q * u

Degree == 60 * PerMinute

\* ddmm.mmmm: whole degrees times 100 and the minutes of the rest.
DegreesMinutes(angle) ==
    LET whole == Truncated(angle, Degree)
    IN  whole * 100 * PerMinute + (angle - whole * Degree)

\* A field, by its text, and what atof and atoi make of it.
Text(t) == [text |-> t, number |-> 0]
Num(n) == [text |-> "digits", number |-> n]
Empty == Text("")

Letter(angle, positive, negative) == Text(IF DegreesMinutes(angle) >= 0 THEN positive ELSE negative)

Angle(a) == Num(Printed(Magnitude(DegreesMinutes(a)), 2))

\* The quality is 8, simulator; age and station are empty.
GgaFields(p) ==
    <<Text("utc"), Angle(p.lat), Letter(p.lat, "N", "S"), Angle(p.lon), Letter(p.lon, "E", "W"),
      Num(8), Num(10), Num(1), Num(Printed(p.alt, 2)), Text("M"), Num(0), Text("M"), Empty, Empty, Text("*")>>

\* float gpsec: from 2^19 seconds on a float holds sixteenths of a second, 125 units;
\* three decimals are printed.
GpSec(p) == Printed(Printed(2000 * p.sec + p.frac, 125), 2)

\* setprecision(4) on a stream that is not std::fixed: four significant digits, u the
\* value of the fourth.
PowersOfTen == {1, 10, 100, 1000, 10000, 100000}

FourthDigit(n) ==
    CHOOSE u \in PowersOfTen : (u = 1 \/ 1000 * u <= Magnitude(n)) /\ Magnitude(n) < 10000 * u

Significant(n) == Printed(n, FourthDigit(n))

XyzFields(p) ==
    LET Digits(v) == <<Num(Significant(v[1])), Num(Significant(v[2])), Num(Significant(v[3]))>>
        Vector(v) == Digits(v) \o <<Num(0), Num(0), Num(0)>>
        Status == <<Text("SOL_COMPUTED"), Text("NARROW_INT")>>
    IN  <<Text("COM1"), Num(0), Num(0), Text("FINESTEERING"), Num(Week), Num(GpSec(p)),
          Num(40), Text("D821"), Num(2724)>>
        \o Status \o Vector(p.pos) \o Status \o Vector(p.vel) \o <<Text("station"), Text("*")>>

\* Every response is about a new data point.
Respond(k, fields) ==
    /\ sentence = <<>>
    /\ kind' = k
    /\ sentence' = fields
    /\ UNCHANGED <<point, data>>

GetGpggaResponse == Respond("GPGGA", GgaFields(point))

GetBestxyzaResponse == Respond("BESTXYZA", XyzFields(point))

-----------------------------------------------------------------------------
(* The device library's side. *)

\* How many of the fields up to i are not empty.
FullUpTo(s, i) == Cardinality({j \in 1..i : s[j] # Empty})

\* The field saveptr is at after n calls of strtok_r, the first at field 1: each call
\* passes over empty fields and over one that is not.
Cursor(s, n) ==
    LET passed == {i \in 1..Len(s) : s[i] # Empty /\ FullUpTo(s, i) = n}
    IN  IF n = 0 THEN 1
        ELSE IF passed = {} THEN Len(s) + 1
        ELSE (CHOOSE i \in passed : TRUE) + 1

\* token = saveptr; strtok_r(token, ...): token is where the call started, a comma if
\* that field is empty.
TokenAt(s, n) ==
    LET i == Cursor(s, n - 1)
    IN  IF i > Len(s) THEN Empty ELSE IF s[i] = Empty THEN Text(",") ELSE s[i]

NumberAt(s, n) == TokenAt(s, n).number
VectorAt(s, n) == <<NumberAt(s, n), NumberAt(s, n + 1), NumberAt(s, n + 2)>>

\* What a float may make of n; half its last bit, and the unit that half may end in.
LastBit(n) == IF n = 0 THEN 0 ELSE Magnitude(n) \div FloatPrecision + 1
Float(n) == n - LastBit(n)..n + LastBit(n)

\* Degrees from ddmm.mmmm: the minutes are a float, and so is the result.
Decimal(value, letter, negative) ==
    LET deg == value \div (100 * PerMinute)
        sign == IF letter = negative THEN -1 ELSE 1
        minutes == Float(value - deg * 100 * PerMinute)
    IN  UNION {Float(sign * (deg * Degree + m)) : m \in minutes}

\* Mutant: the position of seconds counted one field too early.
ParseBestXYZAMutantShifted ==
    /\ kind = "BESTXYZA" /\ sentence # <<>>
    /\ data' = [data EXCEPT !.weeks = NumberAt(sentence, 5),
                            !.seconds = NumberAt(sentence, 6) \div 2000,
                            !.frac = NumberAt(sentence, 6) % 2000,
                            !.pos = VectorAt(sentence, 12),
                            !.vel = VectorAt(sentence, 19)]
    /\ sentence' = <<>>
    /\ UNCHANGED <<point, kind>>

ParseBestXYZA ==
    /\ kind = "BESTXYZA" /\ sentence # <<>>
    /\ data' = [data EXCEPT !.weeks = NumberAt(sentence, 5),
                            !.seconds = NumberAt(sentence, 6) \div 2000,
                            !.frac = NumberAt(sentence, 6) % 2000,
                            !.pos = VectorAt(sentence, 12),
                            !.vel = VectorAt(sentence, 20)]
    /\ sentence' = <<>>
    /\ UNCHANGED <<point, kind>>

ParseBestGPGGA ==
    /\ kind = "GPGGA" /\ sentence # <<>>
    /\ \E lat \in Decimal(NumberAt(sentence, 2), TokenAt(sentence, 3), Text("S")),
          lon \in Decimal(NumberAt(sentence, 4), TokenAt(sentence, 5), Text("W")),
          alt \in Float(NumberAt(sentence, 9)) :
            data' = [data EXCEPT !.lat = lat, !.lon = lon, !.alt = alt]
    /\ sentence' = <<>>
    /\ UNCHANGED <<point, kind>>

Next ==
    \/ GetGpggaResponse \/ GetBestxyzaResponse
    \/ ParseBestXYZA \/ ParseBestGPGGA

Spec == Init /\ [][Next]_vars

-----------------------------------------------------------------------------
(* Properties. *)

Parsed(k) == kind = k /\ sentence = <<>>

Near(a, b, distance) == Magnitude(a - b) <= distance

\* Half a printed digit, the float of the minutes and the float of the degrees: a metre
\* and a quarter at the ends of the earth, where the digits alone are a tenth of a millimetre.
AngleError(a) == 1 + LastBit(Degree) + LastBit(Magnitude(a) + Degree)
AltitudeError(h) == 1 + LastBit(Magnitude(h) + 1)

\* The position that comes out of a GPGGA sentence is the one that went in but for what
\* the digits and the two floats take, on every side of the equator and of the meridian,
\* when the minutes are rounded up to 60, and with the two empty fields at the end.
PositionSurvives ==
    Parsed("GPGGA") =>
        /\ Near(data.lat, point.lat, AngleError(point.lat))
        /\ Near(data.lon, point.lon, AngleError(point.lon))
        /\ Near(data.alt, point.alt, AltitudeError(point.alt))

\* Each number of a BESTXYZA sentence ends in the variable it is for.  The time, although
\* the simulator has put it in a float, is right to a thirty-second of a second (half the
\* float's last bit, and half a millisecond of printing), over the end of a second too; of
\* a position and a velocity the four digits printed are left, a two-thousandth: five
\* hundred metres at a thousand kilometres.
SolutionSurvives ==
    Parsed("BESTXYZA") =>
        /\ data.weeks = Week
        /\ Near(2000 * data.seconds + data.frac, 2000 * point.sec + point.frac, 63)
        /\ \A i \in 1..3 :
              /\ Near(data.pos[i], point.pos[i], Magnitude(point.pos[i]) \div 2000)
              /\ Near(data.vel[i], point.vel[i], Magnitude(point.vel[i]) \div 2000)
=============================================================================
