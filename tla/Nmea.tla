--------------------------------- MODULE Nmea ---------------------------------
(***************************************************************************)
(* location_from_nmea() of idpmodem/location.py: a Location built from the *)
(* NMEA sentences of one fix, one after the other.                         *)
(*                                                                         *)
(* A sentence is a record of its type, whether its checksum is right, and  *)
(* the columns that are read; an empty column is <<>>, any other <<v>>.    *)
(* Numbers are integers in the units of the sentence: positions in         *)
(* thousandths of a minute, speed in tenths of a knot, dilutions of        *)
(* precision and altitudes whole.  Location keeps positions in millionths  *)
(* of a degree (degrees_resolution = 6).                                   *)
(***************************************************************************)
EXTENDS Integers, Sequences, SequencesExt

Unknown == 32         \* a dilution of precision that is empty or larger

DefaultLocation ==
    [latitude |-> 90000000, longitude |-> 180000000, altitude |-> 0, speed |-> 0,
     heading |-> 0, timestamp |-> 0, satellites |-> 0, fix_type |-> 1,
     pdop |-> 99, hdop |-> 99, vdop |-> 99, satellites_info |-> <<>>]

OrZero(column)   == IF column = <<>> THEN 0 ELSE column[1]
Dilution(column) == IF column = <<>> THEN Unknown ELSE Min({column[1], Unknown})

(* round(degrees + minutes / 60, 6); a third of the positions fall short,  *)
(* a third go beyond.                                                      *)
Degrees(milliminutes) == (100 * milliminutes + 3) \div 6

Signed(n, hemisphere) == IF hemisphere \in {"S", "W"} THEN -n ELSE n

(* A faulty variant: the last sentence decides.                            *)
SatellitesLast(loc, n) == [loc EXCEPT !.satellites = n]

Satellites(loc, n) == [loc EXCEPT !.satellites = Max({@, n})]

(* A faulty variant: what a later sentence repeats is listed again.        *)
RenewedAgain(list, info) == Append(list, info)

(* New information of a satellite takes the place of the old; a satellite  *)
(* that is new goes to the end of the list.                                *)
Renewed(list, info) ==
    LET k == SelectInSeq(list, LAMBDA i : i.prn = info.prn)
    IN  IF k = 0 THEN Append(list, info) ELSE [list EXCEPT ![k] = info]

update_satellites_info(loc, infos) ==
    [loc EXCEPT !.satellites_info = FoldLeft(Renewed, @, infos)]

Gga(loc, s) == [Satellites(loc, s.satellites[1]) EXCEPT
                   !.altitude = OrZero(s.altitude), !.hdop = Dilution(s.hdop)]

(* The position is taken if there is a longitude.                          *)
Rmc(loc, s) ==
    LET timed == [loc EXCEPT !.timestamp = s.time[1], !.speed = OrZero(s.speed),
                             !.heading = OrZero(s.heading)]
    IN  IF s.longitude = <<>> THEN timed
        ELSE [timed EXCEPT !.latitude = Signed(Degrees(s.latitude[1]), s.ns),
                           !.longitude = Signed(Degrees(s.longitude[1]), s.ew)]

Gsa(loc, s) == [loc EXCEPT !.fix_type = OrZero(s.fix_type), !.pdop = Dilution(s.pdop),
                           !.vdop = Dilution(s.vdop)]

Gsv(loc, s) == Satellites(update_satellites_info(loc, s.infos), OrZero(s.satellites))

(* What raises: a wrong checksum, another type, a GGA without a number of  *)
(* satellites, an RMC without a date or time or without the latitude to    *)
(* its longitude.                                                          *)
Rejected(s) ==
    \/ ~s.valid \/ s.type \notin {"GGA", "RMC", "GSA", "GSV"}
    \/ s.type = "GGA" /\ s.satellites = <<>>
    \/ s.type = "RMC" /\ (s.time = <<>> \/ (s.latitude = <<>> /\ s.longitude # <<>>))

(* The Location, as a sequence of length 1, or <<>> for an exception.      *)
Sentence(result, s) ==
    IF result = <<>> \/ Rejected(s) THEN <<>>
    ELSE << CASE s.type = "GGA" -> Gga(result[1], s)
              [] s.type = "RMC" -> Rmc(result[1], s)
              [] s.type = "GSA" -> Gsa(result[1], s)
              [] s.type = "GSV" -> Gsv(result[1], s) >>

location_from_nmea(sentences) == FoldLeft(Sentence, <<DefaultLocation>>, sentences)

-----------------------------------------------------------------------------
(* What the modem answers: columns that hold a number or nothing, and      *)
(* sentences of one fix that do not contradict each other.                 *)
IsSequence(q) == q \in Seq({q[i] : i \in DOMAIN q})
IsColumn(c)   == c = <<>> \/ (c = <<c[1]>> /\ c[1] \in Int)

Coherent(fix) ==
    /\ IsSequence(fix)
    /\ \A i \in DOMAIN fix :
         LET s == fix[i]
         IN  /\ s.type = "GGA" => IsColumn(s.satellites)
             /\ s.type = "RMC" => \A c \in {s.time, s.latitude, s.longitude} : IsColumn(c)
             /\ s.type = "GSV" => IsColumn(s.satellites) /\ IsSequence(s.infos)
    /\ \A i, j \in DOMAIN fix :
         LET s == fix[i]
             t == fix[j]
         IN  s.type = t.type =>
               IF s.type # "GSV" THEN s = t
               ELSE \A k \in DOMAIN s.infos, m \in DOMAIN t.infos :
                       s.infos[k].prn = t.infos[m].prn => s.infos[k] = t.infos[m]
===============================================================================
