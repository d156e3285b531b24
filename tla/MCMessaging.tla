------------------------------ MODULE MCMessaging ------------------------------
(* Instance of PeriodicReporting for TLC: the application, two other        *)
(* clients, and messages with one or a few fields of every type.            *)
EXTENDS PeriodicReporting

CONSTANTS app_, reader, user, a, b

MCClients == {app_, reader, user}
MCEvents  == {a, b}
MCMaps    == {<< <<a, TRUE>>, <<b, TRUE>> >>, << <<b, TRUE>>, <<a, FALSE>> >>,
              << <<b, FALSE>> >>}
MCBudgets == {[mo |-> 3, mt |-> 0, s88 |-> 0], [mo |-> 1, mt |-> 1, s88 |-> 0],
              [mo |-> 0, mt |-> 2, s88 |-> 0], [mo |-> 0, mt |-> 0, s88 |-> 3]}
MCGiven   == {<<"position", "Now">>, <<"position", "Later">>}

-----------------------------------------------------------------------------
Field(type, optional, size, fixed) ==
    [type |-> type, optional |-> optional, size |-> size, fixed |-> fixed,
     items |-> 3, default |-> None, fields |-> <<>>]

Chosen(default) == [Field("enum", FALSE, 2, FALSE) EXCEPT !.default = default]
ListOf(fields, size, fixed) == [Field("array", FALSE, size, fixed) EXCEPT !.fields = fields]

(* Numbers; texts and data; lists.                                          *)
MCSchemas ==
    << <<Field("bool", FALSE, 1, FALSE), Chosen(<<2>>), [Field("uint", TRUE, 7, FALSE) EXCEPT !.default = <<64>>],
         Field("int", FALSE, 6, FALSE), Field("int", FALSE, 6, FALSE), Field("uint", FALSE, 9, FALSE)>>,
       <<Field("string", TRUE, 3, FALSE), Field("data", FALSE, 2, FALSE),
         Field("string", FALSE, 3, TRUE), Field("bool", TRUE, 1, FALSE)>>,
       <<ListOf(<<Field("uint", FALSE, 3, FALSE), [Field("int", FALSE, 5, FALSE) EXCEPT !.default = <<15>>]>>, 2, FALSE),
         Field("int", TRUE, 4, FALSE)>> >>

Message(schema, values, exclude) == [schema |-> schema, values |-> values, exclude |-> exclude]

(* The fourth is longer than MaxForward; the characters of the sixth arrive *)
(* as one, and those of the seventh not at all; an array takes no negative  *)
(* value for an unsigned field.                                             *)
MCPayloads ==
    <<Message(1, << <<1>>, None, <<300>>, <<-99>>, <<99>>, <<300>> >>, {}),
     Message(1, << <<0>>, <<1>>, <<5>>, <<-1>>, <<0>>, <<0>> >>, {3}),
     Message(2, << << <<72, 105>> >>, << <<0, 200>> >>, << <<65>> >>, <<0>> >>, {}),
     Message(2, << << <<72, 105, 33>> >>, << <<0, 200>> >>, << <<65>> >>, <<0>> >>, {}),
     Message(2, <<None, << <<9>> >>, << <<66, 67, 68, 69>> >>, None>>, {4}),
     Message(2, <<None, << <<9>> >>, << <<195, 169>> >>, None>>, {4}),
     Message(2, <<None, << <<9>> >>, << <<233, 65>> >>, None>>, {4}),
     Message(3, << << << << <<5>>, <<-16>> >>, << <<5>>, <<-16>> >> >> >>, <<-8>> >>, {}),
     Message(3, << << << << <<9>>, None>> >> >>, None>>, {}),
     Message(3, << << << << <<-1>>, None>> >> >>, None>>, {})>>

-----------------------------------------------------------------------------
GGA(n, hdop) == [type |-> "GGA", valid |-> TRUE, satellites |-> n, altitude |-> <<-25>>, hdop |-> hdop]
RMC(time, lat, ns, lon, ew) ==
    [type |-> "RMC", valid |-> TRUE, time |-> time, speed |-> <<224>>, heading |-> <<>>,
     latitude |-> lat, longitude |-> lon, ns |-> ns, ew |-> ew]
GSA(pdop) == [type |-> "GSA", valid |-> TRUE, fix_type |-> <<3>>, pdop |-> pdop, vdop |-> <<2>>]
GSV(n, prns) == [type |-> "GSV", valid |-> TRUE, satellites |-> n,
                 infos |-> [i \in DOMAIN prns |-> [prn |-> prns[i], snr |-> 40]]]

Time == <<1600000000>>

MCFixes ==
    {<<GGA(<<3>>, <<>>), RMC(Time, <<2887038>>, "S", <<10799999>>, "W"), GSA(<<2>>),
       GSV(<<9>>, <<1, 2>>), GSV(<<9>>, <<3, 2>>)>>,
     <<RMC(Time, <<31>>, "N", <<691001>>, "E"), GSA(<<2>>), GSV(<<4>>, <<2>>), GGA(<<7>>, <<40>>)>>,
     <<RMC(Time, <<>>, "N", <<>>, "E"), GSA(<<>>)>>,
     <<RMC(<<>>, <<>>, "N", <<>>, "E"), GGA(<<>>, <<>>)>>,
     <<[GSA(<<2>>) EXCEPT !.valid = FALSE]>>}

MCSignals == {433}

MCSymmetry == Permutations(MCClients \ {App})
===============================================================================
