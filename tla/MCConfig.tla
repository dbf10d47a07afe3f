------------------------------ MODULE MCConfig ------------------------------
(* An instance of Config for TLC: keys of one character, a buffer of four,  *)
(* and an int of 8 bits in which an M is 16.  The texts are all those of up *)
(* to three characters, and all files of two lines, right or wrong, of a    *)
(* key (one of them a part of another), an "=" or none, and a value.  Behind*)
(* the file there is nothing, the end of a line that is no number, or lines *)
(* an earlier file left there.                                              *)
EXTENDS Config

MCChar == {"A", "B", "C", "=", "0", "1", "2", "7", "-", "nl", "#"}

MCSettings ==
  << [key |-> <<"A">>, kind |-> "switch", default |-> [as |-> "switch", to |-> FALSE]],
     [key |-> <<"B">>, kind |-> "resolution",
      default |-> [as |-> "resolution", to |-> 1080]],
     [key |-> <<"C">>, kind |-> "size", default |-> [as |-> "size", to |-> 64]] >>

Keys == {<<"A">>, <<"B">>, <<"C">>, <<"A", "B">>}
Written == {<<>>, <<"1">>, <<"-", "1">>, <<"1", "1">>, <<"7", "2", "0">>, <<"#">>,
            <<"1", "#">>, <<"-">>}
WellFormed == {key \o <<"=">> \o value : key \in Keys, value \in Written}
Malformed == {key \o value : key \in Keys, value \in Written}
Ends == {<<>>, <<"nl">>}
TwoOf(lines) == {a \o <<"nl">> \o b \o end : a, b \in lines, end \in Ends}

MCTexts == BoundedSeq(MCChar, 3)
             \cup TwoOf(WellFormed \cup Malformed)
MCTails == {<<>>, <<"#", "nl", "C", "=", "-">>, <<"1", "nl", "A", "=", "1">>}

=============================================================================
