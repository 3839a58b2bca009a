------------------------------ MODULE MCResolution ------------------------------
(***************************************************************************)
(* An instance of Resolution for TLC, with the checks of ContentCheck.     *)
(***************************************************************************)
EXTENDS Resolution, ContentCheck

Binary  == [kind |-> "Magic", prefixes |-> {<<"m", "n">>, <<"n">>}, trim |-> FALSE]
Text    == [kind |-> "Magic", prefixes |-> {<<"m", "n">>}, trim |-> TRUE]
Unset   == [kind |-> "Magic", prefixes |-> {<<>>}, trim |-> FALSE]
Html    == [kind |-> "NotHtml"]
Least(n) == [kind |-> "MinBytes", min |-> n]
Sha(b)  == [kind |-> "Sha256", digest |-> b]
Odd     == [kind |-> "Custom", accepts |-> {<<"m", "n">>, <<"n">>}]

\* Signatures whole, cut off, behind white space that fills the window, or
\* wrong; HTML at the start, after a byte order mark, or behind the window.
BodyDef == {<<"m", "n", "x", "x">>, <<"m">>, <<"n", "form">>,
            <<"sp", "sp", "m", "n">>, <<"sp", "m", "n">>,
            <<"bom", "page", "x">>, <<"x", "x", "form">>, <<>>}

CheckOf == [loose |-> {}, binary |-> {Html, Binary, Least(2)}, text |-> {Text},
            pins |-> {Sha(<<"m">>), Html}, clash |-> {Sha(<<"m">>), Sha(<<>>)},
            odd |-> {Odd, Unset}]
SizeOf  == [a \in DOMAIN CheckOf |-> IF a = "text" THEN 4 ELSE NoPin]

LengthDef   == [b \in Body |-> Len(b)]
SourcesDef  == [loose |-> 2, binary |-> 2, text |-> 1, pins |-> 1, clash |-> 1, odd |-> 0]
BadHeadsDef == [a \in Artifact |-> [b \in Body |->
    {n \in 0..Len(b) : ~CheckPrefix(CheckOf[a], SubSeq(b, 1, n))}]]
AcceptedDef == [a \in Artifact |-> {b \in Body : Validate(SizeOf[a], CheckOf[a], b)}]
===============================================================================
