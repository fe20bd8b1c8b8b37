------------------------------- MODULE MCApi -------------------------------
(***************************************************************************)
(* Instances of Api for TLC.                                               *)
(***************************************************************************)
EXTENDS Api, TLC

\* "9" is a number that no member has, "99" is beyond int64, "999" beyond uint64.
NumberTokens == {"2", "3", "9", "99", "999"}
Values == [t \in {"2", "3", "9", "99"} |->
             CASE t = "2" -> 2 [] t = "3" -> 3 [] t = "9" -> 9 [] t = "99" -> 99]

ThreeNodes == 1 :> "h1" @@ 2 :> "h2" @@ 3 :> "h3"

\* Well-formed and ill-formed messages of every format, and of none.
Messages ==
  {<<"GET", "p", "x">>, <<"GET", "p">>, <<"GET", "p", "">>,
   <<"DEL", "p", "x", "2">>, <<"DEL", "p", "x">>, <<"DEL", "p", "x", "99">>,
   <<"PUT", "2", "{d}">>, <<"PUT", "{d}">>, <<"PUT", "99", "{d}">>, <<"PUT", "2", "{bad}">>,
   <<"PUT", "2", "{d}", "{d}">>,
   <<"POST", "{d}">>, <<"POST", "{bad}">>, <<"POST", "">>, <<"POST", "{d}", "">>,
   <<"SEARCH", "p", "">>, <<"SEARCH", "p", "", "x">>,
   <<"CREATE_PART", "p">>, <<"DELETE_PART", "p">>, <<"DELETE_PART", "p", "x">>,
   <<"REMOVE_NODE", "x">>, <<"REMOVE_NODE", "999">>,
   <<"JOIN_NODE">>, <<"get", "p", "x">>, <<"">>, <<"exit">>}
    \cup {<<"JOIN_NODE", h>> : h \in {"h1", "h4", "h5"}}
    \cup {<<"REMOVE_NODE", n>> : n \in {"2", "3", "9"}}
=============================================================================
