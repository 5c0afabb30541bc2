------------------------------ MODULE MCServe ------------------------------
(***************************************************************************)
(* A bounded instance of Serve for TLC: two instances, two requests, and   *)
(* two functions.  One is registered twice, and the other one has an id    *)
(* that is its slug.                                                       *)
(***************************************************************************)
EXTENDS Serve

MCAppName == <<"app">>

MCCode == << [id |-> <<"a">>, version |-> 1], [id |-> <<"app", "a">>, version |-> 1],
             [id |-> <<"a">>, version |-> 2] >>
=============================================================================
