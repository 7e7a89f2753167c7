------------------------------- MODULE MCServer --------------------------------
(* A small instance of Server: two connections, one of whose peers may stop     *)
(* reading.                                                                     *)
EXTENDS Server, TLC

CONSTANTS c1, c2

Names(ns) == [name : ns, pw : {"none"}]

\* One peer sets a password and blocks, the other must find its way in.
Peers == (c1 :> Names({"BLPOP", "WAIT"}) \cup [name : {"SETUSER"}, pw : Passwords])
      @@ (c2 :> Names(Plain \ {"WAIT"}) \cup [name : {"AUTH"}, pw : Attempts])
================================================================================
