------------------------------ MODULE MCServices ------------------------------
(***************************************************************************)
(* Two replicas.  A digest with an event that is not valid between two     *)
(* that are, a message that does not decode, and one more.                 *)
(***************************************************************************)
EXTENDS Services

V == "valid"
MCContents ==
    [kind \in Kinds |->
        CASE kind = "orchestrator" -> << <<V>>, <<"invalid", V>>, <<>> >>
          [] kind = "bridge" -> << <<V>>, <<"invalid">>, <<V>> >>
          [] OTHER -> << <<V>>, <<>>, <<V>> >>]
=============================================================================
