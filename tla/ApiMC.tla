-------------------------------- MODULE ApiMC --------------------------------
(***************************************************************************)
(* Values for the model checker: the functional tests need four clients    *)
(* and four topics, the command line client has four and two.              *)
(***************************************************************************)
EXTENDS FunctionalTests

Changing == {"NewClient", "RemoveClient", "NewTopic", "RemoveTopic",
             "NewTopicClient", "RemoveTopicClient", "LinkClient", "UnlinkClient"}
Requests == {Request(method, c, d, t, 0, 0) : method \in Changing, c \in 1..3, d \in 1..2, t \in 1..2}

(* Everything linked with everything; and client 2, alone.                 *)
Found == {[registered |-> 1..4, existing |-> 1..2, members |-> (1..4) \X (1..2), pairs |-> (1..4) \X (1..4)],
          [registered |-> {2}, existing |-> {}, members |-> {}, pairs |-> {}]}

Zero == 0..1
Few == {0, 3}
=============================================================================
