---------------------------- MODULE E4ServiceMC -----------------------------
(***************************************************************************)
(* Values for the model checker: the API calls of each instance.           *)
(***************************************************************************)
EXTENDS E4Service, TLC

(* Calls that give keys, and those that add and remove whom they are for.  *)
KeyCalls == {"NewClient", "RemoveClient", "NewClientKey", "ResetClientPubKeys",
             "NewTopic", "RemoveTopic", "NewTopicClient"}

(* Calls on the members of a topic.                                        *)
TopicCalls == {"NewClient", "RemoveClient", "ResetClient", "NewTopic", "RemoveTopic",
               "NewTopicClient", "RemoveTopicClient"}

(* Calls on pairs of clients and their keys.                               *)
PairCalls == {"NewClient", "RemoveClient", "NewClientKey", "LinkClient", "UnlinkClient",
              "SendClientPubKey", "RemoveClientPubKey"}

(* One scenario.                                                           *)
JoinAndRemove == {"NewTopicClient", "RemoveTopic"}

WorkerSymmetry == Permutations(Workers)
=============================================================================
