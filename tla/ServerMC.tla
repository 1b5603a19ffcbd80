------------------------------ MODULE ServerMC -------------------------------
(***************************************************************************)
(* Values for the model checker: a valid configuration, with each client   *)
(* and with monitoring on and off, and configurations with one defect.     *)
(***************************************************************************)
EXTENDS Server

Complete == [
    grpc   |-> {"addr", "cert", "key"},
    http   |-> {"addr", "cert", "key", "grpcAddr"},
    pubsub |-> {"mqtt"},
    es     |-> [enable |-> TRUE, logging |-> TRUE, set |-> {"urls", "index"}],
    db     |-> [type |-> "sqlite3", set |-> {"passphrase", "file"}],
    crypto |-> [mode |-> "pubkey", set |-> {"path"}]]

(* Elasticsearch may be off with message logging left on, its default.     *)
Sound == {[Complete EXCEPT !.pubsub = p, !.es.enable = e] :
              p \in {{"mqtt"}, {"gcp", "kafka"}, {"gcp"}}, e \in BOOLEAN}

OneDefect ==
    {[Complete EXCEPT !.grpc = s] : s \in SUBSET {"addr", "cert", "key"}}
    \cup {[Complete EXCEPT !.http = s] : s \in SUBSET {"addr", "cert", "key", "grpcAddr"}}
    \cup {[Complete EXCEPT !.pubsub = {}]}
    \cup {[Complete EXCEPT !.es = e] : e \in [enable : BOOLEAN, logging : BOOLEAN, set : SUBSET {"urls", "index"}]}
    \cup {[Complete EXCEPT !.db = d] :
              d \in [type : {"sqlite3", "postgres", "other"}, set : {{}, {"passphrase"}, {"passphrase", "file"}}]}
    \cup {[Complete EXCEPT !.crypto = c] : c \in [mode : {"symkey", "pubkey", "other"}, set : SUBSET {"path"}]}

(* Topic 2 has a character Kafka refuses.                                  *)
Refused == [k \in Kinds |-> IF k = "kafka" THEN {2} ELSE {}]

(* A ciphertext, a short archive, and three bytes that are no text.        *)
Received == {[cap |-> 32, utf8 |-> FALSE, magic |-> "none"],
             [cap |-> 5, utf8 |-> FALSE, magic |-> "gzip"],
             [cap |-> 3, utf8 |-> FALSE, magic |-> "none"]}

Everything == Sound \cup {c \in OneDefect : ~Valid(c) \/ c.pubsub = {}}

(* Left by an earlier process, with another client perhaps.                *)
Left == {{1}, {1, 2}}
=============================================================================
