------------------------------- MODULE Config --------------------------------
(***************************************************************************)
(* The configuration of the server (internal/config) as far as it decides  *)
(* whether and how the server starts.  A string is set or empty: a group   *)
(* of settings is the set of those that are set.                           *)
(***************************************************************************)
EXTENDS FiniteSets

Configs == [
    grpc   : SUBSET {"addr", "cert", "key"},
    http   : SUBSET {"addr", "cert", "key", "grpcAddr"},
    pubsub : SUBSET {"mqtt", "kafka", "gcp"},            \* the clients that are enabled
    es     : [enable : BOOLEAN, logging : BOOLEAN, set : SUBSET {"urls", "index"}],
    db     : [type : {"sqlite3", "postgres", "other"},
              set : SUBSET {"passphrase", "file", "host", "database", "username", "password",
                            "schema", "secure"}],
    crypto : [mode : {"symkey", "pubkey", "other"}, set : SUBSET {"path"}]]

(* Message logging needs elasticsearch, and to be asked for.               *)
MessageLoggingEnabled_Asked(c) == c.es.logging
MessageLoggingEnabled(c) == c.es.enable /\ c.es.logging

ValidServer(set) == {"addr", "cert", "key"} \subseteq set

ValidHTTP(set) == ValidServer(set) /\ "grpcAddr" \in set

ValidES(c) ==
    /\ c.es.enable => "urls" \in c.es.set
    /\ MessageLoggingEnabled(c) => "index" \in c.es.set

ValidDB(db) ==
    /\ "passphrase" \in db.set
    /\ db.type \in {"sqlite3", "postgres"}
    /\ db.type = "sqlite3" => "file" \in db.set
    /\ db.type = "postgres" => {"host", "database", "username", "password", "schema", "secure"} \subseteq db.set

ValidCrypto(crypto) ==
    /\ crypto.mode \in {"symkey", "pubkey"}
    /\ crypto.mode = "pubkey" => "path" \in crypto.set

(* The settings of the publish/subscribe clients are not checked.          *)
Valid(c) == /\ ValidServer(c.grpc) /\ ValidHTTP(c.http)
            /\ ValidES(c) /\ ValidDB(c.db) /\ ValidCrypto(c.crypto)

(* The client New creates: the first that is enabled, in this order.       *)
PubSubKind(c) ==
    IF "mqtt" \in c.pubsub THEN "mqtt"
    ELSE IF "kafka" \in c.pubsub THEN "kafka"
    ELSE IF "gcp" \in c.pubsub THEN "gcp" ELSE "none"
=============================================================================
