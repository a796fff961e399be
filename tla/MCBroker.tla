------------------------------ MODULE MCBroker ------------------------------
(* The services of the default configuration, with one of a user that needs *)
(* the databases and one that needs a service nobody provides.              *)
EXTENDS Broker

CONSTANTS tasks, http, api, standalone, jobs, databases, rabbitmq, user, other

MCClass == {tasks, http, api, standalone, jobs, databases, rabbitmq, user, other}

MCName == [c \in MCClass |->
  CASE c = tasks -> "tasks_runner" [] c = http -> "http_client"
    [] c \in {api, standalone} -> "api_client" [] c = jobs -> "job_state"
    [] c = databases -> "databases" [] c = rabbitmq -> "rabbitmq"
    [] c = user -> "user" [] c = other -> "other"]

MCNeeds == [c \in MCClass |->
  CASE c = api -> {"http_client"} [] c = standalone -> {"databases", "tasks_runner"}
    [] c = jobs -> {"api_client"} [] c = user -> {"databases"}
    [] c = other -> {"user"} [] OTHER -> {}]

MCBase == <<tasks, http, api, jobs>>
MCConfigured == {<<rabbitmq>>, <<user, databases>>, <<databases, user, other>>,
                 <<other, user, databases>>, <<user>>}
=============================================================================
