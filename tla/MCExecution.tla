---------------------------- MODULE MCExecution ----------------------------
(* Queues that retry one error once, that republish it to a channel they do *)
(* not have, and whose error channel cannot be parsed.                      *)
EXTENDS Execution

CONSTANTS retry, sink, All

MCHandlers == [h \in ContextHook |->
  IF h = "output_blocked" THEN <<"usage">>
  ELSE IF h = "message_executed" THEN <<"configured", "queue", "usage">>
  ELSE IF h = "pipeline" THEN <<"remote">>
  ELSE <<"usage">>]

Plain == [fields |-> 0]
Republish(channel, n) == [set_handled |-> TRUE, republish |-> channel, max_retry |-> n]

Filter(message, category, line) ==
  [fields |-> 5, lineno |-> line, patterns |-> TRUE, message |-> message,
   category |-> category, module |-> All]

Channel(name, filter, topics, handlers) ==
  [name |-> name, filter |-> filter, topics |-> topics, handlers |-> handlers]

Default == Channel("default", Plain, <<sink>>, <<>>)
Again   == Channel("retry", Plain, <<retry>>, <<>>)
OnValue(handlers) ==
  Channel("error::ValueError", Filter(All, {"ValueError"}, 0), <<sink>>, handlers)
OnLine == Channel("error:x:::7", Filter({<<"x">>}, All, 7), <<>>,
                  <<[set_handled |-> FALSE, republish |-> "", max_retry |-> 0]>>)
Broken == Channel("error:::::::", [fields |-> 8], <<sink>>, <<>>)

MCDefinitions == {
  <<Default, OnValue(<<Republish("retry", 1)>>), Again>>,
  <<OnLine, OnValue(<<Republish("nowhere", 1)>>), Default>>,
  <<Default, OnLine, Broken>>}

Exception(remote, type, short, text, line) ==
  [remote |-> remote, type |-> type, short |-> short, message |-> text,
   module |-> "m", lineno |-> line]

MCErrors == {Exception(TRUE, "builtins.ValueError", "ValueError", "x", 7),
             Exception(FALSE, "arq.WorkerDiedError", "WorkerDiedError", "x", 7)}
MCResults == {<<>>, <<"default", "default">>}
MCTopic == {retry, sink}
MCCopy == 1 .. 2
=============================================================================
