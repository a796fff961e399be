--------------------------- MODULE ErrorHandling ---------------------------
(***************************************************************************)
(* What becomes of an exception of a pipeline (worker/error_handling.py):   *)
(* the first error channel of the outputs of the queue whose filter matches *)
(* it takes it, with an output for the error and, for each handler that     *)
(* republishes and has retries left, the message itself.                    *)
(*                                                                          *)
(* A pattern of a filter is the set of what it matches, Anything when it is *)
(* empty.  An exception raised in the process of an executor comes back as  *)
(* a RemoteException, whose message is its formatted traceback.             *)
(***************************************************************************)
EXTENDS Integers, FiniteSets, SequencesExt

CONSTANTS
  Anything    \* the pattern that is not given

VARIABLES
  channels    \* queue.output, in order: records of a name, a filter for the
              \* channels in "error:", the topics and the error handlers

NoFilter == [fields |-> 0]

----------------------------------------------------------------------------
(* parse_warning_filter: an error channel has at most five fields, of which *)
(* the line is a natural number *)

Malformed(f) == f.fields > 5 \/ f.lineno < 0 \/ ~f.patterns

Matches(pattern, text) == pattern = Anything \/ text \in pattern

\* get_exception_details
Message(e) == IF e.remote THEN <<"formatted", e.type, e.message>> ELSE <<e.message>>

\* does_error_match, match_exception_name: the full name, or its last part.
DoesErrorMatch(e, f) ==
  /\ Matches(f.message, Message(e))
  /\ Matches(f.category, e.type) \/ Matches(f.category, e.short)
  /\ Matches(f.module, e.module)
  /\ f.lineno \in {0, e.lineno}

\* A channel that cannot be parsed is logged and taken as a match.
Takes(c, e) ==
  /\ c.filter # NoFilter
  /\ Malformed(c.filter) \/ DoesErrorMatch(e, c.filter)

Taking(e) == {i \in DOMAIN channels : Takes(channels[i], e)}
Handles(e) == Taking(e) # {}

\* The first channel that matches.
ChannelOf(e) == channels[Min(Taking(e))]

----------------------------------------------------------------------------
(* republish and the results of process_pipeline_exception *)

Republishers(c) == {h \in DOMAIN c.handlers : c.handlers[h].republish # ""}

\* The handlers that republish a message retried that many times before.
Republished(c, retried) ==
  {h \in Republishers(c) : retried < c.handlers[h].max_retry}

IsHandled(c) == \A i \in DOMAIN c.handlers : c.handlers[i].set_handled

\* Mutant: a channel that handles the error does, republished or not.
HandledAnyway(e, retried) == IsHandled(ChannelOf(e))

\* An error whose retries are over is not handled.
Handled(e, retried) ==
  LET c == ChannelOf(e) IN
    IsHandled(c) /\ (Republishers(c) # {} => Republished(c, retried) # {})

RetriedAfter(e, retried) ==
  IF Republishers(ChannelOf(e)) # {} THEN retried + 1 ELSE retried

\* The channels of the outputs: the error, then each republication, at the place
\* of its handler.
ErrorOutputs(e, retried) ==
  LET c == ChannelOf(e) IN
    [i \in {0} \cup Republished(c, retried) |->
       IF i = 0 THEN [channel |-> c.name, republished |-> FALSE]
                ELSE [channel |-> c.handlers[i].republish, republished |-> TRUE]]

\* processable.output.get(item.channel, []): the topics of a channel, none
\* when the queue has no such channel.
Named(name) == {i \in DOMAIN channels : channels[i].name = name}

TopicsOf(name) ==
  IF Named(name) = {} THEN <<>>
                      ELSE channels[Min(Named(name))].topics
=============================================================================
