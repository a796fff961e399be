----------------------------- MODULE Execution -----------------------------
(***************************************************************************)
(* What a worker does with a message once it is polled (worker/executors/   *)
(* queue.py: run_queue, process_results, consume_output; bootstrap.py):     *)
(* it is executed under the hooks of its queue, its results or what handles *)
(* its error are published to the topics of their channels one after the   *)
(* other, and the context of the message is left at the end of that.        *)
(*                                                                          *)
(* A republication goes to a topic the queue itself consumes, with the      *)
(* count of retries in its metadata: a copy.  An output is published first  *)
(* without waiting, then, when that was refused or failed, waiting.  A      *)
(* publication that fails may have reached its topic.  The scheduling, the  *)
(* parking and the resources are in Executor.                               *)
(***************************************************************************)
EXTENDS Hooks, ErrorHandling

CONSTANTS
  Definitions,  \* the outputs the queue may have
  Topic,     \* the topics of the outputs
  Copy,      \* bound: the copies of the message that are polled
  Results,   \* the sequences of channels a pipeline may output to
  Errors,    \* the exceptions of a pipeline or of its executor
  Retry      \* the topic that the queue consumes

ASSUME ExecutionAssumption ==
  /\ IsFiniteSet(Copy) /\ Copy \subseteq Nat
  /\ \A definition \in Definitions : \A i \in DOMAIN definition :
       /\ i \in Nat
       /\ definition[i].topics \in Seq(Topic)
       /\ definition[i].handlers \in
            Seq([set_handled : BOOLEAN, republish : STRING, max_retry : Nat])

VARIABLES
  topic,      \* the copies in the input topic: their retries, in order
  pc,         \* where the message is
  retried,    \* its metadata: error_handler.retried
  frames,     \* the emissions it is in
  stages,     \* the stages of the usage metrics that hold it
  raised,     \* its exception, a set of at most one
  handled,    \* HandledError.handled
  outputs,    \* what process_results publishes: topics, republished or not, at
              \* the places of the item and of its topic
  left,       \* the outputs that were not tried yet
  next,       \* the output being published
  accepted,   \* accepted[x][p]: how often the topic of output p accepted it
  doubtful,   \* the outputs whose first publication failed (history)
  errors,     \* consume_output collected an error
  context     \* of the message: "none", "open", "done" or "failed"

publishVars == <<outputs, left, next, accepted, doubtful, errors>>
vars == <<channels, topic, pc, retried, frames, stages, raised, handled,
          publishVars, context>>

Init ==
  /\ channels \in Definitions
  /\ topic = <<0>>
  /\ pc = [x \in Copy |-> "none"]
  /\ retried = [x \in Copy |-> 0]
  /\ frames = [x \in Copy |-> <<>>]
  /\ stages = [x \in Copy |-> {}]
  /\ raised = [x \in Copy |-> {}]
  /\ handled = [x \in Copy |-> FALSE]
  /\ outputs = [x \in Copy |-> <<>>]
  /\ left = [x \in Copy |-> {}]
  /\ next = [x \in Copy |-> <<0, 0>>]
  /\ accepted = [x \in Copy |-> <<>>]
  /\ doubtful = [x \in Copy |-> {}]
  /\ errors = [x \in Copy |-> FALSE]
  /\ context = [x \in Copy |-> "none"]

----------------------------------------------------------------------------
(* Until the executor takes it *)

\* The queue polls a copy; message_polled is emitted.
Poll(x) ==
  /\ pc[x] = "none" /\ \A y \in Copy : y < x => pc[y] # "none"
  /\ topic # <<>>
  /\ topic' = Tail(topic)
  /\ pc' = [pc EXCEPT ![x] = "polled"]
  /\ retried' = [retried EXCEPT ![x] = Head(topic)]
  /\ stages' = [stages EXCEPT ![x] = {"polling"}]
  /\ context' = [context EXCEPT ![x] = "open"]
  /\ UNCHANGED <<channels, frames, raised, handled, publishVars>>

Advance(x, from, to, before, after) ==
  /\ pc[x] = from
  /\ pc' = [pc EXCEPT ![x] = to]
  /\ stages' = [stages EXCEPT ![x] = Move(@, before, after)]
  /\ UNCHANGED <<channels, topic, retried, frames, raised, handled,
                 publishVars, context>>

\* ExecutorWorker.run emits message_scheduled, queue_submit message_submitted.
Schedule(x) == Advance(x, "polled", "scheduled", "polling", "scheduling")
Submit(x) == Advance(x, "scheduled", "queued", "scheduling", "submitting")

----------------------------------------------------------------------------
(* Emissions *)

Top(x) == Last(frames[x])
InFrame(x, h, phase) ==
  frames[x] # <<>> /\ Top(x).hook = h /\ Top(x).phase = phase

WithTop(x, f) == [frames EXCEPT ![x] = Append(Front(@), f)]

\* run_queue takes the message, and emits message_executed.
Take(x) ==
  /\ pc[x] = "queued"
  /\ pc' = [pc EXCEPT ![x] = "executing"]
  /\ frames' = [frames EXCEPT ![x] = <<Emit("message_executed")>>]
  /\ UNCHANGED <<channels, topic, retried, stages, raised, handled,
                 publishVars, context>>

CallHandler(x) ==
  /\ frames[x] # <<>> /\ Top(x).phase = "call"
  /\ \E yields \in MayYield(Top(x)) : frames' = WithTop(x, Call(Top(x), yields))
  /\ stages' = [stages EXCEPT ![x] =
                  IF Handler(Top(x)) = "usage" THEN StagesCalled(Top(x).hook, @) ELSE @]
  /\ UNCHANGED <<channels, topic, pc, retried, raised, handled, publishVars,
                 context>>

ResumeHandler(x) ==
  /\ frames[x] # <<>> /\ Top(x).phase = "leave" /\ Top(x).generators # <<>>
  /\ frames' = WithTop(x, Resume(Top(x)))
  /\ stages' = [stages EXCEPT ![x] =
                  IF Resumed(Top(x)) = "usage" THEN StagesResumed(Top(x).hook, @) ELSE @]
  /\ UNCHANGED <<channels, topic, pc, retried, raised, handled, publishVars,
                 context>>

Left(x, h) == InFrame(x, h, "leave") /\ Top(x).generators = <<>>

----------------------------------------------------------------------------
(* run_queue *)

\* The outputs of the items of a pipeline or of its error: one for each of the
\* topics of their channels.
Places(items) ==
  UNION {{i} \X DOMAIN TopicsOf(items[i].channel) : i \in DOMAIN items}

Outputs(items) ==
  [p \in Places(items) |->
     [topic |-> TopicsOf(items[p[1]].channel)[p[2]],
      republished |-> items[p[1]].republished]]

Publishing(x, items) ==
  /\ outputs' = [outputs EXCEPT ![x] = Outputs(items)]
  /\ left' = [left EXCEPT ![x] = Places(items)]
  /\ accepted' = [accepted EXCEPT ![x] = [p \in Places(items) |-> 0]]

\* process_message: PipelineBootstrap emits the hook of the pipeline, where the
\* executor runs it.
Bootstrap(x) ==
  /\ InFrame(x, "message_executed", "scope")
  /\ frames' = [frames EXCEPT ![x] = Append(@, Emit("pipeline"))]
  /\ UNCHANGED <<channels, topic, pc, retried, stages, raised, handled,
                 publishVars, context>>

\* The pipeline returns: run_pipeline collected its outputs.
PipelineReturns(x) ==
  /\ InFrame(x, "pipeline", "scope")
  /\ \E names \in Results :
       Publishing(x, [i \in DOMAIN names |->
                        [channel |-> names[i], republished |-> FALSE]])
  /\ frames' = WithTop(x, EndScope(Top(x)))
  /\ UNCHANGED <<channels, topic, pc, retried, stages, raised, handled, next,
                 doubtful, errors, context>>

\* It raises, its message that cannot be deserialised included.
PipelineRaises(x) ==
  /\ InFrame(x, "pipeline", "scope")
  /\ \E e \in Errors : e.remote /\ raised' = [raised EXCEPT ![x] = {e}]
  /\ frames' = WithTop(x, EndScope(Top(x)))
  /\ UNCHANGED <<channels, topic, pc, retried, stages, handled, publishVars,
                 context>>

\* process_pipeline_exception: an error channel makes results of the exception,
\* or it goes on.
HandleError(x, e) ==
  IF Handles(e)
    THEN /\ handled' = [handled EXCEPT ![x] = Handled(e, retried[x])]
         /\ retried' = [retried EXCEPT ![x] = RetriedAfter(e, @)]
         /\ Publishing(x, ErrorOutputs(e, retried[x]))
    ELSE /\ Publishing(x, <<>>)
         /\ UNCHANGED <<handled, retried>>

ExecutedFrame(x) == Head(frames[x])

\* What the pipeline returned or raised is back in run_queue.
Executed(x) ==
  /\ Left(x, "pipeline")
  /\ frames' = [frames EXCEPT ![x] = <<EndScope(ExecutedFrame(x))>>]
  /\ IF raised[x] = {}
       THEN UNCHANGED <<retried, handled, outputs, left, accepted>>
       ELSE \E e \in raised[x] : HandleError(x, e)
  /\ UNCHANGED <<channels, topic, pc, stages, raised, next, doubtful, errors,
                 context>>

\* The executor raises before the pipeline starts, while it runs or before its
\* answer is back: whatever the pipeline does is lost.
ExecutorRaises(x) ==
  /\ frames[x] # <<>> /\ ExecutedFrame(x).hook = "message_executed"
  /\ ExecutedFrame(x).phase = "scope"
  /\ \E e \in Errors :
       /\ ~e.remote
       /\ raised' = [raised EXCEPT ![x] = {e}]
       /\ HandleError(x, e)
  /\ frames' = [frames EXCEPT ![x] = <<EndScope(ExecutedFrame(x))>>]
  /\ UNCHANGED <<channels, topic, pc, stages, next, doubtful, errors, context>>

Failed(x) == raised[x] # {}
Unhandled(x) == \E e \in raised[x] : ~Handles(e)

\* With results, a task of their own processes them, which owns the context of
\* the message from then on; without, the exception leaves it.
Leave(x) ==
  /\ Left(x, "message_executed")
  /\ IF Unhandled(x)
       THEN /\ pc' = [pc EXCEPT ![x] = "done"]
            /\ context' = [context EXCEPT ![x] = "failed"]
            /\ frames' = [frames EXCEPT ![x] = <<>>]
       ELSE /\ pc' = [pc EXCEPT ![x] = "processing"]
            /\ frames' = [frames EXCEPT ![x] = <<Emit("results_processed")>>]
            /\ UNCHANGED context
  /\ UNCHANGED <<channels, topic, retried, stages, raised, handled,
                 publishVars>>

----------------------------------------------------------------------------
(* consume_output *)

Output(x) == outputs[x][next[x]]

\* The topic has the message: the input topic has one more copy of it.
Accept(x) ==
  /\ accepted' = [accepted EXCEPT ![x][next[x]] = @ + 1]
  /\ topic' = IF Output(x).topic = Retry /\ Output(x).republished
                THEN Append(topic, retried[x]) ELSE topic

\* The loops over the items, and over the topics of each.
Before(p, q) == p[1] < q[1] \/ (p[1] = q[1] /\ p[2] < q[2])

NextOutput(x) ==
  /\ InFrame(x, "results_processed", "scope")
  /\ \E p \in left[x] :
       /\ \A q \in left[x] \ {p} : Before(p, q)
       /\ next' = [next EXCEPT ![x] = p]
       /\ left' = [left EXCEPT ![x] = @ \ {p}]
  /\ frames' = [frames EXCEPT ![x] = Append(@, Emit("message_published"))]
  /\ UNCHANGED <<channels, topic, pc, retried, stages, raised, handled,
                 outputs, accepted, doubtful, errors, context>>

\* Mutant: what the topic answers to the first publication is not looked at.
PublishNowTwice(x) ==
  /\ InFrame(x, "message_published", "scope")
  /\ \/ Accept(x) /\ UNCHANGED doubtful
     \/ UNCHANGED <<topic, accepted, doubtful>>
     \/ Accept(x) /\ doubtful' = [doubtful EXCEPT ![x] = @ \cup {next[x]}]
  /\ frames' = [frames EXCEPT ![x] = Append(@, Emit("output_blocked"))]
  /\ UNCHANGED <<channels, pc, retried, stages, raised, handled, outputs, left,
                 next, errors, context>>

\* topic.publish(wait=False): accepted, refused, or an exception, which is
\* suppressed; the last two block the output.
PublishNow(x) ==
  /\ InFrame(x, "message_published", "scope")
  /\ \/ /\ Accept(x)
        /\ frames' = WithTop(x, EndScope(Top(x)))
        /\ UNCHANGED doubtful
     \/ /\ frames' = [frames EXCEPT ![x] = Append(@, Emit("output_blocked"))]
        /\ UNCHANGED <<topic, accepted, doubtful>>
     \/ /\ frames' = [frames EXCEPT ![x] = Append(@, Emit("output_blocked"))]
        /\ Accept(x)
        /\ doubtful' = [doubtful EXCEPT ![x] = @ \cup {next[x]}]
  /\ UNCHANGED <<channels, pc, retried, stages, raised, handled, outputs, left,
                 next, errors, context>>

\* Mutant: an error of the second publication is suppressed like that of the
\* first.
PublishWaitSuppressing(x) ==
  /\ InFrame(x, "output_blocked", "scope")
  /\ frames' = WithTop(x, EndScope(Top(x)))
  /\ Accept(x) \/ UNCHANGED <<topic, accepted>>
  /\ UNCHANGED <<channels, pc, retried, stages, raised, handled, outputs, left,
                 next, doubtful, errors, context>>

\* topic.publish(wait=True)
PublishWait(x) ==
  /\ InFrame(x, "output_blocked", "scope")
  /\ frames' = WithTop(x, EndScope(Top(x)))
  /\ \/ Accept(x) /\ UNCHANGED errors
     \/ /\ errors' = [errors EXCEPT ![x] = TRUE]
        /\ UNCHANGED <<topic, accepted>>
     \/ /\ errors' = [errors EXCEPT ![x] = TRUE]
        /\ Accept(x)
  /\ UNCHANGED <<channels, pc, retried, stages, raised, handled, outputs, left,
                 next, doubtful, context>>

\* The output was blocked no longer, and with that it is published or failed.
Unblocked(x) ==
  /\ Left(x, "output_blocked")
  /\ frames' = [frames EXCEPT ![x] =
                  Append(Front(Front(@)), EndScope(Last(Front(@))))]
  /\ UNCHANGED <<channels, topic, pc, retried, stages, raised, handled,
                 publishVars, context>>

\* Mutant: an output that failed is tried again until it is published.
PublishedOnly(x) ==
  /\ Left(x, "message_published")
  /\ frames' = [frames EXCEPT ![x] = Front(@)]
  /\ left' = [left EXCEPT ![x] = IF accepted[x][next[x]] > 0 THEN @ ELSE @ \cup {next[x]}]
  /\ UNCHANGED <<channels, topic, pc, retried, stages, raised, handled,
                 outputs, next, accepted, doubtful, errors, context>>

Published(x) ==
  /\ Left(x, "message_published")
  /\ frames' = [frames EXCEPT ![x] = Front(@)]
  /\ UNCHANGED <<channels, topic, pc, retried, stages, raised, handled,
                 publishVars, context>>

\* All outputs were tried: the errors are raised together, or the events of
\* the pipeline are emitted.
AllTried(x) ==
  /\ InFrame(x, "results_processed", "scope")
  /\ left[x] = {}
  /\ frames' = WithTop(x, EndScope(Top(x)))
  /\ UNCHANGED <<channels, topic, pc, retried, stages, raised, handled,
                 publishVars, context>>

\* process_results leaves the context, with the original error if that one is
\* not handled.
Processed(x) ==
  /\ Left(x, "results_processed")
  /\ pc' = [pc EXCEPT ![x] = "done"]
  /\ frames' = [frames EXCEPT ![x] = <<>>]
  /\ context' = [context EXCEPT ![x] =
       IF errors[x] \/ (Failed(x) /\ ~handled[x]) THEN "failed" ELSE "done"]
  /\ UNCHANGED <<channels, topic, retried, stages, raised, handled,
                 publishVars>>

\* ExecutorQueue.close cancels what does not end in time: no generator is
\* resumed, and the message leaves the stages with its last reference.
Cancel(x) ==
  /\ pc[x] \in {"executing", "processing"}
  /\ pc' = [pc EXCEPT ![x] = "done"]
  /\ frames' = [frames EXCEPT ![x] = <<>>]
  /\ stages' = [stages EXCEPT ![x] = {}]
  /\ context' = [context EXCEPT ![x] = "failed"]
  /\ UNCHANGED <<channels, topic, retried, raised, handled, publishVars>>

----------------------------------------------------------------------------
Step(x) ==
  \/ Schedule(x) \/ Submit(x) \/ Take(x) \/ CallHandler(x) \/ ResumeHandler(x)
  \/ Bootstrap(x) \/ PipelineReturns(x) \/ PipelineRaises(x) \/ Executed(x)
  \/ ExecutorRaises(x) \/ Leave(x) \/ NextOutput(x) \/ PublishNow(x)
  \/ PublishWait(x) \/ Unblocked(x) \/ Published(x) \/ AllTried(x) \/ Processed(x)

Next == \E x \in Copy : Poll(x) \/ Step(x) \/ Cancel(x)

Spec == Init /\ [][Next]_vars

\* Pipelines, handlers and publications end.
FairSpec == Spec /\ \A x \in Copy : WF_vars(Step(x))

----------------------------------------------------------------------------
(* Properties *)

Publication == [topic : Topic, republished : BOOLEAN]

TypeOK ==
  /\ channels \in Definitions
  /\ topic \in Seq(Nat)
  /\ pc \in [Copy -> {"none", "polled", "scheduled", "queued", "executing",
                      "processing", "done"}]
  /\ retried \in [Copy -> Nat]
  /\ frames \in [Copy -> Seq(Frame)]
  /\ stages \in [Copy -> SUBSET Stage]
  /\ raised \in [Copy -> SUBSET Errors]
  /\ handled \in [Copy -> BOOLEAN]
  /\ errors \in [Copy -> BOOLEAN]
  /\ \A d \in {DOMAIN outputs, DOMAIN left, DOMAIN next, DOMAIN accepted,
               DOMAIN doubtful} : d = Copy
  /\ \A x \in Copy :
       /\ outputs[x] \in [DOMAIN outputs[x] -> Publication]
       /\ accepted[x] \in [DOMAIN outputs[x] -> Nat]
       /\ left[x] \subseteq DOMAIN outputs[x]
  /\ context \in [Copy -> {"none", "open", "done", "failed"}]

\* A message is acknowledged only when every topic of its outputs has them
\* (process_results, consume_output).
AcknowledgedIsPublished ==
  \A x \in Copy : context[x] = "done" =>
    \A p \in DOMAIN outputs[x] : accepted[x][p] > 0

\* A message whose pipeline failed and whose error channel retries is kept: it
\* is acknowledged only when a topic has a copy of it, unless the channels
\* that republish have no topic (process_pipeline_exception).
RetryKept ==
  \A x \in Copy : context[x] = "done" => \A e \in raised[x] :
    LET again == Republishers(ChannelOf(e)) IN
      again = {}
        \/ \E h \in again : TopicsOf(ChannelOf(e).handlers[h].republish) = <<>>
        \/ \E p \in DOMAIN outputs[x] : outputs[x][p].republished /\ accepted[x][p] > 0

\* A topic has an output twice only when its first publication failed after it
\* reached the topic (consume_output tries again whatever the error was).
TwiceOnlyInDoubt ==
  \A x \in Copy : \A p \in DOMAIN outputs[x] :
    accepted[x][p] <= IF p \in doubtful[x] THEN 2 ELSE 1

\* The usage metrics count a message in one stage at a time, and in none once
\* its context is left (UsageMetrics, with consume_output and process_results).
OneStage ==
  \A x \in Copy : /\ Cardinality(stages[x]) <= 1
                  /\ pc[x] = "done" => stages[x] = {}

\* The context of a message that is polled is left in the end.
MessageEnds == \A x \in Copy : pc[x] = "polled" ~> context[x] \in {"done", "failed"}
=============================================================================
