------------------------------- MODULE Hooks -------------------------------
(***************************************************************************)
(* The context hooks of a worker (utils/hooks.py and services/hooks.py),    *)
(* the one around the pipeline where it runs (bootstrap.py), and the stages *)
(* usage_metrics.py derives from them.                                      *)
(*                                                                          *)
(* An emission calls the handlers of its hook in order and keeps the        *)
(* generators that yielded; then its scope runs; then it resumes the        *)
(* generators in the reverse order, with the result or the error of the     *)
(* scope.  Emissions nest, the scope of one emitting another: what a        *)
(* message is in is a stack of frames.  A handler that raises, at whatever  *)
(* end, goes to hook_failed and nothing else changes, so that a handler is  *)
(* here one that yields or one that does not.  The hook of the pipeline is  *)
(* the synchronous ContextHook, which does the same without awaiting.       *)
(***************************************************************************)
EXTENDS Integers, FiniteSets, SequencesExt

CONSTANTS
  Handlers   \* Handlers[h]: the handlers of the context hook h, in order

ContextHook == {"message_executed", "results_processed", "message_published",
                "output_blocked", "pipeline"}

Kind == {"configured", "queue", "usage", "remote"}

ASSUME HooksAssumption == Handlers \in [ContextHook -> Seq(Kind)]

\* The usage metrics handle every hook of a message (UsageMetrics.open);
\* that of the pipeline has no stage.
ASSUME UsageAssumption ==
  \A h \in ContextHook \ {"pipeline"} : \E i \in DOMAIN Handlers[h] : Handlers[h][i] = "usage"

Stage == {"polling", "scheduling", "submitting", "executing",
          "processing_results", "publishing", "waiting_publish"}

Frame == {f \in [hook : ContextHook, phase : {"call", "scope", "leave"},
                  called : Nat, generators : Seq(Kind)] :
            f.phase = "call" => f.called < Len(Handlers[f.hook])}

----------------------------------------------------------------------------
(* AsyncContextHookEmiter and ContextHookEmiter: the frame f of one emission *)

Emit(h) ==
  [hook |-> h, phase |-> IF Handlers[h] = <<>> THEN "scope" ELSE "call",
   called |-> 0, generators |-> <<>>]

Handler(f) == Handlers[f.hook][f.called + 1]

\* on_call, one handler: it yields, or it is done or raises before it does.
\* The usage metrics always yield; Hooks.on_* only when the queue or the
\* message names handlers of its own.
Call(f, yields) ==
  [f EXCEPT !.called = @ + 1,
            !.generators = IF yields THEN Append(@, Handler(f)) ELSE @,
            !.phase = IF f.called + 1 = Len(Handlers[f.hook]) THEN "scope" ELSE "call"]

MayYield(f) == IF Handler(f) = "usage" THEN {TRUE} ELSE BOOLEAN

\* The scope returned or raised: on_result or on_error.
EndScope(f) == [f EXCEPT !.phase = "leave"]

\* The generator that is resumed next, the last one that yielded.
Resumed(f) == Last(f.generators)
Resume(f) == [f EXCEPT !.generators = Front(@)]

----------------------------------------------------------------------------
(* UsageMetrics: the stages that hold a message, after its handler is called *)
(* and after it is resumed; the hook of the pipeline has none *)

Move(stages, from, to) == (stages \ {from}) \cup {to}

StagesCalled(h, stages) ==
  CASE h = "message_executed"  -> Move(stages, "submitting", "executing")
    [] h = "results_processed" -> stages \cup {"processing_results"}
    [] h = "message_published" -> Move(stages, "processing_results", "publishing")
    [] h = "output_blocked"    -> Move(stages, "publishing", "waiting_publish")
    [] h = "pipeline"          -> stages

\* Mutant: the message stays in the stage of its publication.
StagesResumedKeeping(h, stages) ==
  CASE h = "message_executed"  -> stages \ {"executing"}
    [] h = "results_processed" -> stages \ {"processing_results"}
    [] h = "message_published" -> stages \cup {"processing_results"}
    [] h = "output_blocked"    -> stages \ {"waiting_publish"}
    [] h = "pipeline"          -> stages

StagesResumed(h, stages) ==
  CASE h = "message_executed"  -> stages \ {"executing"}
    [] h = "results_processed" -> stages \ {"processing_results"}
    [] h = "message_published" -> Move(stages, "publishing", "processing_results")
    [] h = "output_blocked"    -> stages \ {"waiting_publish"}
    [] h = "pipeline"          -> stages
=============================================================================
