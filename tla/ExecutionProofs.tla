-------------------------- MODULE ExecutionProofs --------------------------
(***************************************************************************)
(* Proofs about Execution and the Hooks and ErrorHandling it extends, for   *)
(* any outputs of the queue, handlers, exceptions and number of copies: a   *)
(* message is acknowledged only when its outputs are published, its retry   *)
(* is kept, a topic has an output twice only when it was in doubt, and the  *)
(* usage metrics count it in one stage at a time.                           *)
(*                                                                         *)
(* What a step finds follows from the emissions a message is in, so that    *)
(* the invariant first says how these nest (Nested), and the one of the     *)
(* stages (StagesInv) which of them resumes the usage metrics.              *)
(***************************************************************************)
EXTENDS Execution, SequenceTheorems, FiniteSetTheorems, WellFoundedInduction, TLAPS

\* How the emissions nest: the hook of the pipeline in that of the execution,
\* that of a blocked output in that of the publication in that of the results.
Nested(x) ==
  LET s == frames[x] IN
    /\ Len(s) <= 3
    /\ s = <<>> <=> pc[x] \notin {"executing", "processing"}
    /\ s # <<>> => s[1].hook = IF pc[x] = "executing" THEN "message_executed"
                                                      ELSE "results_processed"
    /\ Len(s) >= 2 =>
         /\ s[1].phase = "scope"
         /\ s[2].hook = IF pc[x] = "executing" THEN "pipeline" ELSE "message_published"
    /\ Len(s) = 3 =>
         /\ pc[x] = "processing"
         /\ s[2].phase = "scope"
         /\ s[3].hook = "output_blocked"

\* Nothing is published before the results are processed.
Fresh(x) ==
  pc[x] \notin {"processing", "done"} =>
    /\ left[x] = DOMAIN outputs[x]
    /\ doubtful[x] = {}

\* The next output is not published yet.
Trying(x) ==
  pc[x] = "processing" /\ Len(frames[x]) >= 2 /\ Last(frames[x]).phase # "leave"

Doubt(x, p) == IF p \in doubtful[x] THEN 1 ELSE 0

\* What the topics have of the output p.
Outcome(x, p) ==
  /\ p \in left[x] => accepted[x][p] = 0
  /\ accepted[x][p] <= 1 + Doubt(x, p)
  /\ p \notin left[x] /\ ~(Trying(x) /\ p = next[x]) =>
       accepted[x][p] > 0 \/ errors[x] \/ context[x] = "failed"
  /\ Trying(x) /\ p = next[x] =>
       /\ p \notin left[x]
       /\ accepted[x][p] <= IF Len(frames[x]) = 2 THEN 0 ELSE Doubt(x, p)

\* The results are left when all outputs were tried, and the message is
\* acknowledged when none of them failed and its error is handled.
Over(x) ==
  /\ pc[x] = "processing" /\ frames[x][1].phase = "leave" => left[x] = {}
  /\ context[x] \in {"done", "failed"} => pc[x] = "done"
  /\ context[x] = "done" =>
       /\ left[x] = {}
       /\ ~errors[x]
       /\ raised[x] = {} \/ handled[x]

\* An error that is handled after it was republished has a republication among
\* the outputs, unless a channel has no topic.
Retried(x, e) ==
  LET again == Republishers(ChannelOf(e)) IN
    \/ again = {}
    \/ \E h \in again : TopicsOf(ChannelOf(e).handlers[h].republish) = <<>>
    \/ \E p \in DOMAIN outputs[x] : outputs[x][p].republished

HandledLater(x) ==
  /\ pc[x] \notin {"processing", "done"} =>
       (frames[x] # <<>> /\ frames[x][1].phase = "leave") \/ ~handled[x]
  /\ \A d, e \in raised[x] : d = e
  /\ handled[x] => \A e \in raised[x] : Retried(x, e)

CopyInv(x) ==
  /\ Nested(x)
  /\ Fresh(x)
  /\ \A p \in DOMAIN outputs[x] : Outcome(x, p)
  /\ Over(x)
  /\ HandledLater(x)

IInv == TypeOK /\ \A x \in Copy : CopyInv(x)

----------------------------------------------------------------------------
(* The frames of the emissions *)

\* A step of the innermost emission.
LEMMA ReplaceLast ==
  ASSUME NEW S, NEW s \in Seq(S), s # <<>>, NEW f \in S
  PROVE  LET t == Append(Front(s), f) IN
         /\ t \in Seq(S) /\ t # <<>> /\ Len(t) = Len(s)
         /\ t[Len(s)] = f /\ Last(t) = f
         /\ \A i \in 1 .. (Len(s) - 1) : t[i] = s[i]
<1>1. PICK n \in Nat : n = Len(s) /\ n > 0
  BY EmptySeq
<1>2. Front(s) \in Seq(S) /\ Len(Front(s)) = n - 1
      /\ \A i \in 1 .. (n - 1) : Front(s)[i] = s[i]
  BY <1>1, SubSeqProperties DEF Front
<1>3. PICK t : t = Append(Front(s), f)
  OBVIOUS
<1>4. t \in Seq(S) /\ Len(t) = n /\ t[n] = f /\ \A i \in 1 .. (n - 1) : t[i] = Front(s)[i]
  BY <1>1, <1>2, <1>3, AppendProperties
<1>5. t # <<>> /\ Last(t) = f
  BY <1>1, <1>4 DEF Last
<1> QED BY <1>1, <1>2, <1>3, <1>4, <1>5

\* One more emission inside it.
LEMMA Push ==
  ASSUME NEW S, NEW s \in Seq(S), NEW f \in S
  PROVE  LET t == Append(s, f) IN
         /\ t \in Seq(S) /\ t # <<>> /\ Len(t) = Len(s) + 1
         /\ t[Len(s) + 1] = f /\ Last(t) = f
         /\ \A i \in 1 .. Len(s) : t[i] = s[i]
<1>1. PICK t : t = Append(s, f)
  OBVIOUS
<1>2. /\ t \in Seq(S) /\ Len(t) = Len(s) + 1
      /\ t[Len(s) + 1] = f
      /\ \A i \in 1 .. Len(s) : t[i] = s[i]
  BY <1>1, AppendProperties
<1>3. t # <<>> /\ Last(t) = f
  BY <1>2 DEF Last
<1> QED BY <1>1, <1>2, <1>3

\* The end of the innermost emission.
LEMMA Pop ==
  ASSUME NEW S, NEW s \in Seq(S), s # <<>>
  PROVE  LET t == Front(s) IN
         /\ t \in Seq(S) /\ Len(t) = Len(s) - 1
         /\ \A i \in 1 .. (Len(s) - 1) : t[i] = s[i]
<1>1. PICK n \in Nat : n = Len(s) /\ n > 0
  BY EmptySeq
<1> QED BY <1>1, SubSeqProperties DEF Front

\* An emission keeps its hook, and calls all its handlers before its scope.
LEMMA EmitIsFrame ==
  ASSUME NEW h \in ContextHook
  PROVE  Emit(h) \in Frame /\ Emit(h).hook = h /\ Emit(h).phase \in {"call", "scope"}
<1>1. Handlers[h] \in Seq(Kind)
  BY HooksAssumption
<1>2. Handlers[h] # <<>> => 0 < Len(Handlers[h])
  BY <1>1, EmptySeq
<1> QED BY <1>1, <1>2 DEF Emit, Frame

\* The next handler of an emission is called.
LEMMA CallIsFrame ==
  ASSUME NEW f \in Frame, f.phase = "call", NEW yields \in BOOLEAN
  PROVE  /\ Call(f, yields) \in Frame
         /\ Call(f, yields).hook = f.hook
         /\ Call(f, yields).phase \in {"call", "scope"}
<1>1. PICK n \in Nat : n = Len(Handlers[f.hook]) /\ f.called \in Nat /\ f.called < n
  BY HooksAssumption DEF Frame
<1>2. Handler(f) \in Kind
  <2>1. Handlers[f.hook] \in Seq(Kind) /\ f.called + 1 \in 1 .. n
    BY <1>1, HooksAssumption DEF Frame
  <2> QED BY <1>1, <2>1, ElementOfSeq DEF Handler
<1>3. (IF yields THEN Append(f.generators, Handler(f)) ELSE f.generators) \in Seq(Kind)
  BY <1>2, AppendProperties DEF Frame
<1>4. f.called + 1 # n => f.called + 1 < n
  BY <1>1
<1>5. PICK g \in Seq(Kind), p \in {"call", "scope"} :
        /\ Call(f, yields) = [f EXCEPT !.called = @ + 1, !.generators = g, !.phase = p]
        /\ p = "call" => f.called + 1 < n
  BY <1>1, <1>3, <1>4 DEF Call
<1>6. f \in [hook : ContextHook, phase : {"call", "scope", "leave"},
            called : Nat, generators : Seq(Kind)]
  BY DEF Frame
<1>7. /\ Call(f, yields) \in [hook : ContextHook, phase : {"call", "scope", "leave"},
                             called : Nat, generators : Seq(Kind)]
      /\ Call(f, yields).hook = f.hook
      /\ Call(f, yields).phase = p
      /\ Call(f, yields).called = f.called + 1
  <2>1. Call(f, yields) = [hook |-> f.hook, phase |-> p, called |-> f.called + 1,
                           generators |-> g]
    BY <1>5, <1>6
  <2>2. f.hook \in ContextHook /\ f.called + 1 \in Nat
    BY <1>1, <1>6
  <2> QED BY <2>1, <2>2
<1> QED BY <1>1, <1>5, <1>7 DEF Frame

\* The scope of an emission ends.
LEMMA EndScopeIsFrame ==
  ASSUME NEW f \in Frame
  PROVE  /\ EndScope(f) \in Frame
         /\ EndScope(f).hook = f.hook
         /\ EndScope(f).phase = "leave"
BY DEF EndScope, Frame

\* A generator of an emission is resumed.
LEMMA ResumeIsFrame ==
  ASSUME NEW f \in Frame, f.generators # <<>>
  PROVE  /\ Resume(f) \in Frame
         /\ Resume(f).hook = f.hook
         /\ Resume(f).phase = f.phase
<1>1. Front(f.generators) \in Seq(Kind)
  BY Pop DEF Frame
<1> QED BY <1>1 DEF Resume, Frame

\* Where an emission is in the nest.
LEMMA TopIs ==
  ASSUME TypeOK, NEW x \in Copy, Nested(x), frames[x] # <<>>
  PROVE  /\ frames[x] \in Seq(Frame)
         /\ Len(frames[x]) \in 1 .. 3
         /\ Top(x) \in Frame
         /\ Top(x) = frames[x][Len(frames[x])]
         /\ frames[x][1] \in Frame
         /\ Head(frames[x]) = frames[x][1]
         /\ Top(x).hook = "message_executed"  => Len(frames[x]) = 1 /\ pc[x] = "executing"
         /\ Top(x).hook = "results_processed" => Len(frames[x]) = 1 /\ pc[x] = "processing"
         /\ Top(x).hook = "pipeline"          => Len(frames[x]) = 2 /\ pc[x] = "executing"
         /\ Top(x).hook = "message_published" => Len(frames[x]) = 2 /\ pc[x] = "processing"
         /\ Top(x).hook = "output_blocked"    => Len(frames[x]) = 3 /\ pc[x] = "processing"
<1>1. frames[x] \in Seq(Frame)
  BY DEF TypeOK
<1>2. Len(frames[x]) \in 1 .. 3
  <2>1. PICK n \in Nat \ {0} : n = Len(frames[x])
    BY <1>1, EmptySeq
  <2>2. n <= 3
    BY <2>1 DEF Nested
  <2>3. n \in 1 .. 3
    BY <2>2
  <2> QED BY <2>1, <2>3
<1>3. Top(x) = frames[x][Len(frames[x])]
  BY DEF Top, Last
<1>4. Top(x) \in Frame /\ frames[x][1] \in Frame
  BY <1>1, <1>2, <1>3, ElementOfSeq
<1>5. Head(frames[x]) = frames[x][1]
  BY <1>1, <1>2
<1>6. Len(frames[x]) = 1 \/ Len(frames[x]) = 2 \/ Len(frames[x]) = 3
  BY <1>2
<1>7. pc[x] \in {"executing", "processing"}
  BY DEF Nested
<1>8. CASE Len(frames[x]) = 1
  <2>1. Top(x).hook = IF pc[x] = "executing" THEN "message_executed" ELSE "results_processed"
    BY <1>3, <1>8 DEF Nested
  <2> QED BY <1>1, <1>2, <1>3, <1>4, <1>5, <1>7, <1>8, <2>1
<1>9. CASE Len(frames[x]) = 2
  <2>1. Top(x).hook = IF pc[x] = "executing" THEN "pipeline" ELSE "message_published"
    BY <1>3, <1>9 DEF Nested
  <2> QED BY <1>1, <1>2, <1>3, <1>4, <1>5, <1>7, <1>9, <2>1
<1>10. CASE Len(frames[x]) = 3
  <2>1. Top(x).hook = "output_blocked" /\ pc[x] = "processing"
    BY <1>3, <1>10 DEF Nested
  <2> QED BY <1>1, <1>2, <1>3, <1>4, <1>5, <1>10, <2>1
<1> QED BY <1>6, <1>8, <1>9, <1>10

\* The state of one copy is left as it is.
Same(y) ==
  /\ pc'[y] = pc[y] /\ frames'[y] = frames[y]
  /\ raised'[y] = raised[y] /\ handled'[y] = handled[y]
  /\ outputs'[y] = outputs[y] /\ left'[y] = left[y] /\ next'[y] = next[y]
  /\ accepted'[y] = accepted[y] /\ doubtful'[y] = doubtful[y]
  /\ errors'[y] = errors[y] /\ context'[y] = context[y]

\* The outputs of the queue do not change.
LEMMA SameChannels ==
  ASSUME channels' = channels
  PROVE  /\ \A e : ChannelOf(e)' = ChannelOf(e) /\ Handles(e)' = Handles(e)
         /\ \A name : TopicsOf(name)' = TopicsOf(name)
<1>1. ASSUME NEW e
      PROVE  Taking(e)' = Taking(e)
  BY DEF Taking
<1>2. ASSUME NEW name
      PROVE  Named(name)' = Named(name)
  BY DEF Named
<1> HIDE DEF Taking, Named
<1> QED BY <1>1, <1>2 DEF ChannelOf, Handles, TopicsOf

\* An error stays retried while the channels and the outputs of its copy stay.
LEMMA SameRetried ==
  ASSUME NEW x \in Copy, channels' = channels, outputs'[x] = outputs[x], NEW e, Retried(x, e)
  PROVE  Retried(x, e)'
<1>1. PICK c : c = ChannelOf(e) /\ c = ChannelOf(e)'
  BY SameChannels
<1>2. \A name : TopicsOf(name)' = TopicsOf(name)
  BY SameChannels
<1> HIDE DEF ChannelOf, TopicsOf
<1> QED BY <1>1, <1>2 DEF Retried, Republishers

\* A step of another copy.
LEMMA SameCopy ==
  ASSUME NEW y \in Copy, CopyInv(y), Same(y), channels' = channels
  PROVE  CopyInv(y)'
<1>1. Nested(y)' /\ Fresh(y)' /\ Over(y)'
  BY DEF CopyInv, Same, Nested, Fresh, Over
<1>2. \A p \in DOMAIN outputs'[y] : Outcome(y, p)'
  BY DEF CopyInv, Same, Outcome, Trying, Doubt
<1>3. HandledLater(y)'
  BY SameRetried DEF CopyInv, Same, HandledLater
<1> QED BY <1>1, <1>2, <1>3 DEF CopyInv

\* What the outputs of a copy are does not depend on its emissions, as long as the
\* step does not try one.
LEMMA SameOutcome ==
  ASSUME NEW x \in Copy, \A p \in DOMAIN outputs[x] : Outcome(x, p),
         outputs'[x] = outputs[x], left'[x] = left[x], next'[x] = next[x],
         accepted'[x] = accepted[x], doubtful'[x] = doubtful[x],
         errors'[x] = errors[x],
         context'[x] = "failed" \/ context[x] # "failed" \/ context'[x] = context[x],
         Trying(x)' => Trying(x) /\ Len(frames'[x]) = Len(frames[x]),
         Trying(x) => Trying(x)' \/ context'[x] = "failed"
  PROVE  \A p \in DOMAIN outputs'[x] : Outcome(x, p)'
<1> SUFFICES ASSUME NEW p \in DOMAIN outputs[x] PROVE Outcome(x, p)'
  OBVIOUS
<1>1. Doubt(x, p)' = Doubt(x, p)
  BY DEF Doubt
<1> QED BY <1>1 DEF Outcome

\* The innermost emission of a copy makes a step.
LEMMA FramesReplaced ==
  ASSUME TypeOK, NEW x \in Copy, Nested(x), frames[x] # <<>>, NEW f \in Frame,
         f.hook = Top(x).hook, frames' = WithTop(x, f), pc' = pc
  PROVE  /\ frames' \in [Copy -> Seq(Frame)]
         /\ \A y \in Copy \ {x} : frames'[y] = frames[y]
         /\ Nested(x)'
         /\ frames'[x] # <<>> /\ Len(frames'[x]) = Len(frames[x])
         /\ Last(frames'[x]) = f /\ frames'[x][Len(frames[x])] = f
         /\ \A i \in 1 .. (Len(frames[x]) - 1) : frames'[x][i] = frames[x][i]
<1> DEFINE s == frames[x]
           t == frames'[x]
<1>1. s \in Seq(Frame) /\ Len(s) \in 1 .. 3 /\ Top(x) = s[Len(s)]
  BY TopIs
<1>2. frames' = [frames EXCEPT ![x] = Append(Front(@), f)]
  BY DEF WithTop
<1>3. t = Append(Front(s), f) /\ \A y \in Copy \ {x} : frames'[y] = frames[y]
  BY <1>2 DEF TypeOK
<1>4. /\ t \in Seq(Frame) /\ t # <<>> /\ Len(t) = Len(s)
      /\ t[Len(s)] = f /\ Last(t) = f
      /\ \A i \in 1 .. (Len(s) - 1) : t[i] = s[i]
  BY <1>1, <1>3, ReplaceLast
<1>5. frames' \in [Copy -> Seq(Frame)]
  BY <1>2, <1>3, <1>4 DEF TypeOK
<1>6. Len(s) = 1 \/ Len(s) = 2 \/ Len(s) = 3
  BY <1>1
<1> HIDE DEF s, t
<1>7. Nested(x)'
  <2>1. CASE Len(s) = 1
    BY <1>1, <1>4, <2>1 DEF Nested, s, t
  <2>2. CASE Len(s) = 2
    BY <1>1, <1>4, <2>2 DEF Nested, s, t
  <2>3. CASE Len(s) = 3
    BY <1>1, <1>4, <2>3 DEF Nested, s, t
  <2> QED BY <1>6, <2>1, <2>2, <2>3
<1> QED BY <1>3, <1>4, <1>5, <1>7 DEF s, t

\* Its scope emits another hook.
LEMMA FramesPushed ==
  ASSUME TypeOK, NEW x \in Copy, Nested(x), frames[x] # <<>>, Top(x).phase = "scope",
         NEW h \in ContextHook,
         <<Top(x).hook, h>> \in {<<"message_executed", "pipeline">>,
           <<"results_processed", "message_published">>,
           <<"message_published", "output_blocked">>},
         frames' = [frames EXCEPT ![x] = Append(@, Emit(h))], pc' = pc
  PROVE  /\ frames' \in [Copy -> Seq(Frame)]
         /\ \A y \in Copy \ {x} : frames'[y] = frames[y]
         /\ Nested(x)'
         /\ frames'[x] # <<>> /\ Len(frames'[x]) = Len(frames[x]) + 1
         /\ Last(frames'[x]) = Emit(h)
         /\ \A i \in 1 .. Len(frames[x]) : frames'[x][i] = frames[x][i]
<1> DEFINE s == frames[x]
           t == frames'[x]
<1>1. s \in Seq(Frame) /\ Len(s) \in 1 .. 3 /\ Top(x) = s[Len(s)]
  BY TopIs
<1>2. Emit(h) \in Frame /\ Emit(h).hook = h
  BY EmitIsFrame
<1>3. t = Append(s, Emit(h)) /\ \A y \in Copy \ {x} : frames'[y] = frames[y]
  BY DEF TypeOK
<1>4. /\ t \in Seq(Frame) /\ t # <<>> /\ Len(t) = Len(s) + 1
      /\ t[Len(s) + 1] = Emit(h) /\ Last(t) = Emit(h)
      /\ \A i \in 1 .. Len(s) : t[i] = s[i]
  BY <1>1, <1>2, <1>3, Push
<1>5. frames' \in [Copy -> Seq(Frame)]
  BY <1>3, <1>4 DEF TypeOK
<1> HIDE DEF s, t
<1>6. Nested(x)'
  <2>1. CASE Top(x).hook = "message_executed"
    <3>1. Len(s) = 1 /\ pc[x] = "executing" /\ h = "pipeline"
      BY <2>1, TopIs DEF s
    <3> QED BY <1>1, <1>2, <1>4, <3>1 DEF Nested, s, t
  <2>2. CASE Top(x).hook = "results_processed"
    <3>1. Len(s) = 1 /\ pc[x] = "processing" /\ h = "message_published"
      BY <2>2, TopIs DEF s
    <3> QED BY <1>1, <1>2, <1>4, <3>1 DEF Nested, s, t
  <2>3. CASE Top(x).hook = "message_published"
    <3>1. Len(s) = 2 /\ pc[x] = "processing" /\ h = "output_blocked"
      BY <2>3, TopIs DEF s
    <3> QED BY <1>1, <1>2, <1>4, <3>1 DEF Nested, s, t
  <2> QED BY <2>1, <2>2, <2>3
<1> QED BY <1>3, <1>4, <1>5, <1>6 DEF s, t

----------------------------------------------------------------------------
(* Handlers *)

\* The innermost emission calls or resumes a handler.
LEMMA HandlerStep ==
  ASSUME TypeOK, NEW x \in Copy, CopyInv(x), frames[x] # <<>>, NEW f \in Frame,
         f.hook = Top(x).hook, f.phase = "leave" <=> Top(x).phase = "leave",
         Top(x).phase = "scope" => f.phase = "scope",
         frames' = WithTop(x, f), stages' \in [Copy -> SUBSET Stage],
         UNCHANGED <<channels, topic, pc, retried, raised, handled, publishVars, context>>
  PROVE  TypeOK' /\ CopyInv(x)'
<1> DEFINE s == frames[x]
           t == frames'[x]
<1>1. s \in Seq(Frame) /\ Len(s) \in 1 .. 3 /\ Top(x) = s[Len(s)]
  BY TopIs DEF CopyInv
<1>2. /\ frames' \in [Copy -> Seq(Frame)]
      /\ Nested(x)'
      /\ t # <<>> /\ Len(t) = Len(s) /\ Last(t) = f /\ t[Len(s)] = f
      /\ \A i \in 1 .. (Len(s) - 1) : t[i] = s[i]
  BY FramesReplaced DEF CopyInv
<1>3. TypeOK'
  BY <1>2 DEF TypeOK, publishVars
<1>4. t[1].phase = "leave" <=> s[1].phase = "leave"
  <2>1. PICK n \in 1 .. 3 : n = Len(s)
    BY <1>1
  <2>2. CASE n = 1
    BY <1>1, <1>2, <2>1, <2>2
  <2>3. CASE n > 1
    BY <1>1, <1>2, <2>1, <2>3
  <2>4. n = 1 \/ n > 1
    BY <2>1
  <2> QED BY <2>2, <2>3, <2>4
<1> HIDE DEF s, t
<1>5. Fresh(x)' /\ Over(x)'
  BY <1>2, <1>4 DEF Fresh, Over, CopyInv, s, t, publishVars
<1>6. HandledLater(x)'
  <2>1. handled'[x] => \A e \in raised'[x] : Retried(x, e)'
    BY SameRetried DEF HandledLater, CopyInv, publishVars
  <2> QED BY <1>2, <1>4, <2>1 DEF HandledLater, CopyInv, s, t
<1>7. Last(t).phase = "leave" <=> Last(s).phase = "leave"
  BY <1>1, <1>2 DEF s, Top
<1>8. Trying(x)' <=> Trying(x)
  BY <1>2, <1>7 DEF Trying, s, t
<1>9. \A p \in DOMAIN outputs'[x] : Outcome(x, p)'
  BY <1>2, <1>8, SameOutcome DEF CopyInv, publishVars, s, t
<1> QED BY <1>2, <1>3, <1>5, <1>6, <1>9 DEF CopyInv

\* The next handler of an emission is called, and may yield.
LEMMA CallHandlerKeeps ==
  ASSUME TypeOK, NEW x \in Copy, CopyInv(x), CallHandler(x)
  PROVE  TypeOK' /\ CopyInv(x)'
<1>1. frames[x] # <<>> /\ Top(x).phase = "call" /\ Top(x) \in Frame
  BY TopIs DEF CallHandler, CopyInv
<1>2. PICK yields \in BOOLEAN : frames' = WithTop(x, Call(Top(x), yields))
  BY DEF CallHandler, MayYield
<1>3. /\ Call(Top(x), yields) \in Frame
      /\ Call(Top(x), yields).hook = Top(x).hook
      /\ Call(Top(x), yields).phase \in {"call", "scope"}
  BY <1>1, CallIsFrame
<1>4. StagesCalled(Top(x).hook, stages[x]) \in SUBSET Stage
  <2>1. Top(x).hook \in ContextHook /\ stages[x] \in SUBSET Stage
    BY <1>1 DEF Frame, TypeOK
  <2> QED BY <2>1 DEF StagesCalled, Move, ContextHook, Stage
<1>5. stages' \in [Copy -> SUBSET Stage]
  <2>1. stages' = [stages EXCEPT ![x] =
          IF Handler(Top(x)) = "usage" THEN StagesCalled(Top(x).hook, @) ELSE @]
    BY DEF CallHandler
  <2> HIDE DEF StagesCalled, Handler, Stage
  <2> QED BY <1>4, <2>1 DEF TypeOK
<1>6. UNCHANGED <<channels, topic, pc, retried, raised, handled, publishVars, context>>
  BY DEF CallHandler
<1> QED BY <1>1, <1>2, <1>3, <1>5, <1>6, HandlerStep

\* The last of the generators is resumed.
LEMMA ResumeHandlerKeeps ==
  ASSUME TypeOK, NEW x \in Copy, CopyInv(x), ResumeHandler(x)
  PROVE  TypeOK' /\ CopyInv(x)'
<1>1. frames[x] # <<>> /\ Top(x).generators # <<>> /\ Top(x) \in Frame
  BY TopIs DEF ResumeHandler, CopyInv
<1>2. frames' = WithTop(x, Resume(Top(x)))
  BY DEF ResumeHandler
<1>3. /\ Resume(Top(x)) \in Frame
      /\ Resume(Top(x)).hook = Top(x).hook
      /\ Resume(Top(x)).phase = Top(x).phase
  BY <1>1, ResumeIsFrame
<1>4. StagesResumed(Top(x).hook, stages[x]) \in SUBSET Stage
  <2>1. Top(x).hook \in ContextHook /\ stages[x] \in SUBSET Stage
    BY <1>1 DEF Frame, TypeOK
  <2> QED BY <2>1 DEF StagesResumed, Move, ContextHook, Stage
<1>5. stages' \in [Copy -> SUBSET Stage]
  <2>1. stages' = [stages EXCEPT ![x] =
          IF Resumed(Top(x)) = "usage" THEN StagesResumed(Top(x).hook, @) ELSE @]
    BY DEF ResumeHandler
  <2> HIDE DEF StagesResumed, Resumed, Stage
  <2> QED BY <1>4, <2>1 DEF TypeOK
<1>6. UNCHANGED <<channels, topic, pc, retried, raised, handled, publishVars, context>>
  BY DEF ResumeHandler
<1> QED BY <1>1, <1>2, <1>3, <1>5, <1>6, HandlerStep

----------------------------------------------------------------------------
(* Until the pipeline runs *)

\* The copy is in no emission yet.
LEMMA EarlyKeeps ==
  ASSUME TypeOK, NEW x \in Copy, CopyInv(x), Poll(x) \/ Schedule(x) \/ Submit(x)
  PROVE  TypeOK' /\ CopyInv(x)'
<1>1. /\ pc[x] \in {"none", "polled", "scheduled"}
      /\ pc'[x] \in {"polled", "scheduled", "queued"}
      /\ pc' \in [Copy -> {"none", "polled", "scheduled", "queued", "executing",
                           "processing", "done"}]
  BY DEF Poll, Schedule, Submit, Advance, TypeOK
<1>2. UNCHANGED <<channels, frames, raised, handled, publishVars>>
  BY DEF Poll, Schedule, Submit, Advance, publishVars
<1>3. context'[x] = context[x] \/ context'[x] = "open"
  BY DEF Poll, Schedule, Submit, Advance, TypeOK
<1>4. TypeOK'
  <2>1. topic' \in Seq(Nat) /\ retried' \in [Copy -> Nat]
    <3>1. CASE Poll(x)
      BY <3>1 DEF Poll, TypeOK
    <3>2. CASE Schedule(x) \/ Submit(x)
      BY <3>2 DEF Schedule, Submit, Advance, TypeOK
    <3> QED BY <3>1, <3>2
  <2>2. stages' \in [Copy -> SUBSET Stage]
    <3>1. CASE Poll(x)
      BY <3>1 DEF Poll, TypeOK, Stage
    <3>2. CASE Schedule(x)
      <4>1. Move(stages[x], "polling", "scheduling") \in SUBSET Stage
        BY DEF TypeOK, Move, Stage
      <4> QED BY <3>2, <4>1 DEF Schedule, Advance, TypeOK
    <3>3. CASE Submit(x)
      <4>1. Move(stages[x], "scheduling", "submitting") \in SUBSET Stage
        BY DEF TypeOK, Move, Stage
      <4> QED BY <3>3, <4>1 DEF Submit, Advance, TypeOK
    <3> QED BY <3>1, <3>2, <3>3
  <2>3. context' \in [Copy -> {"none", "open", "done", "failed"}]
    BY DEF Poll, Schedule, Submit, Advance, TypeOK
  <2> QED BY <1>1, <1>2, <2>1, <2>2, <2>3 DEF TypeOK, publishVars
<1>5. frames[x] = <<>> /\ frames'[x] = <<>> /\ Len(frames[x]) = 0
  BY <1>1, <1>2 DEF CopyInv, Nested
<1>6. Nested(x)' /\ Fresh(x)' /\ Over(x)'
  BY <1>1, <1>2, <1>3, <1>5 DEF CopyInv, Nested, Fresh, Over, publishVars
<1>7. ~Trying(x) /\ ~Trying(x)'
  BY <1>1 DEF Trying
<1>8. \A p \in DOMAIN outputs'[x] : Outcome(x, p)'
  BY <1>1, <1>2, <1>3, <1>7, SameOutcome DEF CopyInv, Over, publishVars
<1>9. HandledLater(x)'
  BY <1>1, <1>2, <1>5 DEF CopyInv, HandledLater
<1> QED BY <1>4, <1>6, <1>8, <1>9 DEF CopyInv

\* The message leaves its queue for a run_queue task.
LEMMA TakeKeeps ==
  ASSUME TypeOK, NEW x \in Copy, CopyInv(x), Take(x)
  PROVE  TypeOK' /\ CopyInv(x)'
<1> DEFINE e == Emit("message_executed")
<1>1. e \in Frame /\ e.hook = "message_executed" /\ e.phase \in {"call", "scope"}
  BY EmitIsFrame DEF ContextHook
<1>2. pc[x] = "queued" /\ pc'[x] = "executing" /\ frames' = [frames EXCEPT ![x] = <<e>>]
  BY DEF Take, TypeOK
<1>3. UNCHANGED <<channels, topic, retried, stages, raised, handled, publishVars, context>>
  BY DEF Take
<1> HIDE DEF e
<1>4. <<e>> \in Seq(Frame) /\ Len(<<e>>) = 1 /\ <<e>>[1] = e /\ <<e>> # <<>>
  BY <1>1
<1>5. frames'[x] = <<e>> /\ frames' \in [Copy -> Seq(Frame)]
  BY <1>2, <1>4 DEF TypeOK
<1>6. TypeOK'
  <2>1. pc' \in [Copy -> {"none", "polled", "scheduled", "queued", "executing",
                          "processing", "done"}]
    BY DEF TypeOK, Take
  <2> QED BY <1>3, <1>5, <2>1 DEF TypeOK, publishVars
<1>7. Nested(x)' /\ Fresh(x)' /\ Over(x)'
  BY <1>1, <1>2, <1>3, <1>4, <1>5 DEF CopyInv, Nested, Fresh, Over, publishVars
<1>8. ~Trying(x) /\ ~Trying(x)'
  BY <1>2 DEF Trying
<1>9. \A p \in DOMAIN outputs'[x] : Outcome(x, p)'
  BY <1>3, <1>8, SameOutcome DEF CopyInv, publishVars
<1>10. ~handled'[x]
  BY <1>2, <1>3 DEF CopyInv, HandledLater, Nested
<1> QED BY <1>3, <1>6, <1>7, <1>9, <1>10 DEF CopyInv, HandledLater

\* The pipeline begins, inside the emission of its hook.
LEMMA BootstrapKeeps ==
  ASSUME TypeOK, NEW x \in Copy, CopyInv(x), Bootstrap(x)
  PROVE  TypeOK' /\ CopyInv(x)'
<1>1. /\ frames[x] # <<>> /\ Top(x).hook = "message_executed" /\ Top(x).phase = "scope"
      /\ frames' = [frames EXCEPT ![x] = Append(@, Emit("pipeline"))]
      /\ UNCHANGED <<channels, topic, pc, retried, stages, raised, handled, publishVars,
                     context>>
  BY DEF Bootstrap, InFrame
<1>2. Nested(x)
  BY DEF CopyInv
<1>3. Len(frames[x]) = 1 /\ pc[x] = "executing" /\ Top(x) = frames[x][1]
  BY <1>1, <1>2, TopIs
<1>4. /\ frames' \in [Copy -> Seq(Frame)]
      /\ Nested(x)'
      /\ frames'[x] # <<>>
      /\ \A i \in 1 .. Len(frames[x]) : frames'[x][i] = frames[x][i]
  BY <1>1, <1>2, FramesPushed DEF ContextHook
<1>5. frames'[x][1].phase = "scope"
  BY <1>1, <1>3, <1>4
<1>6. TypeOK'
  BY <1>1, <1>4 DEF TypeOK, publishVars
<1>7. ~Trying(x) /\ ~Trying(x)' /\ pc'[x] = "executing"
  BY <1>1, <1>3 DEF Trying
<1>8. Fresh(x)' /\ Over(x)'
  BY <1>1, <1>3, <1>7 DEF CopyInv, Fresh, Over, publishVars
<1>9. \A p \in DOMAIN outputs'[x] : Outcome(x, p)'
  BY <1>1, <1>7, SameOutcome DEF CopyInv, publishVars
<1>10. ~handled'[x]
  BY <1>1, <1>3 DEF CopyInv, HandledLater
<1> QED BY <1>1, <1>4, <1>6, <1>8, <1>9, <1>10 DEF CopyInv, HandledLater

----------------------------------------------------------------------------
(* The outputs of a pipeline and of its error *)

\* Min gives an element.
LEMMA MinIsIn ==
  ASSUME NEW S \in SUBSET Nat, S # {}
  PROVE  Min(S) \in S
<1>1. \A m, n \in Nat : m < n => <<m, n>> \in OpToRel(<, Nat)
  BY DEF OpToRel
<1>2. PICK x \in S : \A y \in S : ~ (<<y, x>> \in OpToRel(<, Nat))
  BY NatLessThanWellFounded, WFMin
<1>3. ASSUME NEW y \in S PROVE x <= y
  <2>1. x \in Nat /\ y \in Nat /\ ~ (y < x)
    BY <1>1, <1>2
  <2> QED BY <2>1
<1> QED BY <1>3 DEF Min

\* The topics of a channel, and the handlers of the one that takes an error.
LEMMA TopicsAre ==
  ASSUME TypeOK, NEW name
  PROVE  TopicsOf(name) \in Seq(Topic)
<1>1. \A i \in DOMAIN channels : i \in Nat /\ channels[i].topics \in Seq(Topic)
  BY ExecutionAssumption DEF TypeOK
<1>2. Named(name) \subseteq DOMAIN channels
  BY DEF Named
<1>3. CASE Named(name) = {}
  BY <1>3, EmptySeq DEF TopicsOf
<1>4. CASE Named(name) # {}
  <2>1. Min(Named(name)) \in DOMAIN channels
    BY <1>1, <1>2, <1>4, MinIsIn
  <2> QED BY <1>1, <1>4, <2>1 DEF TopicsOf
<1> QED BY <1>3, <1>4

\* The channel that handles an error has a list of handlers.
LEMMA HandlersAre ==
  ASSUME TypeOK, NEW e, Handles(e)
  PROVE  ChannelOf(e).handlers \in
           Seq([set_handled : BOOLEAN, republish : STRING, max_retry : Nat])
<1>1. Taking(e) \subseteq DOMAIN channels /\ Taking(e) # {}
  BY DEF Taking, Handles
<1>2. \A i \in DOMAIN channels : i \in Nat
  BY ExecutionAssumption DEF TypeOK
<1>3. Min(Taking(e)) \in DOMAIN channels
  BY <1>1, <1>2, MinIsIn
<1> QED BY <1>3, ExecutionAssumption DEF ChannelOf, TypeOK

\* A place of Outputs is one of a topic.
LEMMA PlacesAre ==
  ASSUME NEW items, NEW p
  PROVE  p \in Places(items) <=>
           \E i \in DOMAIN items : \E j \in DOMAIN TopicsOf(items[i].channel) : p = <<i, j>>
BY DEF Places

\* The items that are published have their places.
LEMMA OutputsAre ==
  ASSUME TypeOK, NEW items, \A i \in DOMAIN items : items[i].republished \in BOOLEAN
  PROVE  Outputs(items) \in [Places(items) -> Publication]
<1> SUFFICES ASSUME NEW p \in Places(items)
             PROVE  /\ TopicsOf(items[p[1]].channel)[p[2]] \in Topic
                    /\ items[p[1]].republished \in BOOLEAN
  BY DEF Outputs, Publication
<1>1. PICK i \in DOMAIN items : \E j \in DOMAIN TopicsOf(items[i].channel) : p = <<i, j>>
  BY PlacesAre
<1>2. PICK j \in DOMAIN TopicsOf(items[i].channel) : p = <<i, j>>
  BY <1>1
<1>3. p[1] = i /\ p[2] = j
  BY <1>2
<1>4. PICK s \in Seq(Topic) : s = TopicsOf(items[i].channel)
  BY TopicsAre
<1>5. s[j] \in Topic
  BY <1>2, <1>4, ElementOfSeq
<1> QED BY <1>3, <1>4, <1>5

\* New outputs are all untried.
LEMMA PublishingKeeps ==
  ASSUME TypeOK, NEW x \in Copy, NEW items,
         \A i \in DOMAIN items : items[i].republished \in BOOLEAN,
         doubtful[x] = {}, Publishing(x, items),
         UNCHANGED <<next, doubtful>>
  PROVE  /\ outputs'[x] = Outputs(items) /\ DOMAIN outputs'[x] = Places(items)
         /\ left'[x] = Places(items)
         /\ \A p \in Places(items) : accepted'[x][p] = 0
         /\ \A d \in {DOMAIN outputs', DOMAIN left', DOMAIN next', DOMAIN accepted',
                      DOMAIN doubtful'} : d = Copy
         /\ \A y \in Copy :
              /\ outputs'[y] \in [DOMAIN outputs'[y] -> Publication]
              /\ accepted'[y] \in [DOMAIN outputs'[y] -> Nat]
              /\ left'[y] \subseteq DOMAIN outputs'[y]
         /\ \A y \in Copy \ {x} :
              outputs'[y] = outputs[y] /\ left'[y] = left[y] /\ accepted'[y] = accepted[y]
<1>1. Outputs(items) \in [Places(items) -> Publication]
  BY OutputsAre
<1>2. /\ DOMAIN outputs = Copy /\ DOMAIN left = Copy /\ DOMAIN next = Copy
      /\ DOMAIN accepted = Copy /\ DOMAIN doubtful = Copy
  BY DEF TypeOK
<1>3. /\ outputs' = [outputs EXCEPT ![x] = Outputs(items)]
      /\ left' = [left EXCEPT ![x] = Places(items)]
      /\ accepted' = [accepted EXCEPT ![x] = [p \in Places(items) |-> 0]]
  BY DEF Publishing
<1> HIDE DEF Outputs, Places
<1>4. /\ outputs'[x] = Outputs(items) /\ left'[x] = Places(items)
      /\ accepted'[x] = [p \in Places(items) |-> 0]
      /\ DOMAIN outputs' = Copy /\ DOMAIN left' = Copy /\ DOMAIN accepted' = Copy
      /\ \A y \in Copy \ {x} :
           outputs'[y] = outputs[y] /\ left'[y] = left[y] /\ accepted'[y] = accepted[y]
  BY <1>2, <1>3
<1>5. DOMAIN outputs'[x] = Places(items)
  BY <1>1, <1>4
<1>6. ASSUME NEW y \in Copy
      PROVE  /\ outputs'[y] \in [DOMAIN outputs'[y] -> Publication]
             /\ accepted'[y] \in [DOMAIN outputs'[y] -> Nat]
             /\ left'[y] \subseteq DOMAIN outputs'[y]
  <2>1. CASE y = x
    BY <1>1, <1>4, <1>5, <2>1
  <2>2. CASE y # x
    <3>1. outputs'[y] = outputs[y] /\ left'[y] = left[y] /\ accepted'[y] = accepted[y]
          /\ doubtful'[y] = doubtful[y]
      BY <1>4, <2>2
    <3> QED BY <3>1 DEF TypeOK
  <2> QED BY <2>1, <2>2
<1> QED BY <1>2, <1>4, <1>5, <1>6

\* What becomes of an exception.
LEMMA HandleErrorKeeps ==
  ASSUME TypeOK, NEW x \in Copy, NEW e, ~handled[x], doubtful[x] = {},
         HandleError(x, e), UNCHANGED <<channels, next, doubtful>>
  PROVE  /\ handled' \in [Copy -> BOOLEAN] /\ retried' \in [Copy -> Nat]
         /\ left'[x] = DOMAIN outputs'[x]
         /\ \A p \in DOMAIN outputs'[x] : accepted'[x][p] = 0
         /\ \A d \in {DOMAIN outputs', DOMAIN left', DOMAIN next', DOMAIN accepted',
                      DOMAIN doubtful'} : d = Copy
         /\ \A y \in Copy :
              /\ outputs'[y] \in [DOMAIN outputs'[y] -> Publication]
              /\ accepted'[y] \in [DOMAIN outputs'[y] -> Nat]
              /\ left'[y] \subseteq DOMAIN outputs'[y]
         /\ \A y \in Copy \ {x} :
              /\ outputs'[y] = outputs[y] /\ left'[y] = left[y] /\ accepted'[y] = accepted[y]
              /\ handled'[y] = handled[y]
         /\ handled'[x] => Retried(x, e)'
<1>1. CASE ~Handles(e)
  <2>1. Publishing(x, <<>>) /\ handled' = handled /\ retried' = retried
    BY <1>1 DEF HandleError
  <2>2. \A i \in DOMAIN <<>> : <<>>[i].republished \in BOOLEAN
    OBVIOUS
  <2>3. handled' \in [Copy -> BOOLEAN] /\ retried' \in [Copy -> Nat] /\ ~handled'[x]
    BY <2>1 DEF TypeOK
  <2> QED BY <2>1, <2>2, <2>3, PublishingKeeps
<1>2. CASE Handles(e)
  <2> DEFINE c == ChannelOf(e)
             r == retried[x]
             items == ErrorOutputs(e, r)
  <2>1. /\ handled' = [handled EXCEPT ![x] = Handled(e, r)]
        /\ retried' = [retried EXCEPT ![x] = RetriedAfter(e, r)]
        /\ Publishing(x, items)
    BY <1>2 DEF HandleError
  <2>2. \A i \in DOMAIN items : items[i].republished \in BOOLEAN
    BY DEF ErrorOutputs
  <2>3. Handled(e, r) \in BOOLEAN /\ RetriedAfter(e, r) \in Nat
    <3>1. r \in Nat
      BY DEF TypeOK
    <3>2. Handled(e, r) \in BOOLEAN
      BY DEF Handled, IsHandled
    <3> QED BY <3>1, <3>2 DEF RetriedAfter
  <2> HIDE DEF items, c, r
  <2>4. /\ handled' \in [Copy -> BOOLEAN] /\ retried' \in [Copy -> Nat]
        /\ handled'[x] = Handled(e, r)
        /\ \A y \in Copy \ {x} : handled'[y] = handled[y]
    BY <2>1, <2>3 DEF TypeOK
  <2>5. outputs'[x] = Outputs(items) /\ DOMAIN outputs'[x] = Places(items)
    BY <2>1, <2>2, PublishingKeeps
  <2>6. handled'[x] => Retried(x, e)'
    <3> SUFFICES ASSUME handled'[x], Republishers(c) # {},
                        \A h \in Republishers(c) : TopicsOf(c.handlers[h].republish) # <<>>
                 PROVE  \E p \in DOMAIN outputs'[x] : outputs'[x][p].republished
      <4>1. ChannelOf(e)' = c /\ \A name : TopicsOf(name)' = TopicsOf(name)
        BY SameChannels DEF c
      <4> HIDE DEF ChannelOf, TopicsOf
      <4> QED BY <4>1 DEF Retried, Republishers
    <3>1. Republished(c, r) # {}
      BY <2>4 DEF Handled, c
    <3>2. PICK h \in Republished(c, r) : h \in Republishers(c)
      BY <3>1 DEF Republished
    <3>3. h # 0
      <4>1. PICK s \in Seq([set_handled : BOOLEAN, republish : STRING, max_retry : Nat]) :
              s = c.handlers
        BY <1>2, HandlersAre DEF c
      <4>2. h \in DOMAIN c.handlers
        BY <3>2 DEF Republishers
      <4>3. h \in 1 .. Len(s)
        BY <4>1, <4>2
      <4> QED BY <4>1, <4>3
    <3>4. /\ h \in DOMAIN items
          /\ items[h].channel = c.handlers[h].republish
          /\ items[h].republished = TRUE
      BY <3>2, <3>3 DEF items, ErrorOutputs, c
    <3>5. 1 \in DOMAIN TopicsOf(items[h].channel)
      <4>1. PICK s \in Seq(Topic) : s = TopicsOf(items[h].channel)
        BY TopicsAre
      <4>2. s # <<>>
        BY <3>2, <3>4, <4>1
      <4>3. Len(s) \in Nat \ {0}
        BY <4>2, EmptySeq
      <4> QED BY <4>1, <4>3
    <3>6. <<h, 1>> \in Places(items)
      BY <3>4, <3>5, PlacesAre
    <3>7. Outputs(items)[<<h, 1>>].republished = items[h].republished
      BY <3>6 DEF Outputs
    <3> QED BY <2>5, <3>4, <3>6, <3>7
  <2> QED BY <2>1, <2>2, <2>4, <2>5, <2>6, PublishingKeeps
<1> QED BY <1>1, <1>2

----------------------------------------------------------------------------
(* The execution *)

\* The innermost scope ends.
LEMMA ScopeEnds ==
  ASSUME TypeOK, NEW x \in Copy, CopyInv(x), frames[x] # <<>>, Top(x).phase = "scope",
         frames' = WithTop(x, EndScope(Top(x))), pc' = pc
  PROVE  /\ frames' \in [Copy -> Seq(Frame)]
         /\ \A y \in Copy \ {x} : frames'[y] = frames[y]
         /\ Nested(x)' /\ frames'[x] # <<>>
         /\ Len(frames'[x]) = Len(frames[x])
         /\ ~Trying(x)'
         /\ Len(frames[x]) \in {2, 3} => frames'[x][1] = frames[x][1]
<1>1. Nested(x) /\ Top(x) \in Frame /\ Len(frames[x]) \in 1 .. 3
  BY TopIs DEF CopyInv
<1>2. /\ EndScope(Top(x)) \in Frame
      /\ EndScope(Top(x)).hook = Top(x).hook
      /\ EndScope(Top(x)).phase = "leave"
  BY <1>1, EndScopeIsFrame
<1>3. /\ frames' \in [Copy -> Seq(Frame)]
      /\ \A y \in Copy \ {x} : frames'[y] = frames[y]
      /\ Nested(x)' /\ frames'[x] # <<>>
      /\ Len(frames'[x]) = Len(frames[x])
      /\ Last(frames'[x]) = EndScope(Top(x))
      /\ \A i \in 1 .. (Len(frames[x]) - 1) : frames'[x][i] = frames[x][i]
  BY <1>1, <1>2, FramesReplaced
<1>4. ~Trying(x)'
  BY <1>2, <1>3 DEF Trying
<1>5. PICK n \in 1 .. 3 : n = Len(frames[x])
  BY <1>1
<1>6. n \in {2, 3} => 1 \in 1 .. (n - 1)
  BY <1>5
<1> QED BY <1>3, <1>4, <1>5, <1>6

\* The outputs of a pipeline are untried.
LEMMA PipelineReturnsKeeps ==
  ASSUME TypeOK, NEW x \in Copy, CopyInv(x), PipelineReturns(x)
  PROVE  TypeOK' /\ CopyInv(x)'
<1>1. /\ frames[x] # <<>> /\ Top(x).hook = "pipeline" /\ Top(x).phase = "scope"
      /\ frames' = WithTop(x, EndScope(Top(x)))
      /\ UNCHANGED <<channels, topic, pc, retried, stages, raised, handled, next, doubtful,
                     errors, context>>
  BY DEF PipelineReturns, InFrame
<1>2. pc[x] = "executing" /\ Len(frames[x]) = 2
  BY <1>1, TopIs DEF CopyInv
<1>3. /\ frames' \in [Copy -> Seq(Frame)]
      /\ Nested(x)' /\ frames'[x] # <<>>
      /\ ~Trying(x)'
      /\ frames'[x][1] = frames[x][1]
  BY <1>1, <1>2, ScopeEnds
<1>4. frames[x][1].phase = "scope" /\ doubtful[x] = {} /\ ~handled[x]
  BY <1>2 DEF CopyInv, Nested, Fresh, HandledLater
<1>5. PICK names \in Results :
        Publishing(x, [i \in DOMAIN names |-> [channel |-> names[i], republished |-> FALSE]])
  BY DEF PipelineReturns
<1> DEFINE items == [i \in DOMAIN names |-> [channel |-> names[i], republished |-> FALSE]]
<1>6. \A i \in DOMAIN items : items[i].republished \in BOOLEAN
  OBVIOUS
<1> HIDE DEF items
<1>7. /\ left'[x] = DOMAIN outputs'[x]
      /\ \A p \in DOMAIN outputs'[x] : accepted'[x][p] = 0
      /\ \A d \in {DOMAIN outputs', DOMAIN left', DOMAIN next', DOMAIN accepted',
                   DOMAIN doubtful'} : d = Copy
      /\ \A y \in Copy :
           /\ outputs'[y] \in [DOMAIN outputs'[y] -> Publication]
           /\ accepted'[y] \in [DOMAIN outputs'[y] -> Nat]
           /\ left'[y] \subseteq DOMAIN outputs'[y]
  <2>1. Publishing(x, items)
    BY <1>5 DEF items
  <2> QED BY <1>1, <1>4, <1>6, <2>1, PublishingKeeps
<1>8. TypeOK'
  BY <1>1, <1>3, <1>7 DEF TypeOK
<1>9. Fresh(x)' /\ Over(x)' /\ HandledLater(x)'
  BY <1>1, <1>2, <1>4, <1>7 DEF CopyInv, Fresh, Over, HandledLater
<1>10. \A p \in DOMAIN outputs'[x] : Outcome(x, p)'
  BY <1>3, <1>7 DEF Outcome, Doubt
<1> QED BY <1>3, <1>8, <1>9, <1>10 DEF CopyInv

\* The error of a pipeline goes to the handlers of errors.
LEMMA PipelineRaisesKeeps ==
  ASSUME TypeOK, NEW x \in Copy, CopyInv(x), PipelineRaises(x)
  PROVE  TypeOK' /\ CopyInv(x)'
<1>1. /\ frames[x] # <<>> /\ Top(x).hook = "pipeline" /\ Top(x).phase = "scope"
      /\ frames' = WithTop(x, EndScope(Top(x)))
      /\ UNCHANGED <<channels, topic, pc, retried, stages, handled, publishVars, context>>
  BY DEF PipelineRaises, InFrame
<1>2. raised' \in [Copy -> SUBSET Errors] /\ \A d, e \in raised'[x] : d = e
  BY DEF PipelineRaises, TypeOK
<1>3. pc[x] = "executing" /\ Len(frames[x]) = 2
  BY <1>1, TopIs DEF CopyInv
<1>4. /\ frames' \in [Copy -> Seq(Frame)]
      /\ Nested(x)' /\ frames'[x] # <<>>
      /\ ~Trying(x)'
      /\ frames'[x][1] = frames[x][1]
  BY <1>1, <1>3, ScopeEnds
<1>5. frames[x][1].phase = "scope" /\ ~handled[x]
  BY <1>3 DEF CopyInv, Nested, HandledLater
<1>6. TypeOK'
  BY <1>1, <1>2, <1>4 DEF TypeOK, publishVars
<1>7. Fresh(x)' /\ Over(x)' /\ HandledLater(x)'
  BY <1>1, <1>2, <1>3, <1>5 DEF CopyInv, Fresh, Over, HandledLater, publishVars
<1>8. ~Trying(x)
  BY <1>3 DEF Trying
<1>9. \A p \in DOMAIN outputs'[x] : Outcome(x, p)'
  BY <1>1, <1>4, <1>8, SameOutcome DEF CopyInv, publishVars
<1> QED BY <1>4, <1>6, <1>7, <1>9 DEF CopyInv

\* The message is back in run_queue.
LEMMA FramesExecuted ==
  ASSUME TypeOK, NEW x \in Copy, Nested(x), frames[x] # <<>>, pc[x] = "executing",
         frames' = [frames EXCEPT ![x] = <<EndScope(ExecutedFrame(x))>>], pc' = pc
  PROVE  /\ frames' \in [Copy -> Seq(Frame)]
         /\ Nested(x)' /\ frames'[x] # <<>> /\ frames'[x][1].phase = "leave"
         /\ ~Trying(x)'
<1> DEFINE f == EndScope(ExecutedFrame(x))
<1>1. f \in Frame /\ f.hook = "message_executed" /\ f.phase = "leave"
  <2>1. ExecutedFrame(x) = frames[x][1] /\ frames[x][1] \in Frame
    BY TopIs DEF ExecutedFrame
  <2>2. frames[x][1].hook = "message_executed"
    BY DEF Nested
  <2> QED BY <2>1, <2>2, EndScopeIsFrame
<1> HIDE DEF f
<1>2. <<f>> \in Seq(Frame) /\ Len(<<f>>) = 1 /\ <<f>>[1] = f /\ <<f>> # <<>>
  BY <1>1
<1>3. frames'[x] = <<f>> /\ frames' \in [Copy -> Seq(Frame)]
  BY <1>2 DEF f, TypeOK
<1>4. Nested(x)' /\ ~Trying(x)'
  BY <1>1, <1>2, <1>3 DEF Nested, Trying
<1> QED BY <1>1, <1>2, <1>3, <1>4

\* What handling an error makes of a copy, in the emission it leaves.
LEMMA ErrorLeaves ==
  ASSUME TypeOK, NEW x \in Copy, CopyInv(x), NEW e, pc[x] = "executing",
         doubtful[x] = {}, ~handled[x], HandleError(x, e),
         raised'[x] = {e}, raised' \in [Copy -> SUBSET Errors],
         UNCHANGED <<channels, topic, pc, stages, next, doubtful, errors, context>>,
         frames' \in [Copy -> Seq(Frame)], Nested(x)', frames'[x] # <<>>,
         frames'[x][1].phase = "leave", ~Trying(x)'
  PROVE  TypeOK' /\ CopyInv(x)'
<1>1. /\ handled' \in [Copy -> BOOLEAN] /\ retried' \in [Copy -> Nat]
      /\ left'[x] = DOMAIN outputs'[x]
      /\ \A p \in DOMAIN outputs'[x] : accepted'[x][p] = 0
      /\ handled'[x] => Retried(x, e)'
  BY HandleErrorKeeps
<1>2. /\ \A d \in {DOMAIN outputs', DOMAIN left', DOMAIN next', DOMAIN accepted',
                   DOMAIN doubtful'} : d = Copy
      /\ \A y \in Copy :
           /\ outputs'[y] \in [DOMAIN outputs'[y] -> Publication]
           /\ accepted'[y] \in [DOMAIN outputs'[y] -> Nat]
           /\ left'[y] \subseteq DOMAIN outputs'[y]
  BY HandleErrorKeeps
<1>3. TypeOK'
  BY <1>1, <1>2 DEF TypeOK
<1>4. Fresh(x)' /\ Over(x)' /\ HandledLater(x)'
  BY <1>1 DEF CopyInv, Fresh, Over, HandledLater
<1>5. \A p \in DOMAIN outputs'[x] : Outcome(x, p)'
  BY <1>1 DEF Outcome, Doubt
<1> QED BY <1>3, <1>4, <1>5 DEF CopyInv

\* The emission of the pipeline is over: the error it raised is handled.
LEMMA ExecutedKeeps ==
  ASSUME TypeOK, NEW x \in Copy, CopyInv(x), Executed(x)
  PROVE  TypeOK' /\ CopyInv(x)'
<1>1. /\ frames[x] # <<>> /\ Top(x).hook = "pipeline"
      /\ frames' = [frames EXCEPT ![x] = <<EndScope(ExecutedFrame(x))>>]
      /\ UNCHANGED <<channels, topic, pc, stages, raised, next, doubtful, errors, context>>
  BY DEF Executed, Left, InFrame
<1>2. Nested(x) /\ pc[x] = "executing" /\ Len(frames[x]) = 2
  BY <1>1, TopIs DEF CopyInv
<1>3. frames[x][1].phase = "scope" /\ doubtful[x] = {} /\ ~handled[x]
  BY <1>2 DEF CopyInv, Nested, Fresh, HandledLater
<1>4. /\ frames' \in [Copy -> Seq(Frame)]
      /\ Nested(x)' /\ frames'[x] # <<>> /\ frames'[x][1].phase = "leave"
      /\ ~Trying(x)'
  BY <1>1, <1>2, FramesExecuted
<1>5. CASE raised[x] = {}
  <2>1. UNCHANGED <<retried, handled, outputs, left, accepted>>
    BY <1>5 DEF Executed
  <2>2. TypeOK'
    BY <1>1, <1>4, <2>1 DEF TypeOK
  <2>3. Fresh(x)' /\ Over(x)' /\ HandledLater(x)'
    BY <1>1, <1>2, <1>3, <2>1 DEF CopyInv, Fresh, Over, HandledLater
  <2>4. ~Trying(x)
    BY <1>2 DEF Trying
  <2>5. \A p \in DOMAIN outputs'[x] : Outcome(x, p)'
    BY <1>1, <1>4, <2>1, <2>4, SameOutcome DEF CopyInv
  <2> QED BY <1>4, <2>2, <2>3, <2>5 DEF CopyInv
<1>6. CASE raised[x] # {}
  <2>1. PICK e \in raised[x] : HandleError(x, e)
    BY <1>6 DEF Executed
  <2>2. raised'[x] = {e}
    BY <1>1 DEF CopyInv, HandledLater
  <2>3. raised' \in [Copy -> SUBSET Errors]
    BY <1>1 DEF TypeOK
  <2> QED BY <1>1, <1>2, <1>3, <1>4, <2>1, <2>2, <2>3, ErrorLeaves
<1> QED BY <1>5, <1>6

\* The executor raises around the pipeline: its error is handled the same.
LEMMA ExecutorRaisesKeeps ==
  ASSUME TypeOK, NEW x \in Copy, CopyInv(x), ExecutorRaises(x)
  PROVE  TypeOK' /\ CopyInv(x)'
<1>1. /\ frames[x] # <<>> /\ ExecutedFrame(x).hook = "message_executed"
      /\ ExecutedFrame(x).phase = "scope"
      /\ frames' = [frames EXCEPT ![x] = <<EndScope(ExecutedFrame(x))>>]
      /\ UNCHANGED <<channels, topic, pc, stages, next, doubtful, errors, context>>
  BY DEF ExecutorRaises
<1>2. Nested(x) /\ ExecutedFrame(x) = frames[x][1]
  BY <1>1, TopIs DEF CopyInv, ExecutedFrame
<1>3. pc[x] = "executing"
  BY <1>1, <1>2 DEF Nested
<1>4. doubtful[x] = {} /\ ~handled[x]
  BY <1>1, <1>2, <1>3 DEF CopyInv, Fresh, HandledLater
<1>5. /\ frames' \in [Copy -> Seq(Frame)]
      /\ Nested(x)' /\ frames'[x] # <<>> /\ frames'[x][1].phase = "leave"
      /\ ~Trying(x)'
  BY <1>1, <1>2, <1>3, FramesExecuted
<1>6. PICK e \in Errors : raised' = [raised EXCEPT ![x] = {e}] /\ HandleError(x, e)
  BY DEF ExecutorRaises
<1>7. raised'[x] = {e} /\ raised' \in [Copy -> SUBSET Errors]
  BY <1>6 DEF TypeOK
<1> QED BY <1>1, <1>3, <1>4, <1>5, <1>6, <1>7, ErrorLeaves

\* The results are processed, unless nothing takes the exception.
LEMMA LeaveKeeps ==
  ASSUME TypeOK, NEW x \in Copy, CopyInv(x), Leave(x)
  PROVE  TypeOK' /\ CopyInv(x)'
<1>1. /\ frames[x] # <<>> /\ Top(x).hook = "message_executed" /\ Top(x).phase = "leave"
      /\ UNCHANGED <<channels, topic, retried, stages, raised, handled, publishVars>>
  BY DEF Leave, Left, InFrame
<1>2. pc[x] = "executing" /\ Len(frames[x]) = 1
  BY <1>1, TopIs DEF CopyInv
<1>3. ~Trying(x) /\ context[x] \notin {"done", "failed"}
  BY <1>2 DEF Trying, CopyInv, Over
<1>4. handled'[x] => \A e \in raised'[x] : Retried(x, e)'
  BY <1>1, SameRetried DEF HandledLater, CopyInv, publishVars
<1>5. \A d, e \in raised'[x] : d = e
  BY <1>1 DEF HandledLater, CopyInv
<1>6. CASE Unhandled(x)
  <2>1. /\ pc' = [pc EXCEPT ![x] = "done"]
        /\ context' = [context EXCEPT ![x] = "failed"]
        /\ frames' = [frames EXCEPT ![x] = <<>>]
    BY <1>6 DEF Leave
  <2>2. <<>> \in Seq(Frame) /\ Len(<<>>) = 0
    BY EmptySeq
  <2>3. TypeOK'
    BY <1>1, <2>1, <2>2 DEF TypeOK, publishVars
  <2>4. pc'[x] = "done" /\ context'[x] = "failed" /\ frames'[x] = <<>>
    BY <2>1 DEF TypeOK
  <2>5. Nested(x)' /\ Fresh(x)' /\ Over(x)' /\ HandledLater(x)'
    BY <1>1, <1>4, <1>5, <2>2, <2>4 DEF Nested, Fresh, Over, HandledLater
  <2>6. ~Trying(x)'
    BY <2>4 DEF Trying
  <2>7. \A p \in DOMAIN outputs'[x] : Outcome(x, p)'
    BY <1>1, <1>3, <2>4, <2>6, SameOutcome DEF CopyInv, publishVars
  <2> QED BY <2>3, <2>5, <2>7 DEF CopyInv
<1>7. CASE ~Unhandled(x)
  <2> DEFINE e == Emit("results_processed")
  <2>1. e \in Frame /\ e.hook = "results_processed" /\ e.phase \in {"call", "scope"}
    BY EmitIsFrame DEF ContextHook
  <2>2. /\ pc' = [pc EXCEPT ![x] = "processing"]
        /\ context' = context
        /\ frames' = [frames EXCEPT ![x] = <<e>>]
    BY <1>7 DEF Leave
  <2> HIDE DEF e
  <2>3. <<e>> \in Seq(Frame) /\ Len(<<e>>) = 1 /\ <<e>>[1] = e /\ <<e>> # <<>>
    BY <2>1
  <2>4. TypeOK'
    BY <1>1, <2>2, <2>3 DEF TypeOK, publishVars
  <2>5. pc'[x] = "processing" /\ frames'[x] = <<e>>
    BY <2>2 DEF TypeOK
  <2>6. Nested(x)' /\ Fresh(x)' /\ HandledLater(x)'
    BY <1>1, <1>4, <1>5, <2>1, <2>3, <2>5 DEF Nested, Fresh, HandledLater
  <2>7. Over(x)'
    BY <1>3, <2>1, <2>2, <2>3, <2>5 DEF Over
  <2>8. ~Trying(x)'
    BY <2>3, <2>5 DEF Trying
  <2>9. \A p \in DOMAIN outputs'[x] : Outcome(x, p)'
    BY <1>1, <1>3, <2>2, <2>8, SameOutcome DEF CopyInv, publishVars
  <2> QED BY <2>4, <2>6, <2>7, <2>9 DEF CopyInv
<1> QED BY <1>6, <1>7

----------------------------------------------------------------------------
(* The publications *)

\* While the results are processed, what is not of the outputs stays.
LEMMA ProcessingKeeps ==
  ASSUME NEW x \in Copy, CopyInv(x), pc[x] = "processing", Nested(x)',
         UNCHANGED <<channels, pc, raised, handled, outputs, context>>,
         Len(frames[x]) = 1 \/ frames[x][1].phase # "leave",
         frames'[x][1].phase = "leave" => left'[x] = {}
  PROVE  Nested(x)' /\ Fresh(x)' /\ Over(x)' /\ HandledLater(x)' /\ ~(context[x] \in {"done", "failed"})
<1>1. context[x] \notin {"done", "failed"}
  BY DEF CopyInv, Over
<1>2. handled'[x] => \A e \in raised'[x] : Retried(x, e)'
  BY SameRetried DEF HandledLater, CopyInv
<1> QED BY <1>1, <1>2 DEF Fresh, Over, HandledLater, CopyInv

\* The next output is taken, and the emission of its publication begins.
LEMMA NextOutputKeeps ==
  ASSUME TypeOK, NEW x \in Copy, CopyInv(x), NextOutput(x)
  PROVE  TypeOK' /\ CopyInv(x)'
<1>1. /\ frames[x] # <<>> /\ Top(x).hook = "results_processed" /\ Top(x).phase = "scope"
      /\ frames' = [frames EXCEPT ![x] = Append(@, Emit("message_published"))]
      /\ UNCHANGED <<channels, topic, pc, retried, stages, raised, handled, outputs,
                     accepted, doubtful, errors, context>>
  BY DEF NextOutput, InFrame
<1>2. Nested(x) /\ pc[x] = "processing" /\ Len(frames[x]) = 1 /\ Top(x) = frames[x][1]
  BY <1>1, TopIs DEF CopyInv
<1>3. PICK p \in left[x] :
        next' = [next EXCEPT ![x] = p] /\ left' = [left EXCEPT ![x] = @ \ {p}]
  BY DEF NextOutput
<1>4. /\ frames' \in [Copy -> Seq(Frame)]
      /\ Nested(x)' /\ frames'[x] # <<>> /\ Len(frames'[x]) = Len(frames[x]) + 1
      /\ Last(frames'[x]) = Emit("message_published")
      /\ \A i \in 1 .. Len(frames[x]) : frames'[x][i] = frames[x][i]
  BY <1>1, <1>2, FramesPushed DEF ContextHook
<1>5. frames'[x][1].phase = "scope" /\ Len(frames'[x]) = 2
  BY <1>1, <1>2, <1>4
<1>6. next'[x] = p /\ left'[x] = left[x] \ {p} /\ DOMAIN left' = Copy /\ DOMAIN next' = Copy
      /\ \A y \in Copy : left'[y] \subseteq left[y]
  BY <1>3 DEF TypeOK
<1>7. TypeOK'
  BY <1>1, <1>4, <1>6 DEF TypeOK
<1>8. Fresh(x)' /\ Over(x)' /\ HandledLater(x)'
  BY <1>1, <1>2, <1>4, <1>5, ProcessingKeeps
<1>9. Trying(x)'
  <2>1. Emit("message_published").phase # "leave"
    BY EmitIsFrame DEF ContextHook
  <2> QED BY <1>1, <1>2, <1>4, <1>5, <2>1 DEF Trying
<1>10. ASSUME NEW q \in DOMAIN outputs'[x]
       PROVE  Outcome(x, q)'
  <2>1. Outcome(x, q) /\ Doubt(x, q)' = Doubt(x, q)
    BY <1>1 DEF CopyInv, Doubt
  <2>2. CASE q = p
    BY <1>1, <1>3, <1>5, <1>6, <1>9, <2>1, <2>2 DEF Outcome
  <2>3. CASE q # p
    <3>1. ~Trying(x)
      BY <1>2 DEF Trying
    <3> QED BY <1>1, <1>5, <1>6, <1>9, <2>1, <2>3, <3>1 DEF Outcome
  <2> QED BY <2>2, <2>3
<1> QED BY <1>4, <1>7, <1>8, <1>10 DEF CopyInv

\* One count of many is raised.
LEMMA Counted ==
  ASSUME NEW S, NEW f \in [S -> Nat], NEW q
  PROVE  /\ [f EXCEPT ![q] = @ + 1] \in [S -> Nat]
         /\ \A p \in S :
              [f EXCEPT ![q] = @ + 1][p] = f[p] + (IF p = q THEN 1 ELSE 0)
<1>1. CASE q \in S
  BY <1>1
<1>2. CASE q \notin S
  <2>1. PICK g : g = [f EXCEPT ![q] = @ + 1]
    OBVIOUS
  <2>2. g = f
    BY <1>2, <2>1
  <2>3. \A p \in S : f[p] \in Nat /\ p # q
    BY <1>2
  <2>4. g \in [S -> Nat] /\ \A p \in S : g[p] = f[p] + (IF p = q THEN 1 ELSE 0)
    BY <2>2, <2>3
  <2> QED BY <2>1, <2>4
<1> QED BY <1>1, <1>2

\* The topic has one more of the output being published.
LEMMA AcceptKeeps ==
  ASSUME TypeOK, NEW x \in Copy, Accept(x), UNCHANGED <<outputs>>
  PROVE  /\ topic' \in Seq(Nat) /\ DOMAIN accepted' = Copy
         /\ \A y \in Copy : accepted'[y] \in [DOMAIN outputs'[y] -> Nat]
         /\ \A y \in Copy \ {x} : accepted'[y] = accepted[y]
         /\ \A p \in DOMAIN outputs[x] :
              accepted'[x][p] = accepted[x][p] + (IF p = next[x] THEN 1 ELSE 0)
<1> DEFINE a == [accepted[x] EXCEPT ![next[x]] = @ + 1]
<1>1. accepted' = [accepted EXCEPT ![x] = a]
  BY DEF Accept
<1>2. accepted[x] \in [DOMAIN outputs[x] -> Nat]
  BY DEF TypeOK
<1>3. /\ a \in [DOMAIN outputs[x] -> Nat]
      /\ \A p \in DOMAIN outputs[x] :
           a[p] = accepted[x][p] + (IF p = next[x] THEN 1 ELSE 0)
  BY <1>2, Counted
<1> HIDE DEF a
<1>4. /\ accepted'[x] = a /\ DOMAIN accepted' = Copy
      /\ \A y \in Copy \ {x} : accepted'[y] = accepted[y]
  BY <1>1 DEF TypeOK
<1>5. \A y \in Copy : accepted'[y] \in [DOMAIN outputs'[y] -> Nat]
  <2> SUFFICES ASSUME NEW y \in Copy PROVE accepted'[y] \in [DOMAIN outputs[y] -> Nat]
    OBVIOUS
  <2>1. CASE y = x
    BY <1>3, <1>4, <2>1
  <2>2. CASE y # x
    BY <1>4, <2>2 DEF TypeOK
  <2> QED BY <2>1, <2>2
<1>6. topic' \in Seq(Nat)
  <2>1. retried[x] \in Nat /\ topic \in Seq(Nat)
    BY DEF TypeOK
  <2>2. Append(topic, retried[x]) \in Seq(Nat)
    BY <2>1
  <2> QED BY <2>1, <2>2 DEF Accept
<1> QED BY <1>3, <1>4, <1>5, <1>6

\* The first publication: accepted, refused or in doubt.
LEMMA PublishNowKeeps ==
  ASSUME TypeOK, NEW x \in Copy, CopyInv(x), PublishNow(x)
  PROVE  TypeOK' /\ CopyInv(x)'
<1>1. /\ frames[x] # <<>> /\ Top(x).hook = "message_published" /\ Top(x).phase = "scope"
      /\ UNCHANGED <<channels, pc, retried, stages, raised, handled, outputs, left, next,
                     errors, context>>
  BY DEF PublishNow, InFrame
<1>2. Nested(x) /\ pc[x] = "processing" /\ Len(frames[x]) = 2 /\ Top(x) = frames[x][2]
  BY <1>1, TopIs DEF CopyInv
<1>3. frames[x][1].phase = "scope" /\ Trying(x)
  BY <1>1, <1>2 DEF Nested, Trying, Top
<1>4. \A p \in DOMAIN outputs[x] :
        /\ Outcome(x, p)
        /\ accepted[x][p] \in Nat
        /\ p = next[x] => accepted[x][p] = 0 /\ p \notin left[x]
  <2> SUFFICES ASSUME NEW p \in DOMAIN outputs[x]
               PROVE  /\ Outcome(x, p)
                      /\ accepted[x][p] \in Nat
                      /\ p = next[x] => accepted[x][p] = 0 /\ p \notin left[x]
    OBVIOUS
  <2>1. accepted[x][p] \in Nat /\ Outcome(x, p)
    BY DEF TypeOK, CopyInv
  <2>2. p = next[x] => accepted[x][p] <= 0 /\ p \notin left[x]
    BY <1>2, <1>3, <2>1 DEF Outcome
  <2> QED BY <2>1, <2>2
<1>5. CASE Accept(x) /\ frames' = WithTop(x, EndScope(Top(x))) /\ UNCHANGED doubtful
  <2>1. /\ topic' \in Seq(Nat) /\ DOMAIN accepted' = Copy
        /\ \A y \in Copy : accepted'[y] \in [DOMAIN outputs'[y] -> Nat]
        /\ \A p \in DOMAIN outputs[x] :
             accepted'[x][p] = accepted[x][p] + (IF p = next[x] THEN 1 ELSE 0)
    BY <1>1, <1>5, AcceptKeeps
  <2>2. /\ frames' \in [Copy -> Seq(Frame)]
        /\ Nested(x)' /\ ~Trying(x)'
        /\ frames'[x][1] = frames[x][1]
    BY <1>1, <1>2, <1>5, ScopeEnds
  <2>3. TypeOK'
    BY <1>1, <1>5, <2>1, <2>2 DEF TypeOK
  <2>4. Fresh(x)' /\ Over(x)' /\ HandledLater(x)'
    BY <1>1, <1>2, <1>3, <2>2, ProcessingKeeps
  <2>5. ASSUME NEW p \in DOMAIN outputs'[x]
        PROVE  Outcome(x, p)'
    <3>1. Doubt(x, p)' = Doubt(x, p) /\ Doubt(x, p) \in {0, 1}
      BY <1>5 DEF Doubt
    <3>2. Outcome(x, p) /\ accepted[x][p] \in Nat
          /\ accepted'[x][p] = accepted[x][p] + (IF p = next[x] THEN 1 ELSE 0)
      BY <1>1, <1>4, <2>1
    <3>3. CASE p = next[x]
      <4>1. accepted[x][p] = 0 /\ accepted'[x][p] = 1
        BY <1>1, <1>4, <3>2, <3>3
      <4>2. p \notin left[x]
        BY <1>1, <1>4, <3>3
      <4> QED BY <1>1, <2>2, <3>1, <4>1, <4>2 DEF Outcome
    <3>4. CASE p # next[x]
      BY <1>1, <2>2, <3>1, <3>2, <3>4 DEF Outcome
    <3> QED BY <3>3, <3>4
  <2> QED BY <2>2, <2>3, <2>4, <2>5 DEF CopyInv
<1>6. CASE /\ frames' = [frames EXCEPT ![x] = Append(@, Emit("output_blocked"))]
           /\ \/ UNCHANGED <<topic, accepted, doubtful>>
              \/ Accept(x) /\ doubtful' = [doubtful EXCEPT ![x] = @ \cup {next[x]}]
  <2>1. /\ topic' \in Seq(Nat) /\ DOMAIN accepted' = Copy /\ DOMAIN doubtful' = Copy
        /\ \A y \in Copy : accepted'[y] \in [DOMAIN outputs'[y] -> Nat]
    BY <1>1, <1>6, AcceptKeeps DEF TypeOK
  <2>2. /\ frames' \in [Copy -> Seq(Frame)]
        /\ Nested(x)' /\ frames'[x] # <<>> /\ Len(frames'[x]) = Len(frames[x]) + 1
        /\ Last(frames'[x]) = Emit("output_blocked")
        /\ \A i \in 1 .. Len(frames[x]) : frames'[x][i] = frames[x][i]
    BY <1>1, <1>2, <1>6, FramesPushed DEF ContextHook
  <2>3. TypeOK'
    BY <1>1, <2>1, <2>2 DEF TypeOK
  <2>4. frames'[x][1].phase = "scope" /\ Len(frames'[x]) = 3
    BY <1>2, <1>3, <2>2
  <2>5. Fresh(x)' /\ Over(x)' /\ HandledLater(x)'
    BY <1>1, <1>2, <1>3, <2>2, <2>4, ProcessingKeeps
  <2>6. ASSUME NEW p \in DOMAIN outputs'[x]
        PROVE  Outcome(x, p)'
    <3>1. /\ Outcome(x, p) /\ accepted[x][p] \in Nat
          /\ p = next[x] => accepted[x][p] = 0 /\ p \notin left[x]
      BY <1>1, <1>4
    <3>2. Trying(x)'
      <4>1. Emit("output_blocked").phase # "leave"
        BY EmitIsFrame DEF ContextHook
      <4> QED BY <1>1, <1>2, <2>2, <2>4, <4>1 DEF Trying
    <3>3. CASE UNCHANGED <<topic, accepted, doubtful>>
      <4>1. Doubt(x, p)' = Doubt(x, p) /\ Doubt(x, p) \in {0, 1}
        BY <3>3 DEF Doubt
      <4> QED BY <1>1, <1>3, <2>4, <3>1, <3>2, <3>3, <4>1 DEF Outcome
    <3>4. CASE Accept(x) /\ doubtful' = [doubtful EXCEPT ![x] = @ \cup {next[x]}]
      <4>1. accepted'[x][p] = accepted[x][p] + (IF p = next[x] THEN 1 ELSE 0)
        BY <1>1, <3>4, AcceptKeeps
      <4>2. doubtful'[x] = doubtful[x] \cup {next[x]}
        BY <3>4 DEF TypeOK
      <4>3. CASE p = next[x]
        <5>1. accepted'[x][p] = 1 /\ Doubt(x, p)' = 1 /\ p \notin left[x]
          BY <3>1, <4>1, <4>2, <4>3 DEF Doubt
        <5> QED BY <1>1, <2>4, <3>2, <4>3, <5>1 DEF Outcome
      <4>4. CASE p # next[x]
        <5>1. accepted'[x][p] = accepted[x][p] /\ Doubt(x, p)' = Doubt(x, p)
          BY <3>1, <4>1, <4>2, <4>4 DEF Doubt
        <5> QED BY <1>1, <3>1, <4>4, <5>1 DEF Outcome
      <4> QED BY <4>3, <4>4
    <3> QED BY <1>6, <3>3, <3>4
  <2> QED BY <2>2, <2>3, <2>5, <2>6 DEF CopyInv
<1> QED BY <1>5, <1>6 DEF PublishNow

\* The second publication, which waits: accepted, failed or both.
LEMMA PublishWaitKeeps ==
  ASSUME TypeOK, NEW x \in Copy, CopyInv(x), PublishWait(x)
  PROVE  TypeOK' /\ CopyInv(x)'
<1>1. /\ frames[x] # <<>> /\ Top(x).hook = "output_blocked" /\ Top(x).phase = "scope"
      /\ frames' = WithTop(x, EndScope(Top(x)))
      /\ UNCHANGED <<channels, pc, retried, stages, raised, handled, outputs, left, next,
                     doubtful, context>>
  BY DEF PublishWait, InFrame
<1>2. Nested(x) /\ pc[x] = "processing" /\ Len(frames[x]) = 3 /\ Top(x) = frames[x][3]
  BY <1>1, TopIs DEF CopyInv
<1>3. frames[x][1].phase = "scope" /\ Trying(x)
  BY <1>1, <1>2 DEF Nested, Trying, Top
<1>4. /\ topic' \in Seq(Nat) /\ DOMAIN accepted' = Copy /\ errors' \in [Copy -> BOOLEAN]
      /\ \A y \in Copy : accepted'[y] \in [DOMAIN outputs'[y] -> Nat]
  <2>1. errors' \in [Copy -> BOOLEAN]
    BY DEF PublishWait, TypeOK
  <2>2. CASE Accept(x)
    BY <1>1, <2>1, <2>2, AcceptKeeps
  <2>3. CASE UNCHANGED <<topic, accepted>>
    BY <1>1, <2>1, <2>3 DEF TypeOK
  <2> QED BY <2>2, <2>3 DEF PublishWait
<1>5. /\ frames' \in [Copy -> Seq(Frame)]
      /\ Nested(x)' /\ ~Trying(x)'
      /\ frames'[x][1] = frames[x][1]
  BY <1>1, <1>2, ScopeEnds
<1>6. TypeOK'
  BY <1>1, <1>4, <1>5 DEF TypeOK
<1>7. Fresh(x)' /\ Over(x)' /\ HandledLater(x)'
  BY <1>1, <1>2, <1>3, <1>5, ProcessingKeeps
<1>8. ASSUME NEW p \in DOMAIN outputs'[x]
      PROVE  Outcome(x, p)'
  <2>1. /\ Outcome(x, p) /\ accepted[x][p] \in Nat
        /\ Doubt(x, p)' = Doubt(x, p) /\ Doubt(x, p) \in {0, 1}
    BY <1>1 DEF TypeOK, CopyInv, Doubt
  <2>2. errors[x] => errors'[x]
    BY DEF PublishWait, TypeOK
  <2>3. CASE p # next[x]
    <3>1. accepted'[x][p] = accepted[x][p]
      <4>1. CASE Accept(x)
        BY <1>1, <2>1, <2>3, <4>1, AcceptKeeps
      <4>2. CASE UNCHANGED <<topic, accepted>>
        BY <4>2
      <4> QED BY <4>1, <4>2 DEF PublishWait
    <3> QED BY <1>1, <1>5, <2>1, <2>2, <2>3, <3>1 DEF Outcome
  <2>4. CASE p = next[x]
    <3>1. p \notin left[x] /\ accepted[x][p] <= Doubt(x, p)
      BY <1>2, <1>3, <2>1, <2>4 DEF Outcome
    <3>2. CASE Accept(x)
      <4>1. accepted'[x][p] = accepted[x][p] + 1
        BY <1>1, <2>4, <3>2, AcceptKeeps
      <4> QED BY <1>1, <1>5, <2>1, <3>1, <4>1 DEF Outcome
    <3>3. CASE ~Accept(x)
      <4>1. errors'[x] /\ accepted' = accepted
        BY <3>3 DEF PublishWait, TypeOK
      <4> QED BY <1>1, <1>5, <2>1, <3>1, <4>1 DEF Outcome
    <3> QED BY <3>2, <3>3
  <2> QED BY <2>3, <2>4
<1> QED BY <1>5, <1>6, <1>7, <1>8 DEF CopyInv

\* The blocked emission ends, and the scope that it was in.
LEMMA UnblockedKeeps ==
  ASSUME TypeOK, NEW x \in Copy, CopyInv(x), Unblocked(x)
  PROVE  TypeOK' /\ CopyInv(x)'
<1> DEFINE s == frames[x]
           f == EndScope(Last(Front(s)))
           t == Append(Front(Front(s)), f)
<1>1. /\ s # <<>> /\ Top(x).hook = "output_blocked" /\ Top(x).phase = "leave"
      /\ frames' = [frames EXCEPT ![x] = t]
      /\ UNCHANGED <<channels, topic, pc, retried, stages, raised, handled, publishVars,
                     context>>
  BY DEF Unblocked, Left, InFrame
<1>2. /\ Nested(x) /\ pc[x] = "processing" /\ Len(s) = 3 /\ s \in Seq(Frame)
      /\ Top(x) = s[3]
  BY <1>1, TopIs DEF CopyInv
<1>3. /\ Front(s) \in Seq(Frame) /\ Len(Front(s)) = 2
      /\ Front(s)[1] = s[1] /\ Front(s)[2] = s[2]
  <2> HIDE DEF s
  <2>1. /\ Front(s) \in Seq(Frame) /\ Len(Front(s)) = Len(s) - 1
        /\ \A i \in 1 .. (Len(s) - 1) : Front(s)[i] = s[i]
    BY <1>1, <1>2, Pop
  <2>2. Len(s) - 1 = 2 /\ 1 \in 1 .. 2 /\ 2 \in 1 .. 2
    BY <1>2
  <2> QED BY <2>1, <2>2
<1>4. Last(Front(s)) = s[2] /\ s[2] \in Frame
  BY <1>2, <1>3, ElementOfSeq DEF Last
<1>5. f \in Frame /\ f.hook = s[2].hook /\ f.phase = "leave"
  BY <1>4, EndScopeIsFrame
<1> HIDE DEF f
<1>6. Front(s) # <<>>
  BY <1>3
<1>7. /\ t \in Seq(Frame) /\ t # <<>> /\ Len(t) = 2 /\ t[2] = f /\ Last(t) = f
      /\ t[1] = s[1]
  BY <1>3, <1>5, <1>6, ReplaceLast
<1> HIDE DEF s, t
<1>8. frames'[x] = t /\ frames' \in [Copy -> Seq(Frame)]
  BY <1>1, <1>7 DEF TypeOK
<1>9. TypeOK'
  BY <1>1, <1>8 DEF TypeOK, publishVars
<1>10. Nested(x)' /\ t[1].phase = "scope"
  <2>1. /\ s[1].hook = "results_processed" /\ s[1].phase = "scope"
        /\ s[2].hook = "message_published"
    BY <1>2 DEF Nested, s
  <2>2. pc'[x] = "processing"
    BY <1>1, <1>2
  <2>3. /\ frames'[x] # <<>> /\ Len(frames'[x]) = 2
        /\ frames'[x][1].hook = "results_processed" /\ frames'[x][1].phase = "scope"
        /\ frames'[x][2].hook = "message_published"
    BY <1>5, <1>7, <1>8, <2>1
  <2>4. Nested(x)'
    BY <2>2, <2>3 DEF Nested
  <2> QED BY <1>7, <2>1, <2>4
<1>11. ~Trying(x) /\ ~Trying(x)'
  BY <1>1, <1>2, <1>5, <1>7, <1>8 DEF Trying, s, Top
<1>12. Fresh(x)' /\ Over(x)' /\ HandledLater(x)'
  BY <1>1, <1>2, <1>7, <1>8, <1>10, ProcessingKeeps DEF publishVars, s
<1>13. \A p \in DOMAIN outputs'[x] : Outcome(x, p)'
  BY <1>1, <1>11, SameOutcome DEF CopyInv, publishVars
<1> QED BY <1>9, <1>10, <1>12, <1>13 DEF CopyInv

\* The emission of a publication is over.
LEMMA PublishedKeeps ==
  ASSUME TypeOK, NEW x \in Copy, CopyInv(x), Published(x)
  PROVE  TypeOK' /\ CopyInv(x)'
<1> DEFINE s == frames[x]
           t == Front(s)
<1>1. /\ s # <<>> /\ Top(x).hook = "message_published" /\ Top(x).phase = "leave"
      /\ frames' = [frames EXCEPT ![x] = t]
      /\ UNCHANGED <<channels, topic, pc, retried, stages, raised, handled, publishVars,
                     context>>
  BY DEF Published, Left, InFrame
<1>2. /\ Nested(x) /\ pc[x] = "processing" /\ Len(s) = 2 /\ s \in Seq(Frame)
      /\ Top(x) = s[2]
  BY <1>1, TopIs DEF CopyInv
<1>3. t \in Seq(Frame) /\ Len(t) = 1 /\ t[1] = s[1]
  <2> HIDE DEF s
  <2>1. /\ Front(s) \in Seq(Frame) /\ Len(Front(s)) = Len(s) - 1
        /\ \A i \in 1 .. (Len(s) - 1) : Front(s)[i] = s[i]
    BY <1>1, <1>2, Pop
  <2>2. Len(s) - 1 = 1 /\ 1 \in 1 .. 1
    BY <1>2
  <2> QED BY <2>1, <2>2
<1>4. t # <<>>
  BY <1>3
<1> HIDE DEF s, t
<1>5. frames'[x] = t /\ frames' \in [Copy -> Seq(Frame)]
  BY <1>1, <1>3 DEF TypeOK
<1>6. TypeOK'
  BY <1>1, <1>5 DEF TypeOK, publishVars
<1>7. Nested(x)' /\ t[1].phase = "scope"
  <2>1. s[1].hook = "results_processed" /\ s[1].phase = "scope"
    BY <1>2 DEF Nested, s
  <2>2. pc'[x] = "processing"
    BY <1>1, <1>2
  <2>3. /\ frames'[x] # <<>> /\ Len(frames'[x]) = 1
        /\ frames'[x][1].hook = "results_processed" /\ frames'[x][1].phase = "scope"
    BY <1>3, <1>4, <1>5, <2>1
  <2>4. Nested(x)'
    BY <2>2, <2>3 DEF Nested
  <2> QED BY <1>3, <2>1, <2>4
<1>8. ~Trying(x) /\ ~Trying(x)'
  BY <1>1, <1>2, <1>3, <1>5 DEF Trying, s, Top
<1>9. Fresh(x)' /\ Over(x)' /\ HandledLater(x)'
  BY <1>1, <1>2, <1>3, <1>5, <1>7, ProcessingKeeps DEF publishVars, s
<1>10. \A p \in DOMAIN outputs'[x] : Outcome(x, p)'
  BY <1>1, <1>8, SameOutcome DEF CopyInv, publishVars
<1> QED BY <1>6, <1>7, <1>9, <1>10 DEF CopyInv

\* The outputs have all been tried.
LEMMA AllTriedKeeps ==
  ASSUME TypeOK, NEW x \in Copy, CopyInv(x), AllTried(x)
  PROVE  TypeOK' /\ CopyInv(x)'
<1>1. /\ frames[x] # <<>> /\ Top(x).hook = "results_processed" /\ Top(x).phase = "scope"
      /\ left[x] = {}
      /\ frames' = WithTop(x, EndScope(Top(x)))
      /\ UNCHANGED <<channels, topic, pc, retried, stages, raised, handled, publishVars,
                     context>>
  BY DEF AllTried, InFrame
<1>2. Nested(x) /\ pc[x] = "processing" /\ Len(frames[x]) = 1 /\ Top(x) = frames[x][1]
  BY <1>1, TopIs DEF CopyInv
<1>3. EndScope(Top(x)) \in Frame /\ EndScope(Top(x)).hook = Top(x).hook
  BY <1>1, <1>2, TopIs, EndScopeIsFrame
<1>4. frames' \in [Copy -> Seq(Frame)] /\ Nested(x)' /\ Len(frames'[x]) = 1
  BY <1>1, <1>2, <1>3, FramesReplaced
<1>5. TypeOK'
  BY <1>1, <1>4 DEF TypeOK, publishVars
<1>6. ~Trying(x) /\ ~Trying(x)'
  BY <1>2, <1>4 DEF Trying
<1>7. Fresh(x)' /\ Over(x)' /\ HandledLater(x)'
  BY <1>1, <1>2, <1>4, ProcessingKeeps DEF publishVars
<1>8. \A p \in DOMAIN outputs'[x] : Outcome(x, p)'
  BY <1>1, <1>6, SameOutcome DEF CopyInv, publishVars
<1> QED BY <1>4, <1>5, <1>7, <1>8 DEF CopyInv

\* The context of the message is left, or what holds it is cancelled.
LEMMA EndKeeps ==
  ASSUME TypeOK, NEW x \in Copy, CopyInv(x), Processed(x) \/ Cancel(x)
  PROVE  TypeOK' /\ CopyInv(x)'
<1>1. /\ pc' = [pc EXCEPT ![x] = "done"]
      /\ frames' = [frames EXCEPT ![x] = <<>>]
      /\ UNCHANGED <<channels, topic, retried, raised, handled, publishVars>>
  BY DEF Processed, Cancel
<1>2. PICK c \in {"done", "failed"} : context' = [context EXCEPT ![x] = c]
  BY DEF Processed, Cancel
<1>3. <<>> \in Seq(Frame) /\ Len(<<>>) = 0
  BY EmptySeq
<1>4. /\ pc'[x] = "done" /\ frames'[x] = <<>> /\ context'[x] = c
      /\ context[x] \notin {"done", "failed"}
  <2>1. pc[x] # "done"
    <3>1. CASE Processed(x)
      <4>1. frames[x] # <<>>
        BY <3>1 DEF Processed, Left, InFrame
      <4> QED BY <4>1 DEF CopyInv, Nested
    <3>2. CASE Cancel(x)
      BY <3>2 DEF Cancel
    <3> QED BY <3>1, <3>2
  <2> QED BY <1>1, <1>2, <2>1 DEF TypeOK, CopyInv, Over
<1>5. TypeOK'
  <2>1. stages' \in [Copy -> SUBSET Stage]
    BY DEF Processed, Cancel, TypeOK
  <2> QED BY <1>1, <1>2, <1>3, <2>1 DEF TypeOK, publishVars
<1>6. Nested(x)' /\ Fresh(x)'
  BY <1>3, <1>4 DEF Nested, Fresh
<1>7. ~Trying(x)'
  BY <1>4 DEF Trying
<1>8. CASE Processed(x)
  <2>1. /\ frames[x] # <<>> /\ Top(x).hook = "results_processed" /\ Top(x).phase = "leave"
        /\ c = "done" => ~errors[x] /\ (raised[x] = {} \/ handled[x])
    BY <1>2, <1>4, <1>8 DEF Processed, Left, InFrame, Failed, TypeOK
  <2>2. pc[x] = "processing" /\ Len(frames[x]) = 1 /\ Top(x) = frames[x][1]
    BY <2>1, TopIs DEF CopyInv
  <2>3. left[x] = {} /\ ~Trying(x)
    BY <2>1, <2>2 DEF CopyInv, Over, Trying
  <2>4. Over(x)' /\ HandledLater(x)'
    <3>1. handled'[x] => \A e \in raised'[x] : Retried(x, e)'
      BY <1>1, SameRetried DEF HandledLater, CopyInv, publishVars
    <3> QED BY <1>1, <1>4, <2>1, <2>3, <3>1 DEF Over, HandledLater, CopyInv, publishVars
  <2>5. \A p \in DOMAIN outputs'[x] : Outcome(x, p)'
    BY <1>1, <1>4, <1>7, <2>3, SameOutcome DEF CopyInv, publishVars
  <2> QED BY <1>5, <1>6, <2>4, <2>5 DEF CopyInv
<1>9. CASE Cancel(x)
  <2>1. context'[x] = "failed"
    BY <1>9 DEF Cancel, TypeOK
  <2>2. Over(x)' /\ HandledLater(x)'
    <3>1. handled'[x] => \A e \in raised'[x] : Retried(x, e)'
      BY <1>1, SameRetried DEF HandledLater, CopyInv, publishVars
    <3> QED BY <1>1, <1>4, <2>1, <3>1 DEF Over, HandledLater, CopyInv
  <2>3. \A p \in DOMAIN outputs'[x] : Outcome(x, p)'
    BY <1>1, <1>7, <2>1, SameOutcome DEF CopyInv, publishVars
  <2> QED BY <1>5, <1>6, <2>2, <2>3 DEF CopyInv
<1> QED BY <1>8, <1>9

----------------------------------------------------------------------------
(* The stages of the usage metrics *)

\* The usage metrics are among the generators that the emission f resumes.
On(f) == \E i \in 1 .. Len(f.generators) : f.generators[i] = "usage"

\* They yield when they are called, before the scope.
Marked(f) ==
  /\ f.phase = "call" =>
       \A i \in 1 .. f.called : Handlers[f.hook][i] = "usage" => On(f)
  /\ f.phase = "scope" /\ f.hook # "pipeline" => On(f)

\* The stages that hold a message before the usage metrics are called for a hook,
\* until they are resumed, and then.
Entering(h) ==
  CASE h = "message_executed"  -> {"submitting"}
    [] h = "results_processed" -> {}
    [] h = "message_published" -> {"processing_results"}
    [] h = "output_blocked"    -> {"publishing"}
    [] h = "pipeline"          -> {}

During(h) ==
  CASE h = "message_executed"  -> {"executing"}
    [] h = "results_processed" -> {"processing_results"}
    [] h = "message_published" -> {"publishing"}
    [] h = "output_blocked"    -> {"waiting_publish"}
    [] h = "pipeline"          -> {}

After(h) == IF h = "message_published" THEN {"processing_results"} ELSE {}

\* The stages S hold a message in the emission f.  An output that was blocked is in
\* none until the emission of its publication is resumed.
StagesIn(f, S) ==
  IF f.phase = "leave"
    THEN S = After(f.hook) \/ (On(f) /\ (S = During(f.hook) \/ S = {}))
    ELSE S = IF On(f) THEN During(f.hook) ELSE Entering(f.hook)

\* The emission that says in which stage a message is: the hook of the pipeline
\* has no part in it.
Staging(x) == IF pc[x] = "executing" THEN frames[x][1] ELSE Last(frames[x])

StageInv(x) ==
  /\ pc[x] \in {"none", "done"} => stages[x] = {}
  /\ pc[x] = "polled" => stages[x] = {"polling"}
  /\ pc[x] = "scheduled" => stages[x] = {"scheduling"}
  /\ pc[x] = "queued" => stages[x] = {"submitting"}
  /\ pc[x] \in {"executing", "processing"} => StagesIn(Staging(x), stages[x])
  /\ \A i \in 1 .. Len(frames[x]) : Marked(frames[x][i])

StagesInv == \A x \in Copy : StageInv(x)

\* An emission begins before the usage metrics are called.
LEMMA EmitMarked ==
  ASSUME NEW h \in ContextHook
  PROVE  Marked(Emit(h)) /\ StagesIn(Emit(h), Entering(h))
<1>1. /\ Emit(h).hook = h /\ Emit(h).called = 0 /\ Emit(h).generators = <<>>
      /\ Emit(h).phase \in {"call", "scope"}
      /\ Emit(h).phase = "scope" => Handlers[h] = <<>>
  BY DEF Emit
<1>2. ~On(Emit(h))
  BY <1>1 DEF On
<1>3. h # "pipeline" => Handlers[h] # <<>>
  BY UsageAssumption
<1>4. 1 .. 0 = {}
  OBVIOUS
<1> HIDE DEF Emit
<1> QED BY <1>1, <1>2, <1>3, <1>4 DEF Marked, StagesIn

\* The usage metrics are on from their call to their resumption.
LEMMA CallMarked ==
  ASSUME NEW f \in Frame, f.phase = "call", Marked(f), NEW yields \in MayYield(f)
  PROVE  LET g == Call(f, yields) IN
         /\ Marked(g)
         /\ Handler(f) = "usage" => On(g)
         /\ Handler(f) # "usage" => (On(g) <=> On(f))
<1>1. PICK g : g = Call(f, yields)
  OBVIOUS
<1>2. f.generators \in Seq(Kind) /\ f.called \in Nat /\ f.hook \in ContextHook
      /\ f.called < Len(Handlers[f.hook]) /\ Len(Handlers[f.hook]) \in Nat
  BY HooksAssumption DEF Frame
<1>3. yields \in BOOLEAN /\ (Handler(f) = "usage" => yields)
  BY DEF MayYield
<1>4. g \in Frame /\ g.hook = f.hook /\ g.phase \in {"call", "scope"}
  BY <1>1, <1>3, CallIsFrame
<1>5. /\ g.called = f.called + 1
      /\ g.generators = IF yields THEN Append(f.generators, Handler(f)) ELSE f.generators
      /\ g.phase = "scope" => f.called + 1 = Len(Handlers[f.hook])
  BY <1>1 DEF Call, Frame
<1>6. PICK n \in Nat : n = Len(f.generators)
  BY <1>2
<1>7. yields => /\ Len(g.generators) = n + 1 /\ g.generators[n + 1] = Handler(f)
                /\ \A i \in 1 .. n : g.generators[i] = f.generators[i]
  <2>1. Handler(f) \in Kind
    <3>1. Handlers[f.hook] \in Seq(Kind) /\ f.called + 1 \in 1 .. Len(Handlers[f.hook])
      BY <1>2, HooksAssumption
    <3> QED BY <3>1, ElementOfSeq DEF Handler
  <2> QED BY <1>2, <1>5, <1>6, <2>1, AppendProperties
<1>8. Handler(f) = "usage" => On(g)
  BY <1>3, <1>6, <1>7 DEF On
<1>9. Handler(f) # "usage" => (On(g) <=> On(f))
  BY <1>5, <1>6, <1>7 DEF On
<1>10. \A i \in 1 .. f.called + 1 : Handlers[f.hook][i] = "usage" => On(g)
  <2> SUFFICES ASSUME NEW i \in 1 .. f.called + 1, Handlers[f.hook][i] = "usage"
               PROVE  On(g)
    OBVIOUS
  <2>1. CASE i = f.called + 1
    BY <1>8, <2>1 DEF Handler
  <2>2. CASE i # f.called + 1
    <3>1. i \in 1 .. f.called
      BY <1>2, <2>2
    <3> QED BY <1>8, <1>9, <3>1 DEF Marked
  <2> QED BY <2>1, <2>2
<1>11. g.phase = "scope" /\ f.hook # "pipeline" => On(g)
  <2> SUFFICES ASSUME g.phase = "scope", f.hook # "pipeline" PROVE On(g)
    OBVIOUS
  <2>1. PICK i \in DOMAIN Handlers[f.hook] : Handlers[f.hook][i] = "usage"
    BY <1>2, UsageAssumption
  <2>2. Handlers[f.hook] \in Seq(Kind)
    BY <1>2, HooksAssumption
  <2>3. i \in 1 .. f.called + 1
    BY <1>5, <2>1, <2>2
  <2> QED BY <1>10, <2>1, <2>3
<1>12. Marked(g)
  BY <1>4, <1>5, <1>10, <1>11 DEF Marked
<1> QED BY <1>1, <1>8, <1>9, <1>12

\* Only the resumption of the usage metrics takes them off the generators.
LEMMA ResumeMarked ==
  ASSUME NEW f \in Frame, f.phase = "leave", f.generators # <<>>
  PROVE  LET g == Resume(f) IN
         /\ Marked(g)
         /\ Resumed(f) # "usage" => (On(g) <=> On(f))
         /\ Resumed(f) = "usage" => On(f)
<1>1. PICK g : g = Resume(f)
  OBVIOUS
<1>2. g \in Frame /\ g.phase = "leave" /\ g.generators = Front(f.generators)
  BY <1>1, ResumeIsFrame DEF Resume, Frame
<1>3. f.generators \in Seq(Kind)
  BY DEF Frame
<1>4. PICK n \in Nat : n = Len(f.generators) /\ n > 0
  BY <1>3, EmptySeq
<1>5. Len(g.generators) = n - 1 /\ \A i \in 1 .. (n - 1) : g.generators[i] = f.generators[i]
  BY <1>2, <1>3, <1>4, Pop
<1>6. Resumed(f) = f.generators[n]
  BY <1>4 DEF Resumed, Last
<1>7. Marked(g)
  BY <1>2 DEF Marked
<1> QED BY <1>1, <1>4, <1>5, <1>6, <1>7 DEF On

\* The scope of a hook ends in the stage of that hook.
LEMMA EndScopeMarked ==
  ASSUME NEW f \in Frame, Marked(f), f.phase = "scope", f.hook # "pipeline", NEW S
  PROVE  /\ On(f) /\ On(EndScope(f)) /\ Marked(EndScope(f))
         /\ StagesIn(f, S) <=> S = During(f.hook)
         /\ StagesIn(EndScope(f), S) <=> S \in {After(f.hook), During(f.hook), {}}
<1>1. PICK g : g = EndScope(f)
  OBVIOUS
<1>2. g.hook = f.hook /\ g.phase = "leave" /\ g.generators = f.generators
  BY <1>1 DEF EndScope, Frame
<1>3. On(f) /\ On(g) /\ Marked(g)
  BY <1>2 DEF Marked, On
<1>4. StagesIn(f, S) <=> S = During(f.hook)
  BY <1>3 DEF StagesIn
<1>5. StagesIn(g, S) <=> S \in {After(f.hook), During(f.hook), {}}
  BY <1>2, <1>3 DEF StagesIn
<1> QED BY <1>1, <1>3, <1>4, <1>5

\* The stages follow the calls and the resumptions.
LEMMA CallStages ==
  ASSUME NEW f \in Frame, f.phase = "call", Marked(f), NEW yields \in MayYield(f),
         f.hook # "pipeline", NEW S, StagesIn(f, S)
  PROVE  StagesIn(Call(f, yields), IF Handler(f) = "usage" THEN StagesCalled(f.hook, S) ELSE S)
<1>1. PICK g : g = Call(f, yields)
  OBVIOUS
<1>2. g.hook = f.hook /\ g.phase \in {"call", "scope"}
  BY <1>1, CallIsFrame DEF MayYield
<1>3. /\ Handler(f) = "usage" => On(g)
      /\ Handler(f) # "usage" => (On(g) <=> On(f))
  BY <1>1, CallMarked
<1>4. S \in {Entering(f.hook), During(f.hook)}
  BY DEF StagesIn
<1>5. StagesCalled(f.hook, S) = During(f.hook)
  <2>1. f.hook \in ContextHook
    BY DEF Frame
  <2> QED BY <1>4, <2>1 DEF ContextHook, StagesCalled, Move, Entering, During
<1>6. CASE Handler(f) = "usage"
  BY <1>1, <1>2, <1>3, <1>5, <1>6 DEF StagesIn
<1>7. CASE Handler(f) # "usage"
  BY <1>1, <1>2, <1>3, <1>7 DEF StagesIn
<1> QED BY <1>1, <1>6, <1>7

\* The usage metrics move the message as StagesResumed says.
LEMMA ResumeStages ==
  ASSUME NEW f \in Frame, f.phase = "leave", f.generators # <<>>, f.hook # "pipeline",
         NEW S, StagesIn(f, S)
  PROVE  StagesIn(Resume(f), IF Resumed(f) = "usage" THEN StagesResumed(f.hook, S) ELSE S)
<1>1. PICK g : g = Resume(f)
  OBVIOUS
<1>2. g.hook = f.hook /\ g.phase = "leave"
  BY <1>1, ResumeIsFrame
<1>3. Resumed(f) # "usage" => (On(g) <=> On(f))
  BY <1>1, ResumeMarked
<1>4. S \in {After(f.hook), During(f.hook), {}}
  BY DEF StagesIn
<1>5. StagesResumed(f.hook, S) = After(f.hook)
  <2>1. f.hook \in ContextHook
    BY DEF Frame
  <2> QED BY <1>4, <2>1 DEF ContextHook, StagesResumed, Move, After, During
<1>6. CASE Resumed(f) = "usage"
  BY <1>1, <1>2, <1>5, <1>6 DEF StagesIn
<1>7. CASE Resumed(f) # "usage"
  BY <1>1, <1>2, <1>3, <1>7 DEF StagesIn
<1> QED BY <1>1, <1>6, <1>7

\* A step of the innermost emission: the stages are what it says.
LEMMA StageReplaced ==
  ASSUME TypeOK, NEW x \in Copy, Nested(x), StageInv(x), frames[x] # <<>>,
         NEW f \in Frame, f.hook = Top(x).hook, Marked(f),
         frames' = WithTop(x, f), pc' = pc,
         IF f.hook = "pipeline" THEN stages'[x] = stages[x] ELSE StagesIn(f, stages'[x])
  PROVE  StageInv(x)'
<1>1. PICK n \in 1 .. 3 : n = Len(frames[x])
  BY TopIs
<1>2. /\ Len(frames'[x]) = n /\ Last(frames'[x]) = f /\ frames'[x][n] = f
      /\ \A i \in 1 .. (n - 1) : frames'[x][i] = frames[x][i]
  BY <1>1, FramesReplaced
<1>3. /\ pc[x] \in {"executing", "processing"}
      /\ f.hook = "message_executed"  => n = 1 /\ pc[x] = "executing"
      /\ f.hook = "pipeline"          => n = 2 /\ pc[x] = "executing"
      /\ f.hook \notin {"message_executed", "pipeline"} => pc[x] = "processing"
  <2>1. f.hook \in ContextHook
    BY DEF Frame
  <2> QED BY <1>1, <2>1, TopIs DEF ContextHook, Nested
<1>4. \A i \in 1 .. Len(frames'[x]) : Marked(frames'[x][i])
  <2> SUFFICES ASSUME NEW i \in 1 .. n PROVE Marked(frames'[x][i])
    BY <1>2
  <2>1. CASE i = n
    BY <1>2, <2>1
  <2>2. CASE i # n
    <3>1. i \in 1 .. (n - 1)
      BY <2>2
    <3> QED BY <1>1, <1>2, <3>1 DEF StageInv
  <2> QED BY <2>1, <2>2
<1>5. StagesIn(Staging(x)', stages'[x])
  <2>1. CASE f.hook = "pipeline"
    <3>1. Staging(x)' = Staging(x)
      BY <1>2, <1>3, <2>1 DEF Staging
    <3>2. StagesIn(Staging(x), stages[x])
      BY <1>3 DEF StageInv
    <3> QED BY <2>1, <3>1, <3>2
  <2>2. CASE f.hook # "pipeline"
    <3>1. Staging(x)' = f
      BY <1>2, <1>3, <2>2 DEF Staging
    <3> QED BY <2>2, <3>1
  <2> QED BY <2>1, <2>2
<1>6. pc'[x] \in {"executing", "processing"}
  BY <1>3
<1> QED BY <1>4, <1>5, <1>6 DEF StageInv

\* The scope of an emission emits another hook, which has the stages as they are.
LEMMA StagePushed ==
  ASSUME TypeOK, NEW x \in Copy, Nested(x), StageInv(x), frames[x] # <<>>,
         Top(x).phase = "scope", NEW h \in ContextHook,
         <<Top(x).hook, h>> \in {<<"message_executed", "pipeline">>,
           <<"results_processed", "message_published">>,
           <<"message_published", "output_blocked">>},
         frames' = [frames EXCEPT ![x] = Append(@, Emit(h))], pc' = pc,
         stages' = stages
  PROVE  StageInv(x)'
<1>1. PICK n \in 1 .. 3 : n = Len(frames[x])
  BY TopIs
<1>2. /\ Len(frames'[x]) = n + 1 /\ Last(frames'[x]) = Emit(h)
      /\ \A i \in 1 .. n : frames'[x][i] = frames[x][i]
  BY <1>1, FramesPushed
<1>3. frames'[x][n + 1] = Emit(h)
  BY <1>1, <1>2 DEF Last
<1>4. \A i \in 1 .. Len(frames'[x]) : Marked(frames'[x][i])
  <2> SUFFICES ASSUME NEW i \in 1 .. (n + 1) PROVE Marked(frames'[x][i])
    BY <1>2
  <2>1. CASE i = n + 1
    BY <1>3, <2>1, EmitMarked
  <2>2. CASE i # n + 1
    <3>1. i \in 1 .. n
      BY <2>2
    <3> QED BY <1>1, <1>2, <3>1 DEF StageInv
  <2> QED BY <2>1, <2>2
<1>5. StagesIn(Staging(x)', stages'[x]) /\ pc'[x] \in {"executing", "processing"}
  <2>1. CASE Top(x).hook = "message_executed"
    <3>1. n = 1 /\ pc[x] = "executing"
      BY <1>1, <2>1, TopIs
    <3>2. Staging(x)' = Staging(x)
      BY <1>2, <3>1 DEF Staging
    <3>3. StagesIn(Staging(x), stages[x])
      BY <3>1 DEF StageInv
    <3> QED BY <3>1, <3>2, <3>3
  <2>2. CASE Top(x).hook # "message_executed"
    <3>1. pc[x] = "processing"
      BY <2>2, TopIs
    <3>2. Staging(x)' = Emit(h) /\ Staging(x) = Top(x)
      BY <1>2, <3>1 DEF Staging, Top
    <3>3. StagesIn(Top(x), stages[x]) /\ Marked(Top(x)) /\ Top(x) \in Frame
      <4>1. Top(x) = frames[x][n] /\ Top(x) \in Frame
        BY <1>1, TopIs
      <4> QED BY <1>1, <3>1, <3>2, <4>1 DEF StageInv
    <3>4. stages[x] = During(Top(x).hook)
      BY <2>2, <3>3, EndScopeMarked
    <3>5. During(Top(x).hook) = Entering(h)
      BY <2>2 DEF During, Entering
    <3> QED BY <3>1, <3>2, <3>4, <3>5, EmitMarked
  <2> QED BY <2>1, <2>2
<1> QED BY <1>4, <1>5 DEF StageInv

\* One emission is left of those a message is in, or it is in one for the first time.
LEMMA StageOne ==
  ASSUME NEW x \in Copy, NEW f, Marked(f), frames'[x] = <<f>>,
         pc'[x] \in {"executing", "processing"}, StagesIn(f, stages'[x])
  PROVE  StageInv(x)'
<1>1. PICK s : s = <<f>>
  OBVIOUS
<1>2. Len(s) = 1 /\ s[1] = f /\ Last(s) = f
  BY <1>1 DEF Last
<1>3. Staging(x)' = f
  BY <1>1, <1>2 DEF Staging
<1>4. \A i \in 1 .. Len(frames'[x]) : Marked(frames'[x][i])
  BY <1>1, <1>2
<1> QED BY <1>3, <1>4 DEF StageInv

\* A step of one copy leaves the others as they are.
LEMMA OtherCopies ==
  ASSUME TypeOK, NEW x \in Copy, CopyInv(x), Poll(x) \/ Step(x) \/ Cancel(x),
         NEW y \in Copy, y # x
  PROVE  Same(y) /\ channels' = channels
<1>1. CASE Poll(x) \/ Schedule(x) \/ Submit(x) \/ Cancel(x)
  BY <1>1 DEF Poll, Schedule, Submit, Advance, Cancel, publishVars, Same, TypeOK
<1>2. CASE Take(x) \/ CallHandler(x) \/ ResumeHandler(x) \/ Bootstrap(x)
  BY <1>2 DEF Take, CallHandler, ResumeHandler, Bootstrap, WithTop, publishVars, Same, TypeOK
<1>3. CASE PipelineReturns(x) \/ PipelineRaises(x)
  BY <1>3 DEF PipelineReturns, PipelineRaises, Publishing, WithTop, publishVars, Same, TypeOK
<1>4. CASE Executed(x)
  <2>1. CASE raised[x] = {}
    BY <1>4, <2>1 DEF Executed, Same, TypeOK
  <2>2. CASE raised[x] # {}
    <3>1. PICK e : HandleError(x, e)
      BY <1>4, <2>2 DEF Executed
    <3>2. /\ outputs'[y] = outputs[y] /\ left'[y] = left[y] /\ accepted'[y] = accepted[y]
          /\ handled'[y] = handled[y]
      BY <3>1 DEF HandleError, Publishing, TypeOK
    <3> QED BY <1>4, <3>2 DEF Executed, Same, TypeOK
  <2> QED BY <2>1, <2>2
<1>5. CASE ExecutorRaises(x)
  <2>1. PICK e : HandleError(x, e) /\ raised' = [raised EXCEPT ![x] = {e}]
    BY <1>5 DEF ExecutorRaises
  <2>2. /\ outputs'[y] = outputs[y] /\ left'[y] = left[y] /\ accepted'[y] = accepted[y]
        /\ handled'[y] = handled[y]
    BY <2>1 DEF HandleError, Publishing, TypeOK
  <2> QED BY <1>5, <2>1, <2>2 DEF ExecutorRaises, Same, TypeOK
<1>6. CASE Leave(x) \/ NextOutput(x) \/ AllTried(x)
  BY <1>6 DEF Leave, NextOutput, AllTried, WithTop, publishVars, Same, TypeOK
<1>7. CASE PublishNow(x)
  BY <1>7 DEF PublishNow, Accept, WithTop, Same, TypeOK
<1>8. CASE PublishWait(x)
  BY <1>8 DEF PublishWait, Accept, WithTop, Same, TypeOK
<1>9. CASE Unblocked(x) \/ Published(x) \/ Processed(x)
  BY <1>9 DEF Unblocked, Published, Processed, publishVars, Same, TypeOK
<1> QED BY <1>1, <1>2, <1>3, <1>4, <1>5, <1>6, <1>7, <1>8, <1>9 DEF Step

\* Until the message is executed, and once its context is left.
LEMMA EarlyStages ==
  ASSUME TypeOK, NEW x \in Copy, Nested(x), StageInv(x),
         Poll(x) \/ Schedule(x) \/ Submit(x) \/ Cancel(x)
  PROVE  StageInv(x)'
<1>1. frames'[x] = <<>>
  BY DEF Poll, Schedule, Submit, Advance, Cancel, Nested, TypeOK
<1>2. \A i \in 1 .. Len(frames'[x]) : Marked(frames'[x][i])
  BY <1>1
<1>3. \/ pc'[x] = "polled" /\ stages'[x] = {"polling"}
      \/ pc'[x] = "scheduled" /\ stages'[x] = {"scheduling"}
      \/ pc'[x] = "queued" /\ stages'[x] = {"submitting"}
      \/ pc'[x] = "done" /\ stages'[x] = {}
  BY DEF Poll, Schedule, Submit, Advance, Cancel, StageInv, Move, TypeOK
<1> QED BY <1>2, <1>3 DEF StageInv

\* The emission of the execution begins in the stage of the queue.
LEMMA TakeStages ==
  ASSUME TypeOK, NEW x \in Copy, StageInv(x), Take(x)
  PROVE  StageInv(x)'
<1>1. /\ frames'[x] = <<Emit("message_executed")>> /\ pc'[x] = "executing"
      /\ stages'[x] = {"submitting"}
  BY DEF Take, TypeOK, StageInv
<1>2. "message_executed" \in ContextHook /\ Entering("message_executed") = {"submitting"}
  BY DEF ContextHook, Entering
<1> QED BY <1>1, <1>2, EmitMarked, StageOne

\* The innermost emission is marked, and its stages are those of the message.
LEMMA TopMarked ==
  ASSUME TypeOK, NEW x \in Copy, Nested(x), StageInv(x), frames[x] # <<>>
  PROVE  /\ Top(x) \in Frame /\ Marked(Top(x))
         /\ Top(x).hook # "pipeline" => StagesIn(Top(x), stages[x])
<1>1. PICK n \in 1 .. 3 : n = Len(frames[x])
  BY TopIs
<1>2. Top(x) = frames[x][n] /\ Top(x) \in Frame
  BY <1>1, TopIs
<1>3. Marked(Top(x))
  BY <1>1, <1>2 DEF StageInv
<1>4. pc[x] \in {"executing", "processing"}
  BY DEF Nested
<1>5. ASSUME Top(x).hook # "pipeline"
      PROVE  StagesIn(Top(x), stages[x])
  <2>1. Top(x).hook \in ContextHook
    BY <1>2 DEF Frame
  <2>2. pc[x] = "executing" => n = 1
    BY <1>1, <1>5, <2>1, TopIs DEF ContextHook
  <2>3. Staging(x) = Top(x)
    BY <1>2, <1>4, <2>2 DEF Staging, Top
  <2> QED BY <1>4, <2>3 DEF StageInv
<1> QED BY <1>2, <1>3, <1>5

\* The usage metrics are called once per emission, from the stage before it.
LEMMA CallHandlerStages ==
  ASSUME TypeOK, NEW x \in Copy, Nested(x), StageInv(x), CallHandler(x)
  PROVE  StageInv(x)'
<1>1. PICK yields \in MayYield(Top(x)) :
        frames' = WithTop(x, Call(Top(x), yields))
  BY DEF CallHandler
<1>2. /\ frames[x] # <<>> /\ Top(x).phase = "call" /\ pc' = pc
      /\ stages'[x] = IF Handler(Top(x)) = "usage"
                        THEN StagesCalled(Top(x).hook, stages[x]) ELSE stages[x]
  BY DEF CallHandler, TypeOK
<1>3. PICK f \in Frame : f = Top(x)
  BY <1>2, TopIs
<1>4. Marked(f) /\ (f.hook # "pipeline" => StagesIn(f, stages[x]))
  BY <1>2, <1>3, TopMarked
<1>5. PICK g : g = Call(f, yields)
  OBVIOUS
<1>6. yields \in BOOLEAN
  BY DEF MayYield
<1>7. g \in Frame /\ g.hook = f.hook /\ Marked(g)
  BY <1>1, <1>2, <1>3, <1>4, <1>5, <1>6, CallIsFrame, CallMarked
<1>8. IF g.hook = "pipeline" THEN stages'[x] = stages[x] ELSE StagesIn(g, stages'[x])
  <2>1. CASE f.hook = "pipeline"
    BY <1>2, <1>3, <1>7, <2>1 DEF StagesCalled
  <2>2. CASE f.hook # "pipeline"
    <3>1. StagesIn(g, stages'[x])
      BY <1>1, <1>2, <1>3, <1>4, <1>5, <2>2, CallStages
    <3> QED BY <1>7, <2>2, <3>1
  <2> QED BY <2>1, <2>2
<1> QED BY <1>1, <1>2, <1>3, <1>5, <1>7, <1>8, StageReplaced

\* They are resumed once, in the stage of the hook or none.
LEMMA ResumeHandlerStages ==
  ASSUME TypeOK, NEW x \in Copy, Nested(x), StageInv(x), ResumeHandler(x)
  PROVE  StageInv(x)'
<1>1. /\ frames[x] # <<>> /\ Top(x).phase = "leave" /\ Top(x).generators # <<>>
      /\ pc' = pc /\ frames' = WithTop(x, Resume(Top(x)))
      /\ stages'[x] = IF Resumed(Top(x)) = "usage"
                        THEN StagesResumed(Top(x).hook, stages[x]) ELSE stages[x]
  BY DEF ResumeHandler, TypeOK
<1>2. PICK f \in Frame : f = Top(x)
  BY <1>1, TopIs
<1>3. f.hook # "pipeline" => StagesIn(f, stages[x])
  BY <1>1, <1>2, TopMarked
<1>4. PICK g : g = Resume(f)
  OBVIOUS
<1>5. g \in Frame /\ g.hook = f.hook /\ Marked(g)
  BY <1>1, <1>2, <1>4, ResumeIsFrame, ResumeMarked
<1>6. IF g.hook = "pipeline" THEN stages'[x] = stages[x] ELSE StagesIn(g, stages'[x])
  <2>1. CASE f.hook = "pipeline"
    BY <1>1, <1>2, <1>5, <2>1 DEF StagesResumed
  <2>2. CASE f.hook # "pipeline"
    <3>1. StagesIn(g, stages'[x])
      BY <1>1, <1>2, <1>3, <1>4, <2>2, ResumeStages
    <3> QED BY <1>5, <2>2, <3>1
  <2> QED BY <2>1, <2>2
<1> QED BY <1>1, <1>2, <1>4, <1>5, <1>6, StageReplaced

\* The scope of the innermost emission ends.
LEMMA ScopeEndStages ==
  ASSUME TypeOK, NEW x \in Copy, Nested(x), StageInv(x), frames[x] # <<>>,
         Top(x).phase = "scope", frames' = WithTop(x, EndScope(Top(x))), pc' = pc,
         stages' = stages
  PROVE  StageInv(x)'
<1>1. /\ Top(x) \in Frame /\ Marked(Top(x))
      /\ Top(x).hook # "pipeline" => StagesIn(Top(x), stages[x])
  BY TopMarked
<1>2. PICK f \in Frame : f = Top(x)
  BY <1>1
<1>3. PICK g : g = EndScope(f)
  OBVIOUS
<1>4. g \in Frame /\ g.hook = f.hook /\ g.phase = "leave"
  BY <1>3, EndScopeIsFrame
<1>5. Marked(g)
  BY <1>4 DEF Marked
<1>6. f.hook # "pipeline" => StagesIn(g, stages'[x])
  BY <1>1, <1>2, <1>3, EndScopeMarked
<1>7. frames' = WithTop(x, g) /\ g.hook = Top(x).hook
  BY <1>2, <1>3, <1>4
<1>8. IF g.hook = "pipeline" THEN stages'[x] = stages[x] ELSE StagesIn(g, stages'[x])
  BY <1>4, <1>6
<1> QED BY <1>4, <1>5, <1>7, <1>8, StageReplaced

\* The answer of the executor, or its error, ends the scope of the execution.
LEMMA ExecutedStages ==
  ASSUME TypeOK, NEW x \in Copy, Nested(x), StageInv(x), Executed(x) \/ ExecutorRaises(x)
  PROVE  StageInv(x)'
<1>1. frames[x] # <<>> /\ frames' = [frames EXCEPT ![x] = <<EndScope(ExecutedFrame(x))>>]
      /\ pc' = pc /\ stages' = stages
  BY DEF Executed, ExecutorRaises, Left, InFrame
<1>2. PICK f \in Frame : f = frames[x][1] /\ f = ExecutedFrame(x)
  BY <1>1, TopIs DEF ExecutedFrame
<1>3. f.hook = "message_executed" /\ f.phase = "scope" /\ pc[x] = "executing"
  <2>1. CASE Executed(x)
    <3>1. Len(frames[x]) = 2 /\ pc[x] = "executing"
      BY <1>1, <2>1, TopIs DEF Executed, Left, InFrame
    <3> QED BY <1>1, <1>2, <3>1 DEF Nested
  <2>2. CASE ExecutorRaises(x)
    BY <1>1, <1>2, <2>2 DEF ExecutorRaises, Nested
  <2> QED BY <2>1, <2>2
<1>4. Marked(f) /\ StagesIn(f, stages[x])
  <2>1. 1 \in 1 .. Len(frames[x])
    BY <1>1, TopIs
  <2> QED BY <1>2, <1>3, <2>1 DEF StageInv, Staging
<1>5. Marked(EndScope(f)) /\ StagesIn(EndScope(f), stages[x])
  BY <1>3, <1>4, EndScopeMarked
<1>6. frames'[x] = <<EndScope(f)>>
  BY <1>1, <1>2 DEF TypeOK
<1> QED BY <1>1, <1>3, <1>5, <1>6, StageOne

\* An emission that all generators of were resumed has the stages it leaves.
LEMMA LeftStages ==
  ASSUME TypeOK, NEW x \in Copy, Nested(x), StageInv(x), NEW h \in ContextHook \ {"pipeline"},
         Left(x, h)
  PROVE  frames[x] # <<>> /\ Top(x).hook = h /\ stages[x] = After(h)
<1>1. frames[x] # <<>> /\ Top(x).hook = h /\ Top(x).phase = "leave"
      /\ Top(x).generators = <<>>
  BY DEF Left, InFrame
<1>2. StagesIn(Top(x), stages[x])
  BY <1>1, TopMarked
<1>3. ~On(Top(x))
  BY <1>1 DEF On
<1> QED BY <1>1, <1>2, <1>3 DEF StagesIn

\* The message was executed, and is in no stage until its results are processed.
LEMMA LeaveStages ==
  ASSUME TypeOK, NEW x \in Copy, Nested(x), StageInv(x), Leave(x)
  PROVE  StageInv(x)'
<1>1. {"message_executed", "results_processed"} \subseteq ContextHook \ {"pipeline"}
  BY DEF ContextHook
<1>2. stages'[x] = {}
  BY <1>1, LeftStages DEF Leave, After
<1>3. CASE Unhandled(x)
  <2>1. frames'[x] = <<>> /\ pc'[x] = "done"
    BY <1>3 DEF Leave, TypeOK
  <2>2. \A i \in 1 .. Len(frames'[x]) : Marked(frames'[x][i])
    BY <2>1
  <2> QED BY <1>2, <2>1, <2>2 DEF StageInv
<1>4. CASE ~Unhandled(x)
  <2>1. frames'[x] = <<Emit("results_processed")>> /\ pc'[x] = "processing"
    BY <1>4 DEF Leave, TypeOK
  <2>2. Entering("results_processed") = {}
    BY DEF Entering
  <2> QED BY <1>1, <1>2, <2>1, <2>2, EmitMarked, StageOne
<1> QED BY <1>3, <1>4

\* The blocked output is published, in no stage until the publication is left.
LEMMA UnblockedStages ==
  ASSUME TypeOK, NEW x \in Copy, Nested(x), StageInv(x), Unblocked(x)
  PROVE  StageInv(x)'
<1> DEFINE s == frames[x]
           t == Append(Front(Front(s)), EndScope(Last(Front(s))))
<1>1. /\ Left(x, "output_blocked") /\ pc' = pc /\ stages' = stages
      /\ frames' = [frames EXCEPT ![x] = t]
  BY DEF Unblocked
<1>2. "output_blocked" \in ContextHook \ {"pipeline"}
  BY DEF ContextHook
<1>3. s # <<>> /\ Top(x).hook = "output_blocked" /\ stages[x] = {}
  BY <1>1, <1>2, LeftStages DEF After
<1>4. s \in Seq(Frame) /\ Len(s) = 3 /\ pc[x] = "processing"
  BY <1>3, TopIs
<1>5. /\ Front(s) \in Seq(Frame) /\ Len(Front(s)) = 2 /\ Front(s) # <<>>
      /\ Front(s)[1] = s[1] /\ Front(s)[2] = s[2]
  <2> HIDE DEF s
  <2>1. /\ Front(s) \in Seq(Frame) /\ Len(Front(s)) = Len(s) - 1
        /\ \A i \in 1 .. (Len(s) - 1) : Front(s)[i] = s[i]
    BY <1>3, <1>4, Pop
  <2>2. Len(s) - 1 = 2 /\ 1 \in 1 .. 2 /\ 2 \in 1 .. 2
    BY <1>4
  <2>3. PICK u \in Seq(Frame) : u = Front(s) /\ Len(u) = 2
    BY <2>1, <2>2
  <2>4. u # <<>>
    BY <2>3
  <2> QED BY <2>1, <2>2, <2>3, <2>4
<1>6. PICK f \in Frame : f = s[2] /\ f = Last(Front(s))
  BY <1>4, <1>5, ElementOfSeq DEF Last
<1>7. f.phase = "scope" /\ f.hook = "message_published" /\ Marked(f) /\ Marked(s[1])
  <2>1. 1 \in 1 .. Len(s) /\ 2 \in 1 .. Len(s)
    BY <1>4
  <2>2. Marked(s[1]) /\ Marked(s[2])
    BY <2>1 DEF StageInv
  <2>3. s[2].phase = "scope" /\ s[2].hook = "message_published"
    BY <1>4 DEF Nested
  <2> QED BY <1>6, <2>2, <2>3
<1>8. Marked(EndScope(f)) /\ StagesIn(EndScope(f), {}) /\ EndScope(f) \in Frame
  BY <1>7, EndScopeMarked, EndScopeIsFrame
<1>9. t \in Seq(Frame) /\ Len(t) = 2 /\ t[1] = s[1] /\ t[2] = EndScope(f)
      /\ Last(t) = EndScope(f)
  BY <1>5, <1>6, <1>8, ReplaceLast
<1> HIDE DEF s, t
<1>10. frames'[x] = t
  BY <1>1 DEF TypeOK
<1>11. \A i \in 1 .. Len(frames'[x]) : Marked(frames'[x][i])
  <2>1. \A i \in 1 .. 2 : i = 1 \/ i = 2
    OBVIOUS
  <2> QED BY <1>7, <1>8, <1>9, <1>10, <2>1
<1>12. Staging(x)' = EndScope(f) /\ pc'[x] = "processing" /\ stages'[x] = {}
  BY <1>1, <1>3, <1>4, <1>9, <1>10 DEF Staging
<1> QED BY <1>8, <1>11, <1>12 DEF StageInv

\* Back in the emission of the results, in their stage.
LEMMA PublishedStages ==
  ASSUME TypeOK, NEW x \in Copy, Nested(x), StageInv(x), Published(x)
  PROVE  StageInv(x)'
<1> DEFINE s == frames[x]
           t == Front(s)
<1>1. /\ Left(x, "message_published") /\ pc' = pc /\ stages' = stages
      /\ frames' = [frames EXCEPT ![x] = t]
  BY DEF Published
<1>2. "message_published" \in ContextHook \ {"pipeline"}
  BY DEF ContextHook
<1>3. s # <<>> /\ Top(x).hook = "message_published" /\ stages[x] = {"processing_results"}
  BY <1>1, <1>2, LeftStages DEF After
<1>4. s \in Seq(Frame) /\ Len(s) = 2 /\ pc[x] = "processing" /\ s[1] \in Frame
  BY <1>3, TopIs
<1>5. t \in Seq(Frame) /\ Len(t) = 1 /\ t[1] = s[1]
  <2> HIDE DEF s
  <2>1. /\ Front(s) \in Seq(Frame) /\ Len(Front(s)) = Len(s) - 1
        /\ \A i \in 1 .. (Len(s) - 1) : Front(s)[i] = s[i]
    BY <1>3, <1>4, Pop
  <2>2. Len(s) - 1 = 1 /\ 1 \in 1 .. 1
    BY <1>4
  <2> QED BY <2>1, <2>2
<1>6. s[1].phase = "scope" /\ s[1].hook = "results_processed" /\ Marked(s[1])
  BY <1>4 DEF Nested, StageInv
<1>7. StagesIn(s[1], {"processing_results"})
  BY <1>4, <1>6, EndScopeMarked DEF During
<1> HIDE DEF s, t
<1>8. frames'[x] = t /\ Last(t) = s[1]
  BY <1>1, <1>5 DEF TypeOK, Last
<1>9. \A i \in 1 .. Len(frames'[x]) : Marked(frames'[x][i])
  <2>1. \A i \in 1 .. 1 : i = 1
    OBVIOUS
  <2> QED BY <1>5, <1>6, <1>8, <2>1
<1>10. Staging(x)' = s[1] /\ pc'[x] = "processing" /\ stages'[x] = {"processing_results"}
  BY <1>1, <1>3, <1>4, <1>8 DEF Staging
<1> QED BY <1>7, <1>9, <1>10 DEF StageInv

\* The context of a message is left in no stage.
LEMMA ProcessedStages ==
  ASSUME TypeOK, NEW x \in Copy, Nested(x), StageInv(x), Processed(x)
  PROVE  StageInv(x)'
<1>1. "results_processed" \in ContextHook \ {"pipeline"}
  BY DEF ContextHook
<1>2. stages'[x] = {}
  BY <1>1, LeftStages DEF Processed, After
<1>3. frames'[x] = <<>> /\ pc'[x] = "done"
  BY DEF Processed, TypeOK
<1>4. \A i \in 1 .. Len(frames'[x]) : Marked(frames'[x][i])
  BY <1>3
<1> QED BY <1>2, <1>3, <1>4 DEF StageInv

\* A step of a message, or the end of it, keeps its stages as its emissions say.
LEMMA StepStages ==
  ASSUME TypeOK, NEW x \in Copy, Nested(x), StageInv(x), Poll(x) \/ Step(x) \/ Cancel(x)
  PROVE  StageInv(x)'
<1>1. CASE Bootstrap(x) \/ NextOutput(x)
  <2>1. {"pipeline", "message_published"} \subseteq ContextHook
    BY DEF ContextHook
  <2>2. CASE Bootstrap(x)
    BY <2>1, <2>2, StagePushed DEF Bootstrap, InFrame
  <2>3. CASE NextOutput(x)
    BY <2>1, <2>3, StagePushed DEF NextOutput, InFrame
  <2> QED BY <1>1, <2>2, <2>3
<1>2. CASE PipelineReturns(x) \/ PipelineRaises(x) \/ PublishWait(x) \/ AllTried(x)
  <2>1. /\ frames[x] # <<>> /\ Top(x).phase = "scope" /\ pc' = pc /\ stages' = stages
        /\ frames' = WithTop(x, EndScope(Top(x)))
    BY <1>2 DEF PipelineReturns, PipelineRaises, PublishWait, AllTried, InFrame
  <2> QED BY <2>1, ScopeEndStages
<1>3. CASE PublishNow(x)
  <2>1. /\ frames[x] # <<>> /\ Top(x).hook = "message_published" /\ Top(x).phase = "scope"
        /\ pc' = pc /\ stages' = stages
        /\ \/ frames' = WithTop(x, EndScope(Top(x)))
           \/ frames' = [frames EXCEPT ![x] = Append(@, Emit("output_blocked"))]
    BY <1>3 DEF PublishNow, InFrame
  <2>2. "output_blocked" \in ContextHook
    BY DEF ContextHook
  <2>3. CASE frames' = WithTop(x, EndScope(Top(x)))
    BY <2>1, <2>3, ScopeEndStages
  <2>4. CASE frames' = [frames EXCEPT ![x] = Append(@, Emit("output_blocked"))]
    BY <2>1, <2>2, <2>4, StagePushed
  <2> QED BY <2>1, <2>3, <2>4
<1> QED BY <1>1, <1>2, <1>3, EarlyStages, TakeStages, CallHandlerStages, ResumeHandlerStages,
           ExecutedStages, LeaveStages, UnblockedStages, PublishedStages, ProcessedStages
        DEF Step

\* A step of another copy.
LEMMA OtherStages ==
  ASSUME TypeOK, NEW x \in Copy, CopyInv(x), Poll(x) \/ Step(x) \/ Cancel(x),
         NEW y \in Copy, y # x, StageInv(y)
  PROVE  StageInv(y)'
<1>1. stages'[y] = stages[y]
  BY DEF Step, Poll, Schedule, Submit, Advance, Cancel, Take, CallHandler, ResumeHandler,
         Bootstrap, PipelineReturns, PipelineRaises, Executed, ExecutorRaises, Leave,
         NextOutput, PublishNow, PublishWait, Unblocked, Published, AllTried, Processed,
         TypeOK
<1>2. pc'[y] = pc[y] /\ frames'[y] = frames[y]
  BY OtherCopies DEF Same
<1> QED BY <1>1, <1>2 DEF StageInv, Staging

\* One case per action that moves a message, the rest keeps the stages.
LEMMA NextStages == IInv /\ StagesInv /\ [Next]_vars => StagesInv'
<1> SUFFICES ASSUME IInv, StagesInv, [Next]_vars, NEW y \in Copy PROVE StageInv(y)'
  BY DEF StagesInv
<1>1. CASE Next
  <2>1. PICK x \in Copy : Poll(x) \/ Step(x) \/ Cancel(x)
    BY <1>1 DEF Next
  <2>2. TypeOK /\ CopyInv(x) /\ Nested(x) /\ StageInv(x) /\ StageInv(y)
    BY DEF IInv, CopyInv, StagesInv
  <2>3. StageInv(x)'
    BY <2>1, <2>2, StepStages
  <2>4. y # x => StageInv(y)'
    BY <2>1, <2>2, OtherStages
  <2> QED BY <2>3, <2>4
<1>2. CASE UNCHANGED vars
  BY <1>2 DEF vars, StagesInv, StageInv, Staging
<1> QED BY <1>1, <1>2

----------------------------------------------------------------------------
(* The theorems *)

\* No copy has been polled at first.
LEMMA InitIInv == Init => IInv
<1> SUFFICES ASSUME Init PROVE IInv
  OBVIOUS
<1>1. <<>> \in Seq(Frame) /\ Len(<<>>) = 0 /\ <<0>> \in Seq(Nat)
  BY EmptySeq
<1>2. TypeOK
  <2>1. \A x \in Copy : outputs[x] = <<>> /\ accepted[x] = <<>> /\ left[x] = {}
    BY DEF Init
  <2>2. \A x \in Copy : outputs[x] \in [DOMAIN outputs[x] -> Publication]
                        /\ accepted[x] \in [DOMAIN outputs[x] -> Nat]
    <3>1. DOMAIN <<>> = {}
      BY <1>1
    <3>2. \A S : <<>> \in [{} -> S]
      BY <3>1
    <3> QED BY <2>1, <3>1, <3>2
  <2> QED BY <1>1, <2>1, <2>2 DEF Init, TypeOK
<1>3. ASSUME NEW x \in Copy
      PROVE  CopyInv(x)
  <2>1. /\ pc[x] = "none" /\ frames[x] = <<>> /\ outputs[x] = <<>> /\ left[x] = {}
        /\ doubtful[x] = {} /\ raised[x] = {} /\ ~handled[x] /\ context[x] = "none"
    BY DEF Init
  <2> QED BY <1>1, <2>1 DEF CopyInv, Nested, Fresh, Over, HandledLater
<1> QED BY <1>2, <1>3 DEF IInv

\* One case per action of a copy.
LEMMA StepKeeps ==
  ASSUME TypeOK, NEW x \in Copy, CopyInv(x), Poll(x) \/ Step(x) \/ Cancel(x)
  PROVE  TypeOK' /\ CopyInv(x)'
BY EarlyKeeps, TakeKeeps, CallHandlerKeeps, ResumeHandlerKeeps, BootstrapKeeps,
   PipelineReturnsKeeps, PipelineRaisesKeeps, ExecutedKeeps, ExecutorRaisesKeeps,
   LeaveKeeps, NextOutputKeeps, PublishNowKeeps, PublishWaitKeeps, UnblockedKeeps,
   PublishedKeeps, AllTriedKeeps, EndKeeps DEF Step

\* A step of a copy keeps the others.
LEMMA NextIInv == IInv /\ [Next]_vars => IInv'
<1> SUFFICES ASSUME IInv, [Next]_vars PROVE IInv'
  OBVIOUS
<1>1. CASE Next
  <2>1. PICK x \in Copy : Poll(x) \/ Step(x) \/ Cancel(x)
    BY <1>1 DEF Next
  <2>2. TypeOK /\ CopyInv(x)
    BY DEF IInv
  <2>3. TypeOK' /\ CopyInv(x)'
    BY <2>1, <2>2, StepKeeps
  <2>4. ASSUME NEW y \in Copy, y # x
        PROVE  CopyInv(y)'
    <3>1. Same(y) /\ channels' = channels
      BY <2>1, <2>2, <2>4, OtherCopies
    <3> QED BY <2>4, <3>1, SameCopy DEF IInv
  <2> QED BY <2>3, <2>4 DEF IInv
<1>2. CASE UNCHANGED vars
  <2>1. TypeOK'
    BY <1>2 DEF vars, publishVars, IInv, TypeOK
  <2>2. ASSUME NEW y \in Copy
        PROVE  CopyInv(y)'
    <3>1. Same(y) /\ channels' = channels
      BY <1>2 DEF vars, publishVars, Same
    <3> QED BY <3>1, SameCopy DEF IInv
  <2> QED BY <2>1, <2>2 DEF IInv
<1> QED BY <1>1, <1>2

\* Every state of a worker has the emissions of a message nested, and its outputs as
\* Outcome and Over say (queue.py).
THEOREM Invariant == Spec => []IInv
<1> QED BY InitIInv, NextIInv, PTL DEF Spec

\* The variables keep their types.
THEOREM TypeCorrect == Spec => []TypeOK
<1>1. IInv => TypeOK
  BY DEF IInv
<1> QED BY <1>1, Invariant, PTL

\* A message is acknowledged only when every topic of its outputs has them
\* (process_results, consume_output).
THEOREM Acknowledged == Spec => []AcknowledgedIsPublished
<1>1. IInv => AcknowledgedIsPublished
  <2> SUFFICES ASSUME IInv, NEW x \in Copy, context[x] = "done",
                      NEW p \in DOMAIN outputs[x]
               PROVE  accepted[x][p] > 0
    BY DEF AcknowledgedIsPublished
  <2>1. CopyInv(x) /\ Outcome(x, p)
    BY DEF IInv, CopyInv
  <2>2. left[x] = {} /\ ~errors[x] /\ ~Trying(x)
    BY <2>1 DEF CopyInv, Over, Trying
  <2> QED BY <2>1, <2>2 DEF Outcome
<1> QED BY <1>1, Invariant, PTL

\* A message whose error is retried is acknowledged only when a topic has a copy of
\* it (process_pipeline_exception, process_results).
THEOREM RetryIsKept == Spec => []RetryKept
<1>1. IInv => RetryKept
  <2> SUFFICES ASSUME IInv, NEW x \in Copy, context[x] = "done", NEW e \in raised[x],
                      Republishers(ChannelOf(e)) # {},
                      \A h \in Republishers(ChannelOf(e)) :
                        TopicsOf(ChannelOf(e).handlers[h].republish) # <<>>
               PROVE  \E p \in DOMAIN outputs[x] :
                        outputs[x][p].republished /\ accepted[x][p] > 0
    BY DEF RetryKept
  <2>1. CopyInv(x)
    BY DEF IInv
  <2>2. left[x] = {} /\ ~errors[x] /\ handled[x] /\ ~Trying(x)
    BY <2>1 DEF CopyInv, Over, Trying
  <2>3. PICK p \in DOMAIN outputs[x] : outputs[x][p].republished
    BY <2>1, <2>2 DEF CopyInv, HandledLater, Retried
  <2>4. accepted[x][p] > 0
    BY <2>1, <2>2 DEF CopyInv, Outcome
  <2> QED BY <2>3, <2>4
<1> QED BY <1>1, Invariant, PTL

\* A topic has an output twice only when its first publication failed after it
\* reached the topic (consume_output).
THEOREM TwiceInDoubt == Spec => []TwiceOnlyInDoubt
<1>1. IInv => TwiceOnlyInDoubt
  BY DEF IInv, CopyInv, Outcome, Doubt, TwiceOnlyInDoubt
<1> QED BY <1>1, Invariant, PTL

\* The usage metrics count a message in one stage at a time, and in none once its
\* context is left (UsageMetrics).
THEOREM OneStageAtATime == Spec => []OneStage
<1>1. Init => StagesInv
  <2> SUFFICES ASSUME Init, NEW x \in Copy PROVE StageInv(x)
    BY DEF StagesInv
  <2>1. pc[x] = "none" /\ stages[x] = {} /\ frames[x] = <<>>
    BY DEF Init
  <2>2. \A i \in 1 .. Len(frames[x]) : Marked(frames[x][i])
    BY <2>1
  <2> QED BY <2>1, <2>2 DEF StageInv
<1>2. IInv /\ StagesInv => OneStage
  <2> SUFFICES ASSUME IInv, StagesInv, NEW x \in Copy
               PROVE  /\ Cardinality(stages[x]) <= 1
                      /\ pc[x] = "done" => stages[x] = {}
    BY DEF OneStage
  <2>1. pc[x] = "done" => stages[x] = {}
    BY DEF StagesInv, StageInv
  <2>2. stages[x] = {} \/ \E stage : stages[x] = {stage}
    <3>1. CASE pc[x] \in {"executing", "processing"}
      <4>1. TypeOK /\ frames[x] # <<>> /\ Nested(x)
        BY <3>1 DEF IInv, CopyInv, Nested
      <4>2. frames[x][1] \in Frame /\ Last(frames[x]) \in Frame
        BY <4>1, TopIs DEF Top
      <4>3. PICK f \in Frame : StagesIn(f, stages[x])
        BY <3>1, <4>2 DEF StagesInv, StageInv, Staging
      <4>4. stages[x] \in {Entering(f.hook), During(f.hook), After(f.hook), {}}
        BY <4>3 DEF StagesIn
      <4>5. f.hook \in ContextHook
        BY DEF Frame
      <4> QED BY <4>4, <4>5 DEF ContextHook, Entering, During, After
    <3>2. CASE pc[x] \notin {"executing", "processing"}
      BY <3>2 DEF StagesInv, StageInv, IInv, TypeOK
    <3> QED BY <3>1, <3>2
  <2>3. Cardinality({}) = 0 /\ \A stage : Cardinality({stage}) = 1
    BY FS_EmptySet, FS_Singleton
  <2>4. PICK n : n = Cardinality(stages[x]) /\ (n = 0 \/ n = 1)
    BY <2>2, <2>3
  <2> QED BY <2>1, <2>4
<1>3. Spec => []StagesInv
  BY <1>1, NextStages, Invariant, PTL DEF Spec
<1> QED BY <1>2, <1>3, Invariant, PTL
=============================================================================
