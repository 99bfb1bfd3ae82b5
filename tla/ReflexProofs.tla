----------------------------- MODULE ReflexProofs -----------------------------
(***************************************************************************)
(* Theorems about the reflex engine and what runs on it, for any reflexes, *)
(* extensions, percepts and behaviours and any bounds: the extensions are  *)
(* loaded in the order of what they require, the workflows of an extension *)
(* run one at a time, an escalation reaches the executive, fires are       *)
(* counted once, and a schedule keeps its minutes.                         *)
(***************************************************************************)
EXTENDS Percepts, Induction, SequenceTheorems, TLAPS

-----------------------------------------------------------------------------
(* Frames: the stack of each goroutine.                                    *)

At == {"step", "sem", "wait", "fired", "counted", "save", "leave"}

IsFrame(fr) ==
  /\ fr = [flow |-> fr.flow, obj |-> fr.obj, at |-> fr.at, pc |-> fr.pc, tries |-> fr.tries,
           seen |-> fr.seen, res |-> fr.res, vars |-> fr.vars]
  /\ fr.obj \in Nat /\ fr.pc \in Nat /\ fr.tries \in Nat

IsRun(fr) == IsFrame(fr) /\ fr.flow \in Flow /\ fr.at \in At /\ fr.pc > 0

(* A frame that has called another waits at its step.                      *)
Stacks ==
  /\ depth \in [Thread -> 0..(MaxDepth + 1)]
  /\ frame = [t \in Thread |-> [d \in Level |-> frame[t][d]]]
  /\ \A t \in Thread, d \in Level :
       /\ IsFrame(frame[t][d])
       /\ d <= depth[t] => IsRun(frame[t][d])
       /\ d < depth[t] => frame[t][d].at = "step"

LEMMA TopOf ==
  ASSUME Stacks, NEW t \in Thread, depth[t] > 0
  PROVE  depth[t] \in Level /\ depth[t] \in Nat /\ IsRun(Top(t))
BY WorkflowConstants DEF Stacks, Level, Top

(* Stacks in which one frame is put in the place of another.               *)
Shape(g) == g = [t \in Thread |-> [d \in Level |-> g[t][d]]]

Put(g, t, k, fr) == [g EXCEPT ![t][k] = fr]

LEMMA PutFrame ==
  ASSUME NEW g, Shape(g), NEW t \in Thread, NEW k \in Level, NEW fr
  PROVE  /\ Shape(Put(g, t, k, fr)) /\ Put(g, t, k, fr)[t][k] = fr
         /\ \A u \in Thread, d \in Level : u # t \/ d # k => Put(g, t, k, fr)[u][d] = g[u][d]
<1> DEFINE new == [u \in Thread |-> [d \in Level |-> IF u = t /\ d = k THEN fr ELSE g[u][d]]]
           h == Put(g, t, k, fr)
<1>1. h = [g EXCEPT ![t] = [g[t] EXCEPT ![k] = fr]] BY DEF Put
<1>2. DOMAIN g = Thread /\ \A u \in Thread : g[u] = [d \in Level |-> g[u][d]] BY DEF Shape
<1>3. [g[t] EXCEPT ![k] = fr] = new[t] BY <1>2
<1>4. \A u \in Thread : u # t => g[u] = new[u] BY <1>2
<1>5. h = [u \in Thread |-> IF u = t THEN new[t] ELSE g[u]] BY <1>1, <1>2, <1>3
<1> HIDE DEF h
<1>6. \A u \in Thread : h[u] = new[u] BY <1>4, <1>5
<1> HIDE DEF new
<1>7. h = [u \in Thread |-> new[u]] BY <1>5, <1>6
<1>8. h = new BY <1>7 DEF new
<1>9. \A u \in Thread, d \in Level : h[u][d] = IF u = t /\ d = k THEN fr ELSE g[u][d]
  BY <1>8 DEF new
<1>10. Shape(h)
  <2>1. \A u \in Thread : h[u] = [d \in Level |-> h[u][d]] BY <1>6, <1>9 DEF new
  <2> QED BY <1>7, <1>8, <2>1 DEF Shape
<1> QED BY <1>9, <1>10 DEF h

(* A step of the innermost frame.                                          *)
LEMMA SetTopStacks ==
  ASSUME Stacks, NEW t \in Thread, depth[t] > 0, NEW fr, IsRun(fr), SetTop(t, fr), UNCHANGED depth
  PROVE  /\ Stacks'
         /\ frame'[t][depth[t]] = fr
         /\ \A u \in Thread, d \in Level : u # t \/ d # depth[t] => frame'[u][d] = frame[u][d]
<1>1. depth[t] \in Level /\ depth[t] \in Nat BY TopOf
<1>2. Shape(frame) BY DEF Stacks, Shape
<1>3. /\ Shape(frame') /\ frame'[t][depth[t]] = fr
      /\ \A u \in Thread, d \in Level : u # t \/ d # depth[t] => frame'[u][d] = frame[u][d]
  <2>1. frame' = Put(frame, t, depth[t], fr) BY DEF SetTop, Put
  <2> QED BY <1>1, <1>2, <2>1, PutFrame
<1>4. ASSUME NEW u \in Thread, NEW d \in Level
      PROVE  /\ IsFrame(frame'[u][d])
             /\ d <= depth'[u] => IsRun(frame'[u][d])
             /\ d < depth'[u] => frame'[u][d].at = "step"
  <2>1. CASE u = t /\ d = depth[t] BY <1>1, <1>3, <2>1 DEF IsRun
  <2>2. CASE u # t \/ d # depth[t] BY <1>3, <2>2 DEF Stacks
  <2> QED BY <2>1, <2>2
<1> QED BY <1>3, <1>4 DEF Stacks, Shape

LEMMA NoFrameIs == IsFrame(NoFrame)
BY DEF IsFrame, NoFrame

(* Frames after a change of some fields.                                   *)
FrameOf(a, b, c, d, e, x, y, z) ==
  [flow |-> a, obj |-> b, at |-> c, pc |-> d, tries |-> e, seen |-> x, res |-> y, vars |-> z]

LEMMA FieldMoves ==
  ASSUME NEW fr, IsFrame(fr)
  PROVE  /\ \A w : IsFrame([fr EXCEPT !.flow = w]) /\ IsFrame([fr EXCEPT !.at = w])
         /\ \A n \in Nat : IsFrame([fr EXCEPT !.pc = n]) /\ IsFrame([fr EXCEPT !.obj = n])
         /\ \A n \in Nat : IsFrame([fr EXCEPT !.tries = n])
         /\ \A w : IsFrame([fr EXCEPT !.seen = w]) /\ IsFrame([fr EXCEPT !.res = w]) /\ IsFrame([fr EXCEPT !.vars = w])
<1>1. PICK a, b, c, d, e, x, y, z : fr = FrameOf(a, b, c, d, e, x, y, z)
  BY DEF IsFrame, FrameOf
<1>2. b \in Nat /\ d \in Nat /\ e \in Nat BY <1>1 DEF IsFrame, FrameOf
<1>3. \A a1, b1, c1, d1, e1, x1, y1, z1 :
        b1 \in Nat /\ d1 \in Nat /\ e1 \in Nat =>
          IsFrame(FrameOf(a1, b1, c1, d1, e1, x1, y1, z1))
  BY DEF IsFrame, FrameOf
<1>4. ASSUME NEW w PROVE IsFrame([fr EXCEPT !.flow = w]) /\ IsFrame([fr EXCEPT !.at = w])
  <2>1. /\ [fr EXCEPT !.flow = w] = FrameOf(w, b, c, d, e, x, y, z)
        /\ [fr EXCEPT !.at = w] = FrameOf(a, b, w, d, e, x, y, z)
    BY <1>1 DEF FrameOf
  <2> QED BY <1>2, <1>3, <2>1
<1>5. ASSUME NEW n \in Nat PROVE IsFrame([fr EXCEPT !.pc = n]) /\ IsFrame([fr EXCEPT !.obj = n])
  <2>1. /\ [fr EXCEPT !.pc = n] = FrameOf(a, b, c, n, e, x, y, z)
        /\ [fr EXCEPT !.obj = n] = FrameOf(a, n, c, d, e, x, y, z)
    BY <1>1 DEF FrameOf
  <2> QED BY <1>2, <1>3, <2>1
<1>6. ASSUME NEW n \in Nat PROVE IsFrame([fr EXCEPT !.tries = n])
  <2>1. [fr EXCEPT !.tries = n] = FrameOf(a, b, c, d, n, x, y, z) BY <1>1 DEF FrameOf
  <2> QED BY <1>2, <1>3, <2>1
<1>7. ASSUME NEW w PROVE IsFrame([fr EXCEPT !.seen = w]) /\ IsFrame([fr EXCEPT !.res = w]) /\ IsFrame([fr EXCEPT !.vars = w])
  <2>1. /\ [fr EXCEPT !.seen = w] = FrameOf(a, b, c, d, e, w, y, z)
        /\ [fr EXCEPT !.res = w] = FrameOf(a, b, c, d, e, x, w, z)
        /\ [fr EXCEPT !.vars = w] = FrameOf(a, b, c, d, e, x, y, w)
    BY <1>1 DEF FrameOf
  <2> QED BY <1>2, <1>3, <2>1
<1> QED BY <1>4, <1>5, <1>6, <1>7

LEMMA FrameMoves ==
  ASSUME NEW fr, IsRun(fr), NEW w \in At, NEW n, NEW r, NEW v
  PROVE  /\ IsRun([fr EXCEPT !.at = w])
         /\ IsRun([fr EXCEPT !.at = w, !.res = r])
         /\ IsRun([fr EXCEPT !.at = w, !.seen = n])
         /\ IsRun([fr EXCEPT !.at = w, !.tries = fr.tries + 1])
         /\ IsRun([fr EXCEPT !.pc = fr.pc + 1, !.tries = 0, !.at = w, !.vars = v])
<1>1. /\ fr.tries + 1 \in Nat /\ fr.pc + 1 \in Nat /\ fr.pc + 1 > 0 /\ 0 \in Nat
      /\ IsFrame(fr) /\ fr.flow \in Flow /\ fr.pc > 0
  BY DEF IsRun, IsFrame
<1>2. IsFrame([fr EXCEPT !.at = w]) BY <1>1, FieldMoves
<1>3. IsFrame([[fr EXCEPT !.at = w] EXCEPT !.res = r]) BY <1>2, FieldMoves
<1>4. IsFrame([[fr EXCEPT !.at = w] EXCEPT !.seen = n]) BY <1>2, FieldMoves
<1>5. IsFrame([[fr EXCEPT !.at = w] EXCEPT !.tries = fr.tries + 1]) BY <1>1, <1>2, FieldMoves
<1>6. IsFrame([fr EXCEPT !.pc = fr.pc + 1]) BY <1>1, FieldMoves
<1>7. IsFrame([[fr EXCEPT !.pc = fr.pc + 1] EXCEPT !.tries = 0]) BY <1>1, <1>6, FieldMoves
<1>8. IsFrame([[[fr EXCEPT !.pc = fr.pc + 1] EXCEPT !.tries = 0] EXCEPT !.at = w])
  BY <1>7, FieldMoves
<1>9. IsFrame([[[[fr EXCEPT !.pc = fr.pc + 1] EXCEPT !.tries = 0] EXCEPT !.at = w] EXCEPT !.vars = v])
  BY <1>8, FieldMoves
<1>10. /\ [fr EXCEPT !.at = w, !.res = r] = [[fr EXCEPT !.at = w] EXCEPT !.res = r]
       /\ [fr EXCEPT !.at = w, !.seen = n] = [[fr EXCEPT !.at = w] EXCEPT !.seen = n]
       /\ [fr EXCEPT !.at = w, !.tries = fr.tries + 1] = [[fr EXCEPT !.at = w] EXCEPT !.tries = fr.tries + 1]
       /\ [fr EXCEPT !.pc = fr.pc + 1, !.tries = 0, !.at = w, !.vars = v]
            = [[[[fr EXCEPT !.pc = fr.pc + 1] EXCEPT !.tries = 0] EXCEPT !.at = w] EXCEPT !.vars = v]
  OBVIOUS
<1>11. \A g \in {[fr EXCEPT !.at = w], [fr EXCEPT !.at = w, !.res = r], [fr EXCEPT !.at = w, !.seen = n],
                 [fr EXCEPT !.at = w, !.tries = fr.tries + 1]} :
         g.flow = fr.flow /\ g.at = w /\ g.pc = fr.pc
  BY <1>1 DEF IsFrame
<1>12. LET g == [fr EXCEPT !.pc = fr.pc + 1, !.tries = 0, !.at = w, !.vars = v] IN
         g.flow = fr.flow /\ g.at = w /\ g.pc = fr.pc + 1
  BY <1>1 DEF IsFrame
<1> QED BY <1>1, <1>2, <1>3, <1>4, <1>5, <1>9, <1>10, <1>11, <1>12 DEF IsRun

LEMMA EnteredIs ==
  ASSUME NEW o \in Nat, NEW f \in Flow, NEW given
  PROVE  LET fr == Entered(o, f, given) IN
           /\ IsRun(fr) /\ fr.flow = f /\ fr.obj = o /\ fr.tries = 0
           /\ fr.at \in {"leave", "step", "sem"}
           /\ fr.at = "step" => Def[f].ext = NoExt
<1> DEFINE ready == Def[f].required \subseteq given
           w == IF ~ready THEN "leave" ELSE IF Def[f].ext = NoExt THEN "step" ELSE "sem"
           r == IF ready THEN "" ELSE "failed"
           v == given \cup Def[f].defaults
           e1 == [NoFrame EXCEPT !.flow = f]
           e2 == [e1 EXCEPT !.obj = o]
           e3 == [e2 EXCEPT !.pc = 1]
           e4 == [e3 EXCEPT !.vars = v]
           e5 == [e4 EXCEPT !.at = w]
           e6 == [e5 EXCEPT !.res = r]
<1>1. Entered(o, f, given) = e6 BY DEF Entered
<1>2. w \in {"leave", "step", "sem"} /\ (w = "step" => Def[f].ext = NoExt) OBVIOUS
<1> HIDE DEF w, r, v
<1>3. IsFrame(NoFrame) /\ NoFrame.tries = 0 BY DEF IsFrame, NoFrame
<1>4. IsFrame(e1) /\ e1.flow = f /\ e1.tries = 0
  <2>1. IsFrame(e1) BY <1>3, FieldMoves
  <2>2. e1.flow = f /\ e1.tries = NoFrame.tries BY <1>3 DEF IsFrame
  <2> QED BY <1>3, <2>1, <2>2
<1> HIDE DEF e1
<1>5. IsFrame(e2) /\ e2.flow = f /\ e2.tries = 0 /\ e2.obj = o
  <2>1. IsFrame(e2) BY <1>4, FieldMoves
  <2> QED BY <1>4, <2>1 DEF IsFrame
<1> HIDE DEF e2
<1>6. IsFrame(e3) /\ e3.flow = f /\ e3.tries = 0 /\ e3.obj = o /\ e3.pc = 1
  <2>1. IsFrame(e3) BY <1>5, FieldMoves
  <2> QED BY <1>5, <2>1 DEF IsFrame
<1> HIDE DEF e3
<1>7. IsFrame(e4) /\ e4.flow = f /\ e4.tries = 0 /\ e4.obj = o /\ e4.pc = 1
  <2>1. IsFrame(e4) BY <1>6, FieldMoves
  <2> QED BY <1>6, <2>1 DEF IsFrame
<1> HIDE DEF e4
<1>8. IsFrame(e5) /\ e5.flow = f /\ e5.tries = 0 /\ e5.obj = o /\ e5.pc = 1 /\ e5.at = w
  <2>1. IsFrame(e5) BY <1>7, FieldMoves
  <2> QED BY <1>7, <2>1 DEF IsFrame
<1> HIDE DEF e5
<1>9. IsFrame(e6) /\ e6.flow = f /\ e6.tries = 0 /\ e6.obj = o /\ e6.pc = 1 /\ e6.at = w
  <2>1. IsFrame(e6) BY <1>8, FieldMoves
  <2> QED BY <1>8, <2>1 DEF IsFrame
<1> HIDE DEF e6
<1> QED BY <1>1, <1>2, <1>9 DEF IsRun, At

(* A goroutine enters a reflex: from the start, or from a step of another. *)
LEMMA PushStacks ==
  ASSUME Stacks, NEW t \in Thread, depth[t] <= MaxDepth,
         depth[t] = 0 \/ Top(t).at = "step",
         NEW o \in Nat, NEW f \in Flow, NEW given, Push(t, o, f, given)
  PROVE  /\ Stacks' /\ depth[t] + 1 \in Level
         /\ depth' = [depth EXCEPT ![t] = depth[t] + 1]
         /\ frame'[t][depth[t] + 1] = Entered(o, f, given)
         /\ \A u \in Thread, d \in Level : u # t \/ d # depth[t] + 1 => frame'[u][d] = frame[u][d]
<1>1. depth[t] \in Nat /\ depth[t] + 1 \in Level BY WorkflowConstants DEF Stacks, Level
<1>2. depth' = [depth EXCEPT ![t] = depth[t] + 1] /\ depth' \in [Thread -> 0..(MaxDepth + 1)]
  BY <1>1, WorkflowConstants DEF Push, Stacks
<1>3. /\ Shape(frame') /\ frame'[t][depth[t] + 1] = Entered(o, f, given)
      /\ \A u \in Thread, d \in Level : u # t \/ d # depth[t] + 1 => frame'[u][d] = frame[u][d]
  <2>1. Shape(frame) BY DEF Stacks, Shape
  <2>2. frame' = Put(frame, t, depth[t] + 1, Entered(o, f, given)) BY DEF Push, Put
  <2> QED BY <1>1, <2>1, <2>2, PutFrame
<1>4. ASSUME NEW u \in Thread, NEW d \in Level
      PROVE  /\ IsFrame(frame'[u][d])
             /\ d <= depth'[u] => IsRun(frame'[u][d])
             /\ d < depth'[u] => frame'[u][d].at = "step"
  <2>0. d \in Nat /\ d > 0 BY DEF Level
  <2>1. CASE u = t /\ d = depth[t] + 1
    <3>1. IsRun(frame'[u][d]) BY <1>3, <2>1, EnteredIs
    <3> QED BY <1>1, <1>2, <2>1, <3>1 DEF IsRun, Stacks
  <2>2. CASE u = t /\ d # depth[t] + 1
    <3>1. depth'[t] = depth[t] + 1 BY <1>2 DEF Stacks
    <3>2. d = depth[t] => frame[u][d].at = "step" BY <2>0, <2>2 DEF Top
    <3>3. frame'[u][d] = frame[u][d] BY <1>3, <2>2
    <3>4. /\ IsFrame(frame[u][d])
          /\ d <= depth[t] => IsRun(frame[u][d])
          /\ d < depth[t] => frame[u][d].at = "step"
      BY <2>2 DEF Stacks
    <3> QED BY <1>1, <2>0, <2>2, <3>1, <3>2, <3>3, <3>4
  <2>3. CASE u # t BY <1>2, <1>3, <2>3 DEF Stacks
  <2> QED BY <2>1, <2>2, <2>3
<1> QED BY <1>1, <1>2, <1>3, <1>4 DEF Stacks, Shape

(* What settling a step's result does to a frame.                          *)
LEMMA SettledIs ==
  ASSUME NEW fr, IsRun(fr), NEW result \in {"ok", "stop", "escalate", "error"}
  PROVE  /\ IsRun(Settled(fr, result))
         /\ Settled(fr, result).flow = fr.flow /\ Settled(fr, result).obj = fr.obj
         /\ Settled(fr, result).at \in {"step", "wait", "leave", "fired"}
         /\ result = "escalate" /\ fr.tries = 0 =>
              /\ Settled(fr, result).at = "leave" /\ Settled(fr, result).res = "escalate"
              /\ Settled(fr, result).tries = 0
<1> DEFINE s == StepOf(fr)
           next == [fr EXCEPT !.pc = fr.pc + 1, !.tries = 0, !.at = "step", !.vars = fr.vars \cup {s.output}]
           again == [fr EXCEPT !.at = "wait", !.tries = fr.tries + 1]
           fails == [fr EXCEPT !.at = "leave", !.res = "failed"]
           stops == [fr EXCEPT !.at = "fired", !.res = "stopped"]
           escalated == [fr EXCEPT !.at = "leave", !.res = "escalate"]
<1>1. IsRun(next) /\ IsRun(again) /\ IsRun(fails) /\ IsRun(stops) /\ IsRun(escalated)
  BY FrameMoves DEF At
<1>2. \A g \in {next, again, fails, stops, escalated} :
        g.flow = fr.flow /\ g.obj = fr.obj /\ g.at \in {"step", "wait", "leave", "fired"}
  BY DEF IsRun, IsFrame
<1>3. fr.tries = 0 => escalated.at = "leave" /\ escalated.res = "escalate" /\ escalated.tries = 0
  BY DEF IsRun, IsFrame
<1>4. Settled(fr, result) =
        CASE result = "ok" -> next
          [] result # "ok" /\ Retrying(fr) -> IF fr.tries < s.retries THEN again ELSE fails
          [] result = "stop" /\ ~Retrying(fr) -> stops
          [] result = "escalate" /\ ~Retrying(fr) -> escalated
          [] result = "error" /\ ~Retrying(fr) ->
               CASE s.onError = "skip" -> next [] s.onError = "retry" -> again [] OTHER -> fails
  BY DEF Settled
<1>5. fr.tries = 0 => ~Retrying(fr) BY DEF Retrying
<1> HIDE DEF next, again, fails, stops, escalated, s
<1>6. Settled(fr, result) \in {next, again, fails, stops, escalated}
  <2>1. CASE result = "ok" BY <1>4, <2>1
  <2>2. CASE result # "ok" /\ Retrying(fr) BY <1>4, <2>2
  <2>3. CASE result # "ok" /\ ~Retrying(fr)
    <3>1. CASE result = "stop" BY <1>4, <2>3, <3>1
    <3>2. CASE result = "escalate" BY <1>4, <2>3, <3>2
    <3>3. CASE result = "error" BY <1>4, <2>3, <3>3
    <3> QED BY <2>3, <3>1, <3>2, <3>3
  <2> QED BY <2>1, <2>2, <2>3
<1>7. result = "escalate" /\ fr.tries = 0 => Settled(fr, result) = escalated BY <1>4, <1>5
<1> QED BY <1>1, <1>2, <1>3, <1>6, <1>7, SMTT(30)

-----------------------------------------------------------------------------
(* What each step of a run does to the frames.                             *)

New(t) == frame'[t][depth[t]]

Moved(t) ==
  /\ depth[t] > 0 /\ depth[t] \in Level /\ UNCHANGED depth /\ Stacks'
  /\ IsRun(Top(t)) /\ IsRun(New(t)) /\ New(t).flow = Top(t).flow /\ New(t).obj = Top(t).obj
  /\ \A u \in Thread, d \in Level : u # t \/ d # depth[t] => frame'[u][d] = frame[u][d]

Goes(t, from, to) == Moved(t) /\ Top(t).at = from /\ New(t).at \in to

LEMMA FieldsAfter ==
  ASSUME NEW fr, IsRun(fr), NEW w \in At, NEW r, NEW n
  PROVE  /\ LET g == [fr EXCEPT !.at = w] IN
              g.at = w /\ g.flow = fr.flow /\ g.obj = fr.obj /\ g.tries = fr.tries
         /\ LET g == [fr EXCEPT !.at = w, !.res = r] IN
              g.at = w /\ g.flow = fr.flow /\ g.obj = fr.obj /\ g.tries = fr.tries /\ g.res = r
         /\ LET g == [fr EXCEPT !.at = w, !.seen = n] IN
              g.at = w /\ g.flow = fr.flow /\ g.obj = fr.obj /\ g.tries = fr.tries /\ g.seen = n
BY DEF IsRun, IsFrame

LEMMA MovedTop ==
  ASSUME Stacks, NEW t \in Thread, depth[t] > 0, NEW fr, IsRun(fr), SetTop(t, fr), UNCHANGED depth,
         fr.flow = Top(t).flow, fr.obj = Top(t).obj
  PROVE  Moved(t) /\ New(t) = fr
<1>1. depth[t] \in Level /\ IsRun(Top(t)) BY TopOf
<1>2. /\ Stacks' /\ frame'[t][depth[t]] = fr
      /\ \A u \in Thread, d \in Level : u # t \/ d # depth[t] => frame'[u][d] = frame[u][d]
  BY SetTopStacks
<1> QED BY <1>1, <1>2 DEF Moved, New

LEMMA AcquireGoes ==
  ASSUME Stacks, NEW t \in Thread, AcquireExtSem(t)
  PROVE  Goes(t, "sem", {"step"}) /\ New(t).tries = Top(t).tries
<1>1. /\ depth[t] > 0 /\ Top(t).at = "sem" /\ SetTop(t, [Top(t) EXCEPT !.at = "step"]) /\ UNCHANGED depth
  BY DEF AcquireExtSem
<1>2. IsRun(Top(t)) /\ "step" \in At BY <1>1, TopOf, SMTT(30) DEF At
<1>3. IsRun([Top(t) EXCEPT !.at = "step"]) BY <1>2, FrameMoves
<1>4. LET g == [Top(t) EXCEPT !.at = "step"] IN
        g.at = "step" /\ g.flow = Top(t).flow /\ g.obj = Top(t).obj /\ g.tries = Top(t).tries
  BY <1>2, FieldsAfter
<1>5. Moved(t) /\ New(t) = [Top(t) EXCEPT !.at = "step"] BY <1>1, <1>3, <1>4, MovedTop
<1> QED BY <1>1, <1>4, <1>5 DEF Goes

LEMMA WaitGoes ==
  ASSUME Stacks, NEW t \in Thread, RetryWait(t)
  PROVE  Goes(t, "wait", {"step"}) /\ New(t).tries = Top(t).tries
<1>1. /\ depth[t] > 0 /\ Top(t).at = "wait" /\ SetTop(t, [Top(t) EXCEPT !.at = "step"]) /\ UNCHANGED depth
  BY DEF RetryWait
<1>2. IsRun(Top(t)) /\ "step" \in At BY <1>1, TopOf DEF At
<1>3. IsRun([Top(t) EXCEPT !.at = "step"]) BY <1>2, FrameMoves
<1>4. LET g == [Top(t) EXCEPT !.at = "step"] IN
        g.at = "step" /\ g.flow = Top(t).flow /\ g.obj = Top(t).obj /\ g.tries = Top(t).tries
  BY <1>2, FieldsAfter
<1>5. Moved(t) /\ New(t) = [Top(t) EXCEPT !.at = "step"] BY <1>1, <1>3, <1>4, MovedTop
<1> QED BY <1>1, <1>4, <1>5 DEF Goes

LEMMA SaveGoes ==
  ASSUME Stacks, NEW t \in Thread, SaveReflexStats(t)
  PROVE  Goes(t, "save", {"leave"}) /\ New(t).tries = Top(t).tries
<1>1. /\ depth[t] > 0 /\ Top(t).at = "save" /\ SetTop(t, [Top(t) EXCEPT !.at = "leave"]) /\ UNCHANGED depth
  BY DEF SaveReflexStats
<1>2. IsRun(Top(t)) /\ "leave" \in At BY <1>1, TopOf DEF At
<1>3. IsRun([Top(t) EXCEPT !.at = "leave"]) BY <1>2, FrameMoves
<1>4. LET g == [Top(t) EXCEPT !.at = "leave"] IN
        g.at = "leave" /\ g.flow = Top(t).flow /\ g.obj = Top(t).obj /\ g.tries = Top(t).tries
  BY <1>2, FieldsAfter
<1>5. Moved(t) /\ New(t) = [Top(t) EXCEPT !.at = "leave"] BY <1>1, <1>3, <1>4, MovedTop
<1> QED BY <1>1, <1>4, <1>5 DEF Goes

LEMMA WriteGoes ==
  ASSUME Stacks, NEW t \in Thread, WriteCount(t)
  PROVE  Goes(t, "counted", {"save"}) /\ New(t).tries = Top(t).tries
<1>1. /\ depth[t] > 0 /\ Top(t).at = "counted" /\ SetTop(t, [Top(t) EXCEPT !.at = "save"]) /\ UNCHANGED depth
  BY DEF WriteCount
<1>2. IsRun(Top(t)) /\ "save" \in At BY <1>1, TopOf, SMTT(30) DEF At
<1>3. IsRun([Top(t) EXCEPT !.at = "save"]) BY <1>2, FrameMoves
<1>4. LET g == [Top(t) EXCEPT !.at = "save"] IN
        g.at = "save" /\ g.flow = Top(t).flow /\ g.obj = Top(t).obj /\ g.tries = Top(t).tries
  BY <1>2, FieldsAfter
<1>5. Moved(t) /\ New(t) = [Top(t) EXCEPT !.at = "save"] BY <1>1, <1>3, <1>4, MovedTop
<1> QED BY <1>1, <1>4, <1>5 DEF Goes

(* The ways out with a failure, and the end of the pipeline.               *)
LEMMA FailGoes ==
  ASSUME Stacks, NEW t \in Thread, SemTimeout(t) \/ ContextDone(t)
  PROVE  /\ SemTimeout(t) => Goes(t, "sem", {"leave"})
         /\ ContextDone(t) => Goes(t, "wait", {"leave"})
         /\ New(t).tries = Top(t).tries
<1>1. /\ depth[t] > 0 /\ SetTop(t, [Top(t) EXCEPT !.at = "leave", !.res = "failed"]) /\ UNCHANGED depth
      /\ SemTimeout(t) => Top(t).at = "sem"
      /\ ContextDone(t) => Top(t).at = "wait"
  BY DEF SemTimeout, ContextDone
<1>2. IsRun(Top(t)) /\ "leave" \in At BY <1>1, TopOf DEF At
<1>3. IsRun([Top(t) EXCEPT !.at = "leave", !.res = "failed"]) BY <1>2, FrameMoves
<1>4. LET g == [Top(t) EXCEPT !.at = "leave", !.res = "failed"] IN
        g.at = "leave" /\ g.flow = Top(t).flow /\ g.obj = Top(t).obj /\ g.tries = Top(t).tries
  BY <1>2, FieldsAfter
<1>5. Moved(t) /\ New(t) = [Top(t) EXCEPT !.at = "leave", !.res = "failed"] BY <1>1, <1>3, <1>4, MovedTop
<1> QED BY <1>1, <1>4, <1>5 DEF Goes

LEMMA EndGoes ==
  ASSUME Stacks, NEW t \in Thread, PipelineEnds(t)
  PROVE  Goes(t, "step", {"fired"}) /\ New(t).tries = Top(t).tries
<1>1. /\ depth[t] > 0 /\ Top(t).at = "step" /\ SetTop(t, [Top(t) EXCEPT !.at = "fired", !.res = "success"])
      /\ UNCHANGED depth
  BY DEF PipelineEnds
<1>2. IsRun(Top(t)) /\ "fired" \in At BY <1>1, TopOf DEF At
<1>3. IsRun([Top(t) EXCEPT !.at = "fired", !.res = "success"]) BY <1>2, FrameMoves
<1>4. LET g == [Top(t) EXCEPT !.at = "fired", !.res = "success"] IN
        g.at = "fired" /\ g.flow = Top(t).flow /\ g.obj = Top(t).obj /\ g.tries = Top(t).tries
  BY <1>2, FieldsAfter
<1>5. Moved(t) /\ New(t) = [Top(t) EXCEPT !.at = "fired", !.res = "success"] BY <1>1, <1>3, <1>4, MovedTop
<1> QED BY <1>1, <1>4, <1>5 DEF Goes

LEMMA ReadGoes ==
  ASSUME Stacks, NEW t \in Thread, ReadCount(t)
  PROVE  Goes(t, "fired", {"counted"}) /\ New(t).tries = Top(t).tries /\ New(t).seen = Count(Top(t))
<1>1. /\ depth[t] > 0 /\ Top(t).at = "fired" /\ SetTop(t, [Top(t) EXCEPT !.at = "counted", !.seen = Count(Top(t))])
      /\ UNCHANGED depth
  BY DEF ReadCount
<1>2. IsRun(Top(t)) /\ "counted" \in At BY <1>1, TopOf DEF At
<1>3. IsRun([Top(t) EXCEPT !.at = "counted", !.seen = Count(Top(t))]) BY <1>2, FrameMoves
<1>4. LET g == [Top(t) EXCEPT !.at = "counted", !.seen = Count(Top(t))] IN
        /\ g.at = "counted" /\ g.flow = Top(t).flow /\ g.obj = Top(t).obj /\ g.tries = Top(t).tries
        /\ g.seen = Count(Top(t))
  BY <1>2, FieldsAfter
<1>5. Moved(t) /\ New(t) = [Top(t) EXCEPT !.at = "counted", !.seen = Count(Top(t))]
  BY <1>1, <1>3, <1>4, MovedTop
<1> QED BY <1>1, <1>4, <1>5 DEF Goes

Outcomes == {"ok", "stop", "escalate", "error"}

LEMMA SettleGoes ==
  ASSUME Stacks, NEW t \in Thread, RunStep(t) \/ InvokesNothing(t)
  PROVE  \E result \in Outcomes :
           /\ Goes(t, "step", {"step", "wait", "leave", "fired"}) /\ New(t) = Settled(Top(t), result)
           /\ Escalates(t, result)
           /\ result = "escalate" /\ Top(t).tries = 0 =>
                New(t).at = "leave" /\ New(t).res = "escalate" /\ New(t).tries = 0
<1>1. PICK result \in Outcomes : Settle(t, result)
  <2>1. CASE RunStep(t) BY <2>1 DEF RunStep, Results, Outcomes
  <2>2. CASE InvokesNothing(t) BY <2>2 DEF InvokesNothing, Outcomes
  <2> QED BY <2>1, <2>2
<1>2. depth[t] > 0 /\ Top(t).at = "step" /\ UNCHANGED depth BY DEF RunStep, InvokesNothing, AtStep
<1>3. IsRun(Top(t)) BY <1>2, TopOf
<1> DEFINE g == Settled(Top(t), result)
<1>4. /\ IsRun(g) /\ g.flow = Top(t).flow /\ g.obj = Top(t).obj
      /\ g.at \in {"step", "wait", "leave", "fired"}
      /\ result = "escalate" /\ Top(t).tries = 0 => g.at = "leave" /\ g.res = "escalate" /\ g.tries = 0
  BY <1>3, SettledIs DEF Outcomes
<1>5. SetTop(t, g) /\ Escalates(t, result) BY <1>1 DEF Settle
<1> HIDE DEF g
<1>6. Moved(t) /\ New(t) = g BY <1>2, <1>4, <1>5, MovedTop
<1> QED BY <1>2, <1>4, <1>5, <1>6 DEF Goes, g

(* A run that is left, and the one that invoked it.                        *)
Returned(t) ==
  /\ depth[t] > 0 /\ depth[t] \in Level /\ Top(t).at = "leave" /\ Stacks'
  /\ depth' = [depth EXCEPT ![t] = depth[t] - 1]
  /\ \A u \in Thread, d \in Level : u # t \/ d < depth[t] - 1 => frame'[u][d] = frame[u][d]

Caller(t) == frame[t][depth[t] - 1]
CallerAfter(t) == frame'[t][depth[t] - 1]

LEMMA ReturnGoes ==
  ASSUME Stacks, NEW t \in Thread, Return(t)
  PROVE  /\ Returned(t)
         /\ depth[t] > 1 => /\ depth[t] - 1 \in Level /\ IsRun(Caller(t)) /\ IsRun(CallerAfter(t)) /\ Caller(t).at = "step"
                            /\ CallerAfter(t) = Settled(Caller(t), InvokeResult(Top(t).res))
                            /\ CallerAfter(t).flow = Caller(t).flow /\ CallerAfter(t).obj = Caller(t).obj
                            /\ CallerAfter(t).at \in {"step", "wait", "leave", "fired"}
<1>1. /\ depth[t] > 0 /\ Top(t).at = "leave" /\ depth' = [depth EXCEPT ![t] = depth[t] - 1]
  BY DEF Return
<1>2. depth[t] \in Level /\ depth[t] \in Nat /\ IsRun(Top(t)) BY <1>1, TopOf
<1>3. depth' \in [Thread -> 0..(MaxDepth + 1)] BY <1>1, <1>2, WorkflowConstants DEF Stacks
<1>4. depth'[t] = depth[t] - 1 /\ \A u \in Thread : u # t => depth'[u] = depth[u] BY <1>1 DEF Stacks
<1>5. CASE depth[t] = 1
  <2>1. frame' = Put(frame, t, 1, NoFrame) BY <1>5 DEF Return, Put
  <2>2. 1 \in Level BY <1>2, <1>5
  <2>3. /\ Shape(frame') /\ frame'[t][1] = NoFrame
        /\ \A u \in Thread, d \in Level : u # t \/ d # 1 => frame'[u][d] = frame[u][d]
    <3>1. Shape(frame) BY DEF Stacks, Shape
    <3> QED BY <2>1, <2>2, <3>1, PutFrame
  <2>4. ASSUME NEW u \in Thread, NEW d \in Level
        PROVE  /\ IsFrame(frame'[u][d])
               /\ d <= depth'[u] => IsRun(frame'[u][d])
               /\ d < depth'[u] => frame'[u][d].at = "step"
               /\ u # t \/ d < depth[t] - 1 => frame'[u][d] = frame[u][d]
    <3>0. d \in Nat /\ d > 0 BY DEF Level
    <3>1. CASE u = t BY <1>4, <1>5, <2>3, <3>0, <3>1, NoFrameIs DEF Stacks
    <3>2. CASE u # t BY <1>4, <2>3, <3>2 DEF Stacks
    <3> QED BY <3>1, <3>2
  <2>5. Stacks' BY <1>3, <2>3, <2>4 DEF Stacks, Shape
  <2> QED BY <1>1, <1>2, <1>5, <2>4, <2>5 DEF Returned
<1>6. CASE depth[t] > 1
  <2> DEFINE k == depth[t]
             after == Settled(Caller(t), InvokeResult(Top(t).res))
  <2>1. k \in Level /\ k - 1 \in Level /\ k - 1 \in Nat /\ k - 1 < k /\ k # k - 1
    BY <1>2, <1>6, WorkflowConstants DEF Level
  <2>2. IsRun(Caller(t)) /\ Caller(t).at = "step" BY <1>2, <2>1 DEF Stacks, Caller
  <2>3. InvokeResult(Top(t).res) \in {"ok", "stop", "escalate", "error"} BY DEF InvokeResult
  <2>4. /\ IsRun(after) /\ after.flow = Caller(t).flow /\ after.obj = Caller(t).obj
        /\ after.at \in {"step", "wait", "leave", "fired"}
    BY <2>2, <2>3, SettledIs
  <2>5. frame' = Put(Put(frame, t, k, NoFrame), t, k - 1, after) BY <1>6 DEF Return, Put, Caller
  <2>6. /\ Shape(Put(frame, t, k, NoFrame)) /\ Put(frame, t, k, NoFrame)[t][k] = NoFrame
        /\ \A u \in Thread, d \in Level : u # t \/ d # k => Put(frame, t, k, NoFrame)[u][d] = frame[u][d]
    <3>1. Shape(frame) BY DEF Stacks, Shape
    <3> QED BY <2>1, <3>1, PutFrame
  <2> HIDE DEF after
  <2>8. /\ Shape(frame') /\ frame'[t][k - 1] = after
        /\ \A u \in Thread, d \in Level : u # t \/ d # k - 1 => frame'[u][d] = Put(frame, t, k, NoFrame)[u][d]
    BY <2>1, <2>5, <2>6, PutFrame
  <2>9. ASSUME NEW u \in Thread, NEW d \in Level
        PROVE  /\ IsFrame(frame'[u][d])
               /\ d <= depth'[u] => IsRun(frame'[u][d])
               /\ d < depth'[u] => frame'[u][d].at = "step"
               /\ u # t \/ d < depth[t] - 1 => frame'[u][d] = frame[u][d]
    <3>0. d \in Nat /\ d > 0 BY DEF Level
    <3>1. CASE u # t
      <4>1. frame'[u][d] = frame[u][d] BY <2>6, <2>8, <3>1
      <4> QED BY <1>4, <3>1, <4>1 DEF Stacks
    <3>2. CASE u = t /\ d = k
      <4>1. frame'[u][d] = NoFrame BY <2>1, <2>6, <2>8, <3>2
      <4>2. ~(d <= depth'[u]) /\ ~(d < depth'[u]) /\ ~(d < depth[t] - 1)
        BY <1>2, <1>4, <3>2
      <4> QED BY <3>2, <4>1, <4>2, NoFrameIs
    <3>3. CASE u = t /\ d = k - 1 BY <1>4, <2>1, <2>4, <2>8, <3>3 DEF IsRun
    <3>4. CASE u = t /\ d # k /\ d # k - 1
      <4>1. frame'[u][d] = frame[u][d] BY <2>6, <2>8, <3>4
      <4> QED BY <1>2, <1>4, <3>0, <3>4, <4>1 DEF Stacks
    <3> QED BY <3>1, <3>2, <3>3, <3>4
  <2>10. Stacks' BY <1>3, <2>8, <2>9 DEF Stacks, Shape
  <2> QED BY <1>1, <1>2, <2>1, <2>2, <2>4, <2>8, <2>9, <2>10 DEF Returned, CallerAfter, after
<1> QED BY <1>2, <1>5, <1>6, <1>1

-----------------------------------------------------------------------------
(* The reflexes in memory.                                                 *)

IsList(s) ==
  /\ Len(s) \in Nat /\ s = [i \in 1..Len(s) |-> s[i]]
  /\ \A i \in 1..Len(s) : s[i] = Made(s[i].flow, s[i].count) /\ s[i].flow \in Flow

LEMMA AppendList ==
  ASSUME NEW s, IsList(s), NEW f \in Flow, NEW c
  PROVE  /\ IsList(Append(s, Made(f, c))) /\ Len(Append(s, Made(f, c))) = Len(s) + 1
         /\ \A i \in 1..Len(s) : Append(s, Made(f, c))[i] = s[i]
         /\ Append(s, Made(f, c))[Len(s) + 1] = Made(f, c)
<1> DEFINE m == Made(f, c)
           S == {s[i] : i \in 1..Len(s)} \cup {m}
           a == Append(s, m)
<1>1. m = Made(m.flow, m.count) /\ m.flow \in Flow BY DEF Made
<1> HIDE DEF m
<1>2. s \in Seq(S) /\ m \in S /\ Len(s) \in Nat
  <2>1. s \in [1..Len(s) -> S] BY DEF IsList
  <2> QED BY <2>1 DEF IsList
<1> HIDE DEF S
<1>3. /\ Len(a) = Len(s) + 1 /\ Len(a) \in Nat /\ a = [i \in 1..Len(a) |-> a[i]]
      /\ \A i \in 1..Len(s) : a[i] = s[i]
      /\ a[Len(s) + 1] = m
  <2>1. a \in Seq(S) BY <1>2
  <2>2. Len(a) = Len(s) + 1 /\ Len(a) \in Nat BY <1>2
  <2>3. (\A i \in 1..Len(s) : a[i] = s[i]) /\ a[Len(s) + 1] = m BY <1>2
  <2> HIDE DEF a
  <2>4. a \in [1..Len(a) -> S] BY <2>1
  <2> QED BY <2>2, <2>3, <2>4
<1> HIDE DEF a
<1>4. \A i \in 1..Len(a) : a[i] = Made(a[i].flow, a[i].count) /\ a[i].flow \in Flow
  <2> TAKE i \in 1..Len(a)
  <2>1. CASE i \in 1..Len(s)
    <3>1. a[i] = s[i] BY <1>3, <2>1
    <3> QED BY <2>1, <3>1 DEF IsList
  <2>2. CASE i \notin 1..Len(s)
    <3>1. i = Len(s) + 1 BY <1>2, <1>3, <2>2
    <3> QED BY <1>1, <1>3, <3>1
  <2> QED BY <2>1, <2>2
<1> QED BY <1>3, <1>4 DEF IsList, a, m

Counted(s, k, c) == [s EXCEPT ![k].count = c]

LEMMA CountList ==
  ASSUME NEW s, IsList(s), NEW k, NEW c
  PROVE  /\ IsList(Counted(s, k, c)) /\ Len(Counted(s, k, c)) = Len(s)
         /\ k \in 1..Len(s) => Counted(s, k, c)[k].count = c
         /\ \A i \in 1..Len(s) : i # k => Counted(s, k, c)[i] = s[i]
<1> DEFINE r == [s[k] EXCEPT !.count = c]
           a == [s EXCEPT ![k] = r]
<1>1. k \in 1..Len(s) => r = Made(s[k].flow, c) /\ r.flow = s[k].flow /\ r.count = c
  BY DEF IsList, Made
<1>2. k \in 1..Len(s) => r = Made(r.flow, r.count) /\ r.flow \in Flow BY <1>1 DEF IsList
<1>3. Counted(s, k, c) = a BY DEF Counted
<1> HIDE DEF r
<1>4. /\ a = [i \in 1..Len(s) |-> IF i = k THEN r ELSE s[i]] BY DEF IsList
<1> HIDE DEF a
<1>5. \A i \in 1..Len(s) : a[i] = IF i = k THEN r ELSE s[i] BY <1>4
<1>6. DOMAIN a = 1..Len(s) /\ a = [i \in 1..Len(s) |-> a[i]] BY <1>4
<1>7. Len(s) \in Nat BY DEF IsList
<1>8. a \in Seq({a[i] : i \in 1..Len(s)}) BY <1>6, <1>7
<1>9. Len(a) = Len(s) BY <1>6, <1>7, <1>8
<1>10. IsList(a) BY <1>2, <1>5, <1>6, <1>7, <1>9 DEF IsList
<1> QED BY <1>1, <1>3, <1>5, <1>9, <1>10

LEMMA FirstList ==
  ASSUME NEW n, NEW counts, Reads(n) => Merged(n) \in Flow
  PROVE  /\ IsList(First(n, counts)) /\ Len(First(n, counts)) = IF Reads(n) THEN 1 ELSE 0
         /\ Reads(n) => First(n, counts)[1].count = counts[n]
<1>1. CASE Reads(n)
  <2> DEFINE s == First(n, counts)
             m == Made(Merged(n), counts[n])
  <2>1. s = <<m>> BY <1>1 DEF First
  <2>2. m = Made(m.flow, m.count) /\ m.flow \in Flow /\ m.count = counts[n] BY <1>1 DEF Made
  <2> HIDE DEF m, s
  <2>3. Len(s) = 1 /\ s[1] = m /\ s = [i \in 1..1 |-> s[i]] BY <2>1
  <2>4. \A i \in 1..1 : i = 1 OBVIOUS
  <2> QED BY <1>1, <2>2, <2>3, <2>4 DEF IsList, s
<1>2. CASE ~Reads(n)
  <2>1. First(n, counts) = <<>> BY <1>2 DEF First
  <2> HIDE DEF First
  <2>2. Len(<<>>) = 0 /\ <<>> = [i \in 1..0 |-> <<>>[i]] /\ 1..0 = {} OBVIOUS
  <2> QED BY <1>2, <2>1, <2>2 DEF IsList
<1> QED BY <1>1, <1>2

Files ==
  /\ disk = [n \in Name |-> disk[n]] /\ objects = [n \in Name |-> objects[n]]
  /\ registry = [n \in Name |-> registry[n]] /\ stats = [n \in Name |-> stats[n]]
  /\ fired \in [Name -> Nat]
  /\ \A n \in Name : /\ disk[n] \in Flow \cup {NoFlow}
                     /\ IsList(objects[n]) /\ registry[n] \in 0..Len(objects[n])

(* A call of the tool has run nothing before, and what a percept is still  *)
(* to try are reflexes.                                                    *)
Calls ==
  /\ stage = [t \in Percept \cup Invocation |-> stage[t]]
  /\ \A t \in Invocation : stage[t] = "new" => depth[t] = 0
  /\ cands = [p \in Percept |-> cands[p]]
  /\ \A p \in Percept : \A c \in cands[p] : c.obj \in Nat /\ c.flow \in Flow

EngineTypes == Stacks /\ Files /\ Calls

-----------------------------------------------------------------------------
(* The steps of the program, by what they do to the engine.                *)

Enters(t) ==
  /\ depth[t] <= MaxDepth /\ (depth[t] = 0 \/ Top(t).at = "step")
  /\ \E o \in Nat, f \in Flow : \E given : Push(t, o, f, given)

LEMMA RegisteredFlow ==
  ASSUME Files, NEW n \in Name, registry[n] # 0
  PROVE  registry[n] \in Nat /\ registry[n] \in 1..Len(objects[n]) /\ objects[n][registry[n]].flow \in Flow
BY DEF Files, IsList

LEMMA WorkflowEnters ==
  ASSUME Stacks, Files, NEW t \in Thread, depth[t] = 0, NEW n, NEW given, RunWorkflow(t, n, given)
  PROVE  Enters(t) \/ UNCHANGED <<depth, frame, muddled>>
<1>1. depth[t] <= MaxDepth BY WorkflowConstants
<1>2. CASE Known(n) /\ registry[n] # 0
  <2>1. n \in Name BY <1>2, WorkflowConstants DEF Known
  <2>2. Push(t, registry[n], objects[n][registry[n]].flow, given) BY <1>2 DEF RunWorkflow, Registered
  <2> QED BY <1>1, <1>2, <2>1, <2>2, RegisteredFlow DEF Enters
<1>3. CASE ~(Known(n) /\ registry[n] # 0) /\ Known(n) /\ Loads(CapFile[n])
  <2>1. CapFile[n] \in Flow BY <1>3, WorkflowConstants DEF Known
  <2>2. Push(t, 0, CapFile[n], given) BY <1>3 DEF RunWorkflow, FromFile
  <2> QED BY <1>1, <2>1, <2>2 DEF Enters
<1> QED BY <1>2, <1>3 DEF RunWorkflow

LEMMA InvokeEnters ==
  ASSUME Stacks, Files, NEW t \in Thread, Invoke(t)
  PROVE  Enters(t)
<1> DEFINE s == StepOf(Top(t))
           given == Top(t).vars \cup s.gives
<1>1. depth[t] > 0 /\ depth[t] \in Nat /\ IsRun(Top(t)) /\ Top(t).at = "step" /\ depth[t] <= MaxDepth
  <2>1. depth[t] > 0 /\ Top(t).at = "step" /\ depth[t] - 1 < MaxDepth BY DEF Invoke, AtStep
  <2>2. depth[t] \in Nat /\ IsRun(Top(t)) BY <2>1, TopOf
  <2> QED BY <2>1, <2>2, WorkflowConstants
<1>2. s.to \in Name
  <2>1. Top(t).flow \in Flow /\ Top(t).pc \in Nat /\ Top(t).pc > 0 BY <1>1 DEF IsRun, IsFrame
  <2>2. Top(t).pc <= Len(Def[Top(t).flow].steps) BY DEF Invoke, AtStep, FlowOf
  <2>3. Len(Def[Top(t).flow].steps) \in Nat BY <2>1, WorkflowConstants
  <2>4. Top(t).pc \in 1..Len(Def[Top(t).flow].steps) BY <2>1, <2>2, <2>3, SMTT(30)
  <2>5. Def[Top(t).flow].steps[Top(t).pc].do \in {"invoke", "invoke_reflex"} BY DEF Invoke, StepOf, FlowOf
  <2>6. Def[Top(t).flow].steps[Top(t).pc].to \in Name BY <2>1, <2>4, <2>5, WorkflowConstants
  <2> QED BY <2>6 DEF StepOf, FlowOf
<1>3. \/ registry[s.to] # 0 /\ Push(t, registry[s.to], objects[s.to][registry[s.to]].flow, given)
      \/ s.to \in DOMAIN CapFile /\ Push(t, 0, CapFile[s.to], given)
  BY DEF Invoke, Registered, FromFile, InvokesFile, Capability
<1> HIDE DEF s, given
<1>4. CASE registry[s.to] # 0 /\ Push(t, registry[s.to], objects[s.to][registry[s.to]].flow, given)
  BY <1>1, <1>2, <1>4, RegisteredFlow DEF Enters
<1>5. CASE s.to \in DOMAIN CapFile /\ Push(t, 0, CapFile[s.to], given)
  <2>1. CapFile[s.to] \in Flow BY <1>5, WorkflowConstants
  <2> QED BY <1>1, <1>5, <2>1 DEF Enters
<1> QED BY <1>3, <1>4, <1>5

(* Entering leaves the other frames alone.                                 *)
LEMMA EnterGoes ==
  ASSUME Stacks, NEW t \in Thread, Enters(t)
  PROVE  /\ Stacks' /\ depth[t] + 1 \in Level /\ depth' = [depth EXCEPT ![t] = depth[t] + 1]
         /\ \A u \in Thread, d \in Level : u # t \/ d # depth[t] + 1 => frame'[u][d] = frame[u][d]
         /\ LET fr == frame'[t][depth[t] + 1] IN
              /\ IsRun(fr) /\ fr.tries = 0 /\ fr.at \in {"leave", "step", "sem"}
              /\ fr.at = "step" => FlowOf(fr).ext = NoExt
              /\ LET n == FlowOf(fr).name IN
                   muddled' = IF InFlight(n) \/ fr.obj \notin {registry[n]} \ {0}
                              THEN muddled \cup {n} ELSE muddled
<1>1. PICK o \in Nat, f \in Flow : \E given : Push(t, o, f, given) BY DEF Enters
<1>2. PICK given : Push(t, o, f, given) BY <1>1
<1>3. depth[t] <= MaxDepth /\ (depth[t] = 0 \/ Top(t).at = "step") BY DEF Enters
<1>4. /\ Stacks' /\ depth[t] + 1 \in Level
      /\ depth' = [depth EXCEPT ![t] = depth[t] + 1]
      /\ frame'[t][depth[t] + 1] = Entered(o, f, given)
      /\ \A u \in Thread, d \in Level : u # t \/ d # depth[t] + 1 => frame'[u][d] = frame[u][d]
  BY <1>2, <1>3, PushStacks
<1> DEFINE fr == Entered(o, f, given)
<1>5. /\ IsRun(fr) /\ fr.flow = f /\ fr.obj = o /\ fr.tries = 0 /\ fr.at \in {"leave", "step", "sem"}
      /\ fr.at = "step" => Def[f].ext = NoExt
  BY EnteredIs
<1> HIDE DEF fr
<1>6. muddled' = IF InFlight(Def[f].name) \/ o \notin {registry[Def[f].name]} \ {0}
                 THEN muddled \cup {Def[f].name} ELSE muddled
  BY <1>2 DEF Push
<1> QED BY <1>4, <1>5, <1>6 DEF FlowOf, fr

Quiet == UNCHANGED <<fileVars, memoryVars, sem, depth, frame, raised, countVars>>

EntersOnly(t) == Enters(t) /\ UNCHANGED <<fileVars, memoryVars, sem, outcome, raised, stats, fired>>

Works(t) ==
  \/ AcquireExtSem(t) \/ SemTimeout(t) \/ RunStep(t) \/ InvokesNothing(t) \/ RetryWait(t) \/ ContextDone(t)
  \/ PipelineEnds(t) \/ ReadCount(t) \/ WriteCount(t) \/ SaveReflexStats(t) \/ Return(t)

Updates == CheckForUpdates /\ UNCHANGED <<fileVars, runVars, stats, fired>>

LEMMA Steps ==
  ASSUME EngineTypes, [Next]_vars
  PROVE  \/ Quiet
         \/ \E t \in Thread : EntersOnly(t)
         \/ \E t \in Thread : Works(t)
         \/ Updates
         \/ FilesChange
         \/ Restart
<1> USE DEF EngineTypes
<1>1. CASE UNCHANGED vars BY <1>1 DEF vars, workflowVars, runVars, Quiet
<1>2. CASE LoadAll /\ UNCHANGED <<workflowVars, triggerVars, perceptVars>>
  BY <1>2 DEF workflowVars, runVars, Quiet
<1>3. CASE RegisterAll /\ UNCHANGED perceptVars BY <1>3 DEF RegisterAll, workflowVars, runVars, Quiet
<1>4. CASE HalfMinute /\ UNCHANGED perceptVars BY <1>4 DEF HalfMinute, workflowVars, runVars, Quiet
<1>5. ASSUME NEW b \in Timed, Tick(b) PROVE Quiet \/ \E t \in Thread : EntersOnly(t)
  <2>1. b \in Thread /\ depth[b] = 0 BY <1>5, TriggerConstants DEF Tick, Waits
  <2>2. UNCHANGED <<fileVars, memoryVars, sem, outcome, raised, stats, fired>> BY <1>5 DEF Tick
  <2>3. RunWorkflow(b, Runs[b], {}) \/ UNCHANGED <<depth, frame, muddled>> BY <1>5 DEF Tick
  <2>4. Enters(b) \/ UNCHANGED <<depth, frame, muddled>> BY <2>1, <2>3, WorkflowEnters
  <2> QED BY <2>1, <2>2, <2>4 DEF Quiet, EntersOnly, countVars
<1>6. ASSUME NEW p \in Percept, Process(p) PROVE Quiet \/ Updates \/ \E t \in Thread : EntersOnly(t)
  <2>0. p \in Thread BY PerceptConstants
  <2>1. CASE Receive(p) BY <2>1 DEF Receive, Updates
  <2>2. CASE MatchPercept(p) BY <2>2 DEF MatchPercept, Engine, runVars, Quiet
  <2>3. CASE TryReflex(p)
    <3>1. depth[p] = 0 /\ depth[p] <= MaxDepth
      <4>1. depth[p] = 0 BY <2>3 DEF TryReflex, Trying
      <4> QED BY <4>1, WorkflowConstants
    <3>2. UNCHANGED <<fileVars, memoryVars, sem, outcome, raised, stats, fired>> BY <2>3 DEF TryReflex
    <3>3. PICK o \in cands[p] : Push(p, o.obj, o.flow, Data[p]) \/ UNCHANGED <<depth, frame, muddled>>
      BY <2>3 DEF TryReflex
    <3>4. o.obj \in Nat /\ o.flow \in Flow BY <3>3 DEF Calls
    <3>5. Enters(p) \/ UNCHANGED <<depth, frame, muddled>> BY <3>1, <3>3, <3>4 DEF Enters
    <3> QED BY <2>0, <3>2, <3>5 DEF Quiet, EntersOnly, countVars
  <2>4. CASE ReflexReturned(p) BY <2>4 DEF ReflexReturned, Quiet
  <2>5. CASE NoReflex(p) BY <2>5 DEF NoReflex, Engine, runVars, Quiet
  <2>6. CASE FirePercept(p)
    <3>1. depth[p] = 0 BY <2>6 DEF FirePercept
    <3>2. UNCHANGED <<fileVars, memoryVars, sem, outcome, raised, stats, fired>> BY <2>6 DEF FirePercept
    <3>3. (\E n, given : RunWorkflow(p, n, given)) \/ UNCHANGED <<depth, frame, muddled>> BY <2>6 DEF FirePercept
    <3>4. Enters(p) \/ UNCHANGED <<depth, frame, muddled>> BY <2>0, <3>1, <3>3, WorkflowEnters
    <3> QED BY <2>0, <3>2, <3>4 DEF Quiet, EntersOnly, countVars
  <2>7. CASE Route(p) BY <2>7 DEF Route, Engine, runVars, Quiet
  <2> QED BY <1>6, <2>1, <2>2, <2>3, <2>4, <2>5, <2>6, <2>7 DEF Process
<1>7. ASSUME NEW p \in Percept, TimesOut(p) PROVE \E t \in Thread : Works(t)
  BY <1>7, PerceptConstants DEF TimesOut, Works
<1>8. ASSUME NEW t \in Invocation, InvokeWorkflow(t) PROVE Quiet \/ \E u \in Thread : EntersOnly(u)
  <2>1. t \in Thread /\ depth[t] = 0 BY <1>8, PerceptConstants DEF InvokeWorkflow, Calls
  <2>2. UNCHANGED <<fileVars, memoryVars, sem, outcome, raised, stats, fired>> BY <1>8 DEF InvokeWorkflow
  <2>3. RunWorkflow(t, Invokes[t].name, Invokes[t].params) BY <1>8 DEF InvokeWorkflow
  <2>4. Enters(t) \/ UNCHANGED <<depth, frame, muddled>> BY <2>1, <2>3, WorkflowEnters
  <2> QED BY <2>1, <2>2, <2>4 DEF Quiet, EntersOnly, countVars
<1>9. ASSUME NEW t \in Thread, Engines(t) PROVE Works(t) \/ EntersOnly(t)
  <2>1. CASE Invoke(t)
    <3>1. Enters(t) BY <2>1, InvokeEnters
    <3>2. UNCHANGED <<fileVars, memoryVars, sem, outcome, raised, stats, fired>> BY <2>1 DEF Invoke
    <3> QED BY <3>1, <3>2 DEF EntersOnly
  <2>2. CASE ~Invoke(t) BY <1>9, <2>2 DEF Engines, Running, Works
  <2> QED BY <2>1, <2>2
<1> QED BY <1>1, <1>2, <1>3, <1>4, <1>5, <1>6, <1>7, <1>8, <1>9 DEF Next

(* A run at work and a run that returns: the other goroutines' frames stay.*)
LEMMA WorkGoes ==
  ASSUME Stacks, NEW t \in Thread, Works(t)
  PROVE  IF Return(t) THEN Returned(t) ELSE Moved(t)
<1>1. CASE Return(t) BY <1>1, ReturnGoes
<1>2. CASE AcquireExtSem(t) \/ RetryWait(t)
  <2>1. Moved(t) BY <1>2, AcquireGoes, WaitGoes DEF Goes
  <2>2. ~Return(t) BY <1>2 DEF AcquireExtSem, RetryWait, Return
  <2> QED BY <2>1, <2>2
<1>3. CASE SemTimeout(t) \/ ContextDone(t)
  <2>1. Moved(t) BY <1>3, FailGoes DEF Goes
  <2>2. ~Return(t) BY <1>3 DEF SemTimeout, ContextDone, Return
  <2> QED BY <2>1, <2>2
<1>4. CASE RunStep(t) \/ InvokesNothing(t)
  <2>1. Moved(t) BY <1>4, SettleGoes DEF Goes
  <2>2. ~Return(t) BY <1>4 DEF RunStep, InvokesNothing, AtStep, Return
  <2> QED BY <2>1, <2>2
<1>5. CASE PipelineEnds(t) \/ ReadCount(t)
  <2>1. Moved(t) BY <1>5, EndGoes, ReadGoes DEF Goes
  <2>2. ~Return(t) BY <1>5 DEF PipelineEnds, ReadCount, Return
  <2> QED BY <2>1, <2>2
<1>6. CASE WriteCount(t) \/ SaveReflexStats(t)
  <2>1. Moved(t) BY <1>6, WriteGoes, SaveGoes DEF Goes
  <2>2. ~Return(t) BY <1>6 DEF WriteCount, SaveReflexStats, Return
  <2> QED BY <2>1, <2>2
<1> QED BY <1>1, <1>2, <1>3, <1>4, <1>5, <1>6 DEF Works

-----------------------------------------------------------------------------
(* The types are kept.                                                     *)

LEMMA StacksInit == Init => Stacks
<1> SUFFICES ASSUME Init PROVE Stacks OBVIOUS
<1>1. depth = [t \in Thread |-> 0] /\ frame = [t \in Thread |-> [d \in Level |-> NoFrame]]
  BY DEF Init, WorkflowInit
<1>2. depth \in [Thread -> 0..(MaxDepth + 1)] BY <1>1, WorkflowConstants
<1>3. \A t \in Thread, d \in Level : frame[t][d] = NoFrame /\ ~(d <= depth[t]) /\ ~(d < depth[t])
  BY <1>1, WorkflowConstants DEF Level
<1>4. frame = [t \in Thread |-> [d \in Level |-> frame[t][d]]] BY <1>1
<1> QED BY <1>2, <1>3, <1>4, NoFrameIs DEF Stacks

LEMMA StacksStep == EngineTypes /\ [Next]_vars => Stacks'
<1> SUFFICES ASSUME EngineTypes, [Next]_vars PROVE Stacks' OBVIOUS
<1>0. Stacks BY DEF EngineTypes
<1>1. CASE Quiet
  <2>1. depth' = depth /\ frame' = frame BY <1>1 DEF Quiet
  <2> QED BY <1>0, <2>1 DEF Stacks
<1>2. CASE \E t \in Thread : EntersOnly(t) BY <1>0, <1>2, EnterGoes DEF EntersOnly
<1>3. CASE \E t \in Thread : Works(t) BY <1>0, <1>3, WorkGoes DEF Moved, Returned
<1>4. CASE Updates \/ FilesChange
  <2>1. depth' = depth /\ frame' = frame
    BY <1>4 DEF Updates, FilesChange, SaveReflex, EditFile, Delete, runVars
  <2> QED BY <1>0, <2>1 DEF Stacks
<1>5. CASE Restart
  <2>1. depth' = [t \in Thread |-> 0] /\ frame' = [t \in Thread |-> [d \in Level |-> NoFrame]]
    BY <1>5 DEF Restart
  <2>2. depth' \in [Thread -> 0..(MaxDepth + 1)] BY <2>1, WorkflowConstants
  <2>3. \A t \in Thread, d \in Level : frame'[t][d] = NoFrame /\ ~(d <= depth'[t]) /\ ~(d < depth'[t])
    BY <2>1, WorkflowConstants DEF Level
  <2>4. frame' = [t \in Thread |-> [d \in Level |-> frame'[t][d]]] BY <2>1
  <2> QED BY <2>2, <2>3, <2>4, NoFrameIs DEF Stacks
<1> QED BY <1>1, <1>2, <1>3, <1>4, <1>5, Steps

LEMMA MergedFlow ==
  ASSUME NEW n \in Name, disk[n] \in Flow \cup {NoFlow}, Reads(n)
  PROVE  Merged(n) \in Flow
BY WorkflowConstants DEF Reads, Merged

LEMMA FilesInit == Init => Files
<1> SUFFICES ASSUME Init PROVE Files OBVIOUS
<1>1. /\ disk = [n \in Name |-> NoFlow] /\ stats = [n \in Name |-> 0]
      /\ objects = [n \in Name |-> First(n, stats)]
      /\ registry = [n \in Name |-> IF Reads(n) THEN 1 ELSE 0]
      /\ fired = [n \in Name |-> 0]
  BY DEF Init, WorkflowInit
<1>2. ASSUME NEW n \in Name
      PROVE  disk[n] \in Flow \cup {NoFlow} /\ IsList(objects[n]) /\ registry[n] \in 0..Len(objects[n])
  <2>1. disk[n] \in Flow \cup {NoFlow} BY <1>1
  <2>2. IsList(First(n, stats)) /\ Len(First(n, stats)) = IF Reads(n) THEN 1 ELSE 0
    BY <2>1, MergedFlow, FirstList
  <2> QED BY <1>1, <2>1, <2>2
<1>3. disk = [n \in Name |-> disk[n]] /\ stats = [n \in Name |-> stats[n]] BY <1>1
<1>4. objects = [n \in Name |-> objects[n]] /\ registry = [n \in Name |-> registry[n]] BY <1>1
<1>5. fired \in [Name -> Nat] BY <1>1
<1> QED BY <1>2, <1>3, <1>4, <1>5 DEF Files

LEMMA WriteFiles ==
  ASSUME Stacks, Files, NEW t \in Thread, WriteCount(t)
  PROVE  Files'
<1>1. UNCHANGED <<disk, registry, stats, fired>> BY DEF WriteCount, fileVars, countVars
<1>2. CASE Top(t).obj = 0
  <2>1. objects' = objects BY <1>2 DEF WriteCount
  <2> QED BY <1>1, <2>1 DEF Files
<1>3. CASE Top(t).obj # 0
  <2> DEFINE m == FlowOf(Top(t)).name
             k == Top(t).obj
             c == Top(t).seen + 1
  <2>1. objects' = [objects EXCEPT ![m] = Counted(objects[m], k, c)]
    BY <1>3 DEF WriteCount, Counted
  <2> HIDE DEF m, k, c
  <2>2. objects' = [n \in Name |-> IF n = m THEN Counted(objects[m], k, c) ELSE objects[n]]
    BY <2>1 DEF Files
  <2>3. \A n \in Name : IsList(objects'[n]) /\ Len(objects'[n]) = Len(objects[n])
    <3> TAKE n \in Name
    <3>1. CASE n = m
      <4>1. IsList(objects[m]) BY <3>1 DEF Files
      <4>2. objects'[n] = Counted(objects[m], k, c) BY <2>2, <3>1
      <4>3. IsList(Counted(objects[m], k, c)) /\ Len(Counted(objects[m], k, c)) = Len(objects[m])
        BY <4>1, CountList
      <4> QED BY <3>1, <4>2, <4>3
    <3>2. CASE n # m BY <2>2, <3>2 DEF Files
    <3> QED BY <3>1, <3>2
  <2>4. objects' = [n \in Name |-> objects'[n]] BY <2>2
  <2> QED BY <1>1, <2>3, <2>4 DEF Files
<1> QED BY <1>2, <1>3

LEMMA FilesStep == EngineTypes /\ [Next]_vars => Files'
<1> SUFFICES ASSUME EngineTypes, [Next]_vars PROVE Files' OBVIOUS
<1>0. Stacks /\ Files BY DEF EngineTypes
<1>1. CASE UNCHANGED <<disk, objects, registry, stats, fired>> BY <1>0, <1>1 DEF Files
<1>2. CASE Quiet \/ \E t \in Thread : EntersOnly(t)
  BY <1>1, <1>2 DEF Quiet, EntersOnly, fileVars, memoryVars, countVars
<1>3. ASSUME NEW t \in Thread, Works(t) PROVE Files'
  <2>1. CASE WriteCount(t) BY <1>0, <2>1, WriteFiles
  <2>2. CASE SaveReflexStats(t)
    <3> DEFINE m == FlowOf(Top(t)).name
               c == IF Top(t).obj = 0 THEN 1 ELSE Count(Top(t))
    <3>1. /\ UNCHANGED <<disk, objects, registry>>
          /\ stats' = [stats EXCEPT ![m] = c] \/ stats' = stats \/ stats' = [x \in Name |-> 0]
          /\ fired' = [fired EXCEPT ![m] = fired[m] + 1]
      BY <2>2 DEF SaveReflexStats, fileVars, memoryVars
    <3> HIDE DEF m, c
    <3>2. fired' \in [Name -> Nat]
      <4>1. fired \in [Name -> Nat] BY <1>0 DEF Files
      <4>2. CASE m \in Name
        <5>1. fired[m] + 1 \in Nat BY <4>1, <4>2
        <5> QED BY <3>1, <4>1, <5>1
      <4>3. CASE m \notin Name
        <5>1. fired' = fired BY <3>1, <4>1, <4>3
        <5> QED BY <4>1, <5>1
      <4> QED BY <4>2, <4>3
    <3>3. stats' = [n \in Name |-> stats'[n]] BY <1>0, <3>1 DEF Files
    <3> QED BY <1>0, <3>1, <3>2, <3>3 DEF Files
  <2>3. CASE ~WriteCount(t) /\ ~SaveReflexStats(t)
    <3>1. UNCHANGED <<fileVars, memoryVars, countVars>>
      BY <1>3, <2>3 DEF Works, AcquireExtSem, SemTimeout, RunStep, InvokesNothing, RetryWait, ContextDone,
         PipelineEnds, ReadCount, Return
    <3> QED BY <1>1, <3>1 DEF fileVars, memoryVars, countVars
  <2> QED BY <2>1, <2>2, <2>3
<1>4. CASE Updates
  <2>1. UNCHANGED <<disk, stats, fired>> BY <1>4 DEF Updates, fileVars
  <2>2. /\ objects' = [n \in Name |-> IF n \in Modified THEN Append(objects[n], Made(disk[n], CountOf(n)))
                                      ELSE objects[n]]
        /\ registry' = [n \in Name |-> IF n \in Modified THEN Len(objects[n]) + 1
                                       ELSE IF n \in Removed THEN 0 ELSE registry[n]]
    BY <1>4 DEF Updates, CheckForUpdates
  <2>3. ASSUME NEW n \in Name PROVE IsList(objects'[n]) /\ registry'[n] \in 0..Len(objects'[n])
    <3>0. IsList(objects[n]) /\ registry[n] \in 0..Len(objects[n]) /\ Len(objects[n]) \in Nat
      BY <1>0 DEF Files, IsList
    <3>1. CASE n \in Modified
      <4>1. disk[n] \in Flow BY <1>0, <3>1 DEF Modified, Files
      <4>2. objects'[n] = Append(objects[n], Made(disk[n], CountOf(n))) /\ registry'[n] = Len(objects[n]) + 1
        BY <2>2, <3>1
      <4>3. IsList(objects'[n]) /\ Len(objects'[n]) = Len(objects[n]) + 1 BY <3>0, <4>1, <4>2, AppendList
      <4> QED BY <3>0, <4>2, <4>3
    <3>2. CASE n \notin Modified
      <4>1. objects'[n] = objects[n] /\ registry'[n] \in {0, registry[n]} BY <2>2, <3>2
      <4> QED BY <3>0, <4>1
    <3> QED BY <3>1, <3>2
  <2>4. objects' = [n \in Name |-> objects'[n]] /\ registry' = [n \in Name |-> registry'[n]] BY <2>2
  <2> QED BY <1>0, <2>1, <2>3, <2>4 DEF Files
<1>5. CASE FilesChange
  <2>1. PICK c \in Create : \/ SaveReflex(c[1], c[2]) \/ EditFile(c[1], c[2])
                            \/ Delete(c[1]) \/ EditFile(c[1], NoFlow)
    BY <1>5 DEF FilesChange
  <2>2. c[1] \in Name /\ c[2] \in Flow BY PerceptConstants
  <2> DEFINE m == c[1]
  <2>3. CASE SaveReflex(m, c[2])
    <3>1. /\ disk' = [disk EXCEPT ![m] = c[2]] /\ UNCHANGED <<stats, fired>>
          /\ objects' = [objects EXCEPT ![m] = Append(objects[m], Made(c[2], 0))]
          /\ registry' = [registry EXCEPT ![m] = Len(objects[m]) + 1]
      BY <2>3 DEF SaveReflex
    <3>2. IsList(objects[m]) /\ Len(objects[m]) \in Nat BY <1>0, <2>2 DEF Files, IsList
    <3>3. /\ IsList(Append(objects[m], Made(c[2], 0)))
          /\ Len(Append(objects[m], Made(c[2], 0))) = Len(objects[m]) + 1
      BY <2>2, <3>2, AppendList
    <3> DEFINE a == Append(objects[m], Made(c[2], 0))
    <3> HIDE DEF a, m
    <3>4. disk' = [disk EXCEPT ![m] = c[2]] /\ disk' = [n \in Name |-> disk'[n]] BY <1>0, <3>1 DEF Files
    <3>5. objects' = [n \in Name |-> IF n = m THEN a ELSE objects[n]] BY <1>0, <3>1 DEF Files, a
    <3>6. registry' = [n \in Name |-> IF n = m THEN Len(objects[m]) + 1 ELSE registry[n]] BY <1>0, <3>1 DEF Files
    <3>7. ASSUME NEW n \in Name
          PROVE  /\ disk'[n] \in Flow \cup {NoFlow}
                 /\ IsList(objects'[n]) /\ registry'[n] \in 0..Len(objects'[n])
      <4>1. CASE n = m
        <5>1. objects'[n] = a /\ registry'[n] = Len(objects[m]) + 1 BY <3>5, <3>6, <4>1
        <5>2. disk'[n] = c[2] BY <1>0, <3>4, <4>1 DEF Files
        <5> QED BY <2>2, <3>2, <3>3, <5>1, <5>2 DEF a
      <4>2. CASE n # m BY <1>0, <3>4, <3>5, <3>6, <4>2 DEF Files
      <4> QED BY <4>1, <4>2
    <3>8. objects' = [n \in Name |-> objects'[n]] /\ registry' = [n \in Name |-> registry'[n]] BY <3>5, <3>6
    <3> QED BY <1>0, <3>1, <3>4, <3>7, <3>8 DEF Files
  <2>4. ASSUME NEW f \in {c[2], NoFlow}, EditFile(m, f) PROVE Files'
    <3>1. disk' = [disk EXCEPT ![m] = f] /\ UNCHANGED <<objects, registry, stats, fired>>
      BY <2>4 DEF EditFile, memoryVars, countVars
    <3>2. f \in Flow \cup {NoFlow} BY <2>2
    <3> HIDE DEF m
    <3>3. disk' = [n \in Name |-> IF n = m THEN f ELSE disk[n]] BY <1>0, <3>1 DEF Files
    <3>4. disk' = [n \in Name |-> disk'[n]] /\ \A n \in Name : disk'[n] \in Flow \cup {NoFlow}
      BY <1>0, <3>2, <3>3 DEF Files
    <3> QED BY <1>0, <3>1, <3>4 DEF Files
  <2>5. CASE Delete(m)
    <3>1. /\ disk' = [disk EXCEPT ![m] = NoFlow] /\ registry' = [registry EXCEPT ![m] = 0]
          /\ UNCHANGED <<objects, stats, fired>>
      BY <2>5 DEF Delete, countVars
    <3>2. \A n \in Name : Len(objects[n]) \in Nat BY <1>0 DEF Files, IsList
    <3> HIDE DEF m
    <3>3. /\ disk' = [n \in Name |-> IF n = m THEN NoFlow ELSE disk[n]]
          /\ registry' = [n \in Name |-> IF n = m THEN 0 ELSE registry[n]]
      BY <1>0, <3>1 DEF Files
    <3>4. ASSUME NEW n \in Name
          PROVE  disk'[n] \in Flow \cup {NoFlow} /\ registry'[n] \in 0..Len(objects[n])
      <4>1. disk'[n] \in {NoFlow, disk[n]} /\ registry'[n] \in {0, registry[n]} BY <3>3
      <4> QED BY <1>0, <3>2, <4>1 DEF Files
    <3>5. disk' = [n \in Name |-> disk'[n]] /\ registry' = [n \in Name |-> registry'[n]] BY <3>3
    <3> QED BY <1>0, <3>1, <3>4, <3>5 DEF Files
  <2> QED BY <2>1, <2>3, <2>4, <2>5
<1>6. CASE Restart
  <2>1. UNCHANGED <<disk, stats, fired>> BY <1>6 DEF Restart, countVars
  <2>2. /\ objects' = [n \in Name |-> First(n, stats)]
        /\ registry' = [n \in Name |-> IF Reads(n) THEN 1 ELSE 0]
    BY <1>6 DEF Restart, Load
  <2>3. ASSUME NEW n \in Name PROVE IsList(objects'[n]) /\ registry'[n] \in 0..Len(objects'[n])
    <3>1. disk[n] \in Flow \cup {NoFlow} BY <1>0 DEF Files
    <3>2. IsList(First(n, stats)) /\ Len(First(n, stats)) = IF Reads(n) THEN 1 ELSE 0
      BY <3>1, MergedFlow, FirstList
    <3>3. objects'[n] = First(n, stats) /\ registry'[n] = IF Reads(n) THEN 1 ELSE 0 BY <2>2
    <3> HIDE DEF First
    <3> QED BY <3>2, <3>3
  <2>4. objects' = [n \in Name |-> objects'[n]] /\ registry' = [n \in Name |-> registry'[n]] BY <2>2
  <2> QED BY <1>0, <2>1, <2>3, <2>4 DEF Files
<1> QED BY <1>2, <1>3, <1>4, <1>5, <1>6, Steps

LEMMA CallsInit == Init => Calls
<1> SUFFICES ASSUME Init PROVE Calls OBVIOUS
<1>1. /\ stage = [t \in Percept \cup Invocation |-> "new"] /\ depth = [t \in Thread |-> 0]
      /\ cands = [p \in Percept |-> {}]
  BY DEF Init, WorkflowInit
<1> QED BY <1>1, PerceptConstants DEF Calls

LEMMA CallsStep == EngineTypes /\ [Next]_vars => Calls'
<1> SUFFICES ASSUME EngineTypes, [Next]_vars PROVE Calls' OBVIOUS
<1>0. Stacks /\ Calls BY DEF EngineTypes
<1>a. \A t \in Invocation : t \in Thread /\ t \notin Percept /\ t \notin Timed BY PerceptConstants
<1>b. depth = [t \in Thread |-> depth[t]] BY <1>0 DEF Stacks
<1> DEFINE NoNewCall == \A t \in Invocation : stage'[t] = "new" => stage[t] = "new" /\ depth'[t] = depth[t]
           Staged == stage' = [t \in Percept \cup Invocation |-> stage'[t]]
           Tried == /\ cands' = [p \in Percept |-> cands'[p]]
                    /\ \A p \in Percept : \A c \in cands'[p] : c.obj \in Nat /\ c.flow \in Flow
           Pushes(t) == depth' = [depth EXCEPT ![t] = depth[t] + 1] \/ UNCHANGED depth
<1>c. NoNewCall /\ Staged /\ Tried => Calls'
  <2> SUFFICES ASSUME NoNewCall, Staged, Tried PROVE Calls' OBVIOUS
  <2>1. \A t \in Invocation : stage'[t] = "new" => depth'[t] = 0 BY <1>0 DEF Calls
  <2> QED BY <2>1 DEF Calls
<1>d. UNCHANGED cands => Tried BY <1>0 DEF Calls
<1>e. UNCHANGED stage => Staged BY <1>0 DEF Calls
<1>f. \A s : \A p \in Percept \cup Invocation : NextStage(p, s) =>
        Staged /\ stage'[p] = s /\ \A t \in Invocation : t # p => stage'[t] = stage[t]
  BY <1>0 DEF Calls, NextStage
<1>g. \A t \in Thread : Pushes(t) => \A u \in Thread : u # t => depth'[u] = depth[u] BY <1>b
<1>h. \A t, n, given : RunWorkflow(t, n, given) => Pushes(t) BY DEF RunWorkflow, Registered, FromFile, Push
<1>1. CASE UNCHANGED <<stage, cands, depth>>
  <2>1. NoNewCall BY <1>1
  <2> QED BY <1>1, <1>c, <1>d, <1>e, <2>1
<1>2. CASE UNCHANGED vars \/ (LoadAll /\ UNCHANGED <<workflowVars, triggerVars, perceptVars>>)
  BY <1>1, <1>2 DEF vars, workflowVars, runVars, perceptVars
<1>3. CASE (RegisterAll \/ HalfMinute) /\ UNCHANGED perceptVars
  BY <1>1, <1>3 DEF RegisterAll, HalfMinute, workflowVars, runVars, perceptVars
<1>4. ASSUME NEW b \in Timed, Tick(b), UNCHANGED perceptVars PROVE Calls'
  <2>1. Pushes(b)
    <3>1. (\E n, given : RunWorkflow(b, n, given)) \/ UNCHANGED depth BY <1>4 DEF Tick
    <3> QED BY <3>1, <1>h
  <2>2. \A t \in Invocation : depth'[t] = depth[t] BY <1>a, <1>g, <2>1, TriggerConstants
  <2>3. UNCHANGED <<stage, cands>> BY <1>4 DEF perceptVars
  <2>4. NoNewCall BY <2>2, <2>3
  <2> QED BY <1>c, <1>d, <1>e, <2>3, <2>4
<1>5. ASSUME NEW p \in Percept, Process(p) PROVE Calls'
  <2>0. p \in Thread BY PerceptConstants
  <2>a. ASSUME NEW s, NextStage(p, s), UNCHANGED depth PROVE NoNewCall /\ Staged
    BY <1>a, <1>f, <2>a
  <2>1. CASE Receive(p)
    <3>1. NextStage(p, "match") /\ UNCHANGED <<depth, cands>> BY <2>1 DEF Receive, runVars
    <3> QED BY <1>c, <1>d, <2>a, <3>1
  <2>2. CASE MatchPercept(p)
    <3>1. NextStage(p, "reflexes") /\ UNCHANGED depth BY <2>2 DEF MatchPercept, Engine, runVars
    <3> DEFINE S == {o \in {Candidate(n) : n \in {x \in Name : registry[x] # 0}} : Match(o, p)}
    <3>2. cands' = [cands EXCEPT ![p] = S] BY <2>2 DEF MatchPercept
    <3>3. \A c \in S : c.obj \in Nat /\ c.flow \in Flow
      <4> TAKE c \in S
      <4>1. PICK n \in Name : registry[n] # 0 /\ c = Candidate(n) OBVIOUS
      <4>2. registry[n] \in Nat /\ objects[n][registry[n]].flow \in Flow BY <4>1, RegisteredFlow DEF EngineTypes
      <4> QED BY <4>1, <4>2 DEF Candidate
    <3> HIDE DEF S
    <3>4. Tried BY <1>0, <3>2, <3>3 DEF Calls
    <3> QED BY <1>c, <2>a, <3>1, <3>4
  <2>3. CASE TryReflex(p)
    <3>1. PICK o : /\ cands' = [cands EXCEPT ![p] = cands[p] \ {o}]
                   /\ Push(p, o.obj, o.flow, Data[p]) \/ UNCHANGED <<depth, frame, muddled>>
      BY <2>3 DEF TryReflex
    <3>2. Pushes(p) /\ UNCHANGED stage BY <2>3, <3>1 DEF Push, TryReflex
    <3>3. \A t \in Invocation : depth'[t] = depth[t] BY <1>a, <1>g, <2>0, <3>2
    <3>4. NoNewCall BY <3>2, <3>3
    <3>5. Tried BY <1>0, <3>1 DEF Calls
    <3> QED BY <1>c, <1>e, <3>2, <3>4, <3>5
  <2>4. CASE ReflexReturned(p)
    <3>1. UNCHANGED <<depth, cands>> BY <2>4 DEF ReflexReturned
    <3>2. UNCHANGED stage \/ NextStage(p, "triggers") BY <2>4 DEF ReflexReturned, HandledBy
    <3>3. CASE UNCHANGED stage BY <1>1, <3>1, <3>3
    <3>4. CASE NextStage(p, "triggers") BY <1>c, <1>d, <2>a, <3>1, <3>4
    <3> QED BY <3>2, <3>3, <3>4
  <2>5. CASE NoReflex(p)
    <3>1. NextStage(p, "triggers") /\ UNCHANGED <<depth, cands>> BY <2>5 DEF NoReflex, HandledBy, Engine, runVars
    <3> QED BY <1>c, <1>d, <2>a, <3>1
  <2>6. CASE FirePercept(p)
    <3>1. (\E n, given : RunWorkflow(p, n, given)) \/ UNCHANGED depth BY <2>6 DEF FirePercept
    <3>2. Pushes(p) /\ UNCHANGED <<stage, cands>> BY <1>h, <2>6, <3>1 DEF FirePercept
    <3>3. \A t \in Invocation : depth'[t] = depth[t] BY <1>a, <1>g, <2>0, <3>2
    <3>4. NoNewCall BY <3>2, <3>3
    <3> QED BY <1>c, <1>d, <1>e, <3>2, <3>4
  <2>7. CASE Route(p)
    <3>1. NextStage(p, "done") /\ UNCHANGED <<depth, cands>> BY <2>7 DEF Route, Engine, runVars
    <3> QED BY <1>c, <1>d, <2>a, <3>1
  <2> QED BY <1>5, <2>1, <2>2, <2>3, <2>4, <2>5, <2>6, <2>7 DEF Process
<1>6. ASSUME NEW p \in Percept, TimesOut(p) PROVE Calls'
  BY <1>1, <1>6 DEF TimesOut, ContextDone, perceptVars
<1>7. ASSUME NEW t \in Invocation, InvokeWorkflow(t) PROVE Calls'
  <2>1. Pushes(t) /\ NextStage(t, "done") /\ UNCHANGED cands BY <1>7, <1>h DEF InvokeWorkflow
  <2>2. Staged /\ stage'[t] = "done" /\ \A u \in Invocation : u # t => stage'[u] = stage[u] BY <1>f, <2>1
  <2>3. NoNewCall BY <1>a, <1>g, <2>1, <2>2
  <2> QED BY <1>c, <1>d, <2>1, <2>2, <2>3
<1>8. ASSUME NEW t \in Thread, Engines(t) PROVE Calls'
  <2>1. UNCHANGED <<stage, cands>> BY <1>8 DEF Engines, perceptVars
  <2>2. depth[t] > 0 /\ \A u \in Thread : u # t => depth'[u] = depth[u]
    <3>1. CASE Invoke(t)
      <4>1. Pushes(t) BY <3>1 DEF Invoke, Registered, FromFile, Push
      <4> QED BY <1>g, <3>1, <4>1, SMTT(30) DEF Invoke, AtStep
    <3>2. CASE ~Invoke(t)
      <4>1. Works(t) BY <1>8, <3>2 DEF Engines, Running, Works
      <4> QED BY <1>0, <1>b, <4>1, WorkGoes DEF Moved, Returned
    <3> QED BY <3>1, <3>2
  <2>3. \A u \in Invocation : stage[u] = "new" => depth'[u] = depth[u]
    <3> SUFFICES ASSUME NEW u \in Invocation, stage[u] = "new" PROVE depth'[u] = depth[u] OBVIOUS
    <3>1. u # t BY <1>0, <2>2 DEF Calls
    <3> QED BY <1>a, <2>2, <3>1
  <2>4. NoNewCall BY <2>1, <2>3
  <2> QED BY <1>c, <1>d, <1>e, <2>1, <2>4
<1>9. CASE FilesChange
  BY <1>1, <1>9 DEF FilesChange, SaveReflex, EditFile, Delete, runVars, perceptVars
<1>10. CASE Restart
  <2>1. /\ depth' = [t \in Thread |-> 0] /\ UNCHANGED cands
        /\ stage' = [t \in DOMAIN stage |-> IF stage[t] = "new" THEN "new" ELSE "done"]
    BY <1>10 DEF Restart
  <2>2. Staged BY <1>0, <2>1 DEF Calls
  <2>3. \A t \in Invocation : depth'[t] = 0 BY <1>a, <2>1
  <2> QED BY <1>d, <2>1, <2>2, <2>3 DEF Calls
<1> QED BY <1>2, <1>3, <1>4, <1>5, <1>6, <1>7, <1>8, <1>9, <1>10 DEF Next

LEMMA EngineTypesStep == EngineTypes /\ [Next]_vars => EngineTypes'
BY StacksStep, FilesStep, CallsStep DEF EngineTypes

(* The engine never nests deeper than its limit, every frame is a run of a *)
(* flow that exists, a goroutine that invoked a reflex waits at that step, *)
(* and what is registered is a reflex in memory.                           *)
THEOREM EngineInvariant == Spec => []EngineTypes
<1>1. Init => EngineTypes BY StacksInit, FilesInit, CallsInit DEF EngineTypes
<1> QED BY <1>1, EngineTypesStep, PTL DEF Spec

-----------------------------------------------------------------------------
(* The semaphores: whoever works in an extension's flow holds it.          *)

Semaphores == {Def[f].ext : f \in Flow} \ {NoExt}

Held(t, d) ==
  LET fr == frame[t][d] IN
    d <= depth[t] /\ FlowOf(fr).ext # NoExt /\ fr.at \notin {"sem", "leave"}

Holding ==
  /\ sem = [e \in Semaphores |-> sem[e]]
  /\ \A t \in Thread, d \in Level : Held(t, d) => sem[FlowOf(frame[t][d]).ext] = <<t, d>>

LEMMA HeldIs ==
  ASSUME Stacks, NEW t \in Thread, NEW d \in Level, Held(t, d)
  PROVE  frame[t][d].flow \in Flow /\ FlowOf(frame[t][d]).ext \in Semaphores
<1>1. frame[t][d].flow \in Flow BY DEF Held, Stacks, IsRun
<1> QED BY <1>1 DEF Held, Semaphores, FlowOf

(* A step that frees nobody's semaphore and starts no work without it.     *)
LEMMA HoldingStep == EngineTypes /\ Holding /\ [Next]_vars => Holding'
<1> SUFFICES ASSUME EngineTypes, Holding, [Next]_vars PROVE Holding' OBVIOUS
<1>0. Stacks BY DEF EngineTypes
<1>1. CASE Quiet
  <2>1. UNCHANGED <<sem, depth, frame>> BY <1>1 DEF Quiet
  <2> QED BY <2>1 DEF Holding, Held
<1>2. ASSUME NEW t \in Thread, EntersOnly(t) PROVE Holding'
  <2>1. /\ depth' = [depth EXCEPT ![t] = depth[t] + 1] /\ depth[t] + 1 \in Level
        /\ \A u \in Thread, d \in Level : u # t \/ d # depth[t] + 1 => frame'[u][d] = frame[u][d]
        /\ frame'[t][depth[t] + 1].at \in {"leave", "step", "sem"}
        /\ frame'[t][depth[t] + 1].at = "step" => FlowOf(frame'[t][depth[t] + 1]).ext = NoExt
    BY <1>0, <1>2, EnterGoes DEF EntersOnly
  <2>2. UNCHANGED sem BY <1>2 DEF EntersOnly
  <2>3. ASSUME NEW u \in Thread, NEW d \in Level, Held(u, d)'
        PROVE  Held(u, d) /\ frame'[u][d] = frame[u][d]
    <3>1. ~(u = t /\ d = depth[t] + 1) BY <2>1, <2>3 DEF Held
    <3>2. frame'[u][d] = frame[u][d] BY <2>1, <3>1
    <3>3. depth[t] \in Nat /\ d \in Nat /\ depth'[t] = depth[t] + 1 /\ (u # t => depth'[u] = depth[u])
      BY <1>0, <2>1, WorkflowConstants DEF Stacks, Level
    <3>4. d <= depth'[u] BY <2>3 DEF Held
    <3>5. d <= depth[u] BY <3>1, <3>3, <3>4
    <3> QED BY <2>3, <3>2, <3>5 DEF Held
  <2> QED BY <2>2, <2>3, SMTT(30) DEF Holding
<1>3. ASSUME NEW t \in Thread, Works(t) PROVE Holding'
  <2>1. CASE Return(t)
    <3>1. Returned(t) BY <1>0, <2>1, ReturnGoes
    <3>2. sem' = [e \in DOMAIN sem |-> IF e \in Released(t) THEN Nobody ELSE sem[e]] BY <2>1 DEF Return
    <3>3. \A e \in Semaphores : sem[e] # <<t, depth[t]>> => sem'[e] = sem[e]
      BY <3>2 DEF Holding, Released
    <3>a. depth[t] > 0 /\ depth[t] \in Nat BY <1>0, <3>1, TopOf DEF Returned
    <3>b. depth'[t] = depth[t] - 1 /\ \A u \in Thread : u # t => depth'[u] = depth[u]
      BY <1>0, <3>1 DEF Returned, Stacks
    <3>4. ASSUME NEW u \in Thread, NEW d \in Level, Held(u, d)'
          PROVE  Held(u, d) /\ frame'[u][d].flow = frame[u][d].flow /\ <<u, d>> # <<t, depth[t]>>
      <4>0. d \in Nat /\ d > 0 /\ d <= depth'[u] BY <3>4 DEF Held, Level
      <4>1. CASE u # t \/ d < depth[t] - 1
        <5>1. frame'[u][d] = frame[u][d] BY <3>1, <4>1 DEF Returned
        <5>2. d <= depth[u] /\ <<u, d>> # <<t, depth[t]>> BY <3>a, <3>b, <4>0, <4>1
        <5> QED BY <3>4, <5>1, <5>2 DEF Held
      <4>2. CASE u = t /\ d = depth[t] - 1
        <5>1. depth[t] > 1 BY <3>a, <4>0, <4>2
        <5>2. /\ frame[t][d].at = "step" /\ frame'[t][d].flow = frame[t][d].flow
          BY <1>0, <2>1, <4>2, <5>1, ReturnGoes DEF Caller, CallerAfter
        <5>3. d <= depth[t] /\ d # depth[t] BY <3>a, <4>2
        <5>4. FlowOf(frame[t][d]).ext # NoExt BY <3>4, <4>2, <5>2 DEF Held, FlowOf
        <5> QED BY <4>2, <5>2, <5>3, <5>4 DEF Held
      <4>3. u = t => d <= depth[t] - 1 BY <3>b, <4>0
      <4> QED BY <3>a, <4>0, <4>1, <4>2, <4>3
    <3>5. ASSUME NEW u \in Thread, NEW d \in Level, Held(u, d)'
          PROVE  sem'[FlowOf(frame'[u][d]).ext] = <<u, d>>
      <4>1. Held(u, d) /\ FlowOf(frame'[u][d]) = FlowOf(frame[u][d]) /\ <<u, d>> # <<t, depth[t]>>
        BY <3>4, <3>5 DEF FlowOf
      <4>2. sem[FlowOf(frame[u][d]).ext] = <<u, d>> /\ FlowOf(frame[u][d]).ext \in Semaphores
        BY <1>0, <4>1, HeldIs DEF Holding
      <4> QED BY <3>3, <4>1, <4>2
    <3>6. sem' = [e \in Semaphores |-> sem'[e]] BY <3>2 DEF Holding
    <3> QED BY <3>5, <3>6 DEF Holding
  <2>2. ASSUME ~Return(t) PROVE Moved(t)
    BY <1>0, <1>3, <2>2, WorkGoes
  <2>3. ASSUME ~Return(t) PROVE \A u \in Thread, d \in Level : u # t \/ d # depth[t] =>
              (Held(u, d)' <=> Held(u, d)) /\ frame'[u][d] = frame[u][d]
    <3>1. Moved(t) BY <2>2, <2>3
    <3> QED BY <3>1 DEF Moved, Held
  <2>4. CASE AcquireExtSem(t)
    <3>1. Moved(t) /\ Top(t).at = "sem" BY <1>0, <2>4, AcquireGoes DEF Goes
    <3>2. ~Return(t) BY <3>1 DEF Return
    <3> DEFINE e == FlowOf(Top(t)).ext
    <3>3. sem[e] = Nobody /\ sem' = [sem EXCEPT ![e] = <<t, depth[t]>>] BY <2>4 DEF AcquireExtSem
    <3>4. FlowOf(New(t)) = FlowOf(Top(t)) BY <3>1 DEF Moved, FlowOf
    <3>5. ASSUME NEW u \in Thread, NEW d \in Level, Held(u, d)'
          PROVE  sem'[FlowOf(frame'[u][d]).ext] = <<u, d>>
      <4>1. CASE u = t /\ d = depth[t]
        <5>1. FlowOf(frame'[u][d]).ext = e BY <3>4, <4>1 DEF New
        <5>2. e \in Semaphores
          <6>1. e # NoExt BY <3>5, <5>1 DEF Held
          <6>2. Top(t).flow \in Flow BY <3>1 DEF Moved, IsRun
          <6> QED BY <6>1, <6>2 DEF Semaphores, FlowOf
        <5>3. sem'[e] = <<t, depth[t]>> BY <3>3, <5>2 DEF Holding
        <5> QED BY <4>1, <5>1, <5>3
      <4>2. CASE u # t \/ d # depth[t]
        <5>1. Held(u, d) /\ frame'[u][d] = frame[u][d] BY <2>3, <3>2, <3>5, <4>2
        <5>2. sem[FlowOf(frame[u][d]).ext] = <<u, d>> /\ FlowOf(frame[u][d]).ext \in Semaphores
          BY <1>0, <5>1, HeldIs DEF Holding
        <5>3. FlowOf(frame[u][d]).ext # e
          <6>1. \A a, b : Len(<<a, b>>) = 2 OBVIOUS
          <6>2. <<u, d>> # Nobody BY <6>1 DEF Nobody
          <6> HIDE DEF e
          <6> QED BY <3>3, <5>2, <6>2
        <5> QED BY <3>3, <5>1, <5>2, <5>3 DEF Holding
      <4> QED BY <4>1, <4>2
    <3>6. sem' = [x \in Semaphores |-> sem'[x]] BY <3>3 DEF Holding
    <3> QED BY <3>5, <3>6 DEF Holding
  <2>5. CASE ~Return(t) /\ ~AcquireExtSem(t)
    <3>1. UNCHANGED sem
      BY <1>3, <2>5 DEF Works, SemTimeout, RunStep, InvokesNothing, RetryWait, ContextDone, PipelineEnds,
         ReadCount, WriteCount, SaveReflexStats
    <3>2. Moved(t) BY <2>2, <2>5
    <3>3. New(t).at = "leave" \/ Top(t).at \notin {"sem", "leave"}
      <4>1. CASE SemTimeout(t) \/ ContextDone(t)
        BY <1>0, <4>1, FailGoes DEF Goes
      <4>2. CASE RunStep(t) \/ InvokesNothing(t)
        BY <1>0, <4>2, SettleGoes DEF Goes
      <4>3. CASE RetryWait(t) \/ PipelineEnds(t) \/ ReadCount(t) \/ WriteCount(t) \/ SaveReflexStats(t)
        BY <1>0, <4>3, WaitGoes, EndGoes, ReadGoes, WriteGoes, SaveGoes DEF Goes
      <4> QED BY <1>3, <2>5, <4>1, <4>2, <4>3 DEF Works
    <3>4. ASSUME NEW u \in Thread, NEW d \in Level, Held(u, d)'
          PROVE  Held(u, d) /\ frame'[u][d].flow = frame[u][d].flow
      <4>1. CASE u = t /\ d = depth[t]
        <5>1. New(t).flow = Top(t).flow /\ frame'[u][d] = New(t) /\ frame[u][d] = Top(t) /\ depth' = depth
          BY <3>2, <4>1 DEF Moved, New, Top
        <5> QED BY <3>3, <3>4, <5>1 DEF Held, FlowOf
      <4>2. CASE u # t \/ d # depth[t] BY <2>3, <2>5, <3>4, <4>2, SMTT(30)
      <4> QED BY <4>1, <4>2
    <3>5. \A u \in Thread, d \in Level : Held(u, d)' => sem'[FlowOf(frame'[u][d]).ext] = <<u, d>>
      BY <3>1, <3>4 DEF Holding, FlowOf
    <3> QED BY <3>1, <3>5 DEF Holding
  <2> QED BY <2>1, <2>4, <2>5
<1>4. CASE Updates \/ FilesChange
  <2>1. UNCHANGED <<sem, depth, frame>>
    BY <1>4 DEF Updates, FilesChange, SaveReflex, EditFile, Delete, runVars
  <2> QED BY <2>1 DEF Holding, Held
<1>5. CASE Restart
  <2>1. depth' = [t \in Thread |-> 0] /\ sem' = [e \in DOMAIN sem |-> Nobody] BY <1>5 DEF Restart
  <2>2. \A t \in Thread, d \in Level : ~Held(t, d)' BY <2>1 DEF Held, Level
  <2> QED BY <2>1, <2>2 DEF Holding
<1> QED BY <1>1, <1>2, <1>3, <1>4, <1>5, Steps

(* acquireExtSem: no two pipelines of an extension are in their steps at   *)
(* once, whichever goroutines run them, and also when one has given up     *)
(* waiting for another.                                                    *)
THEOREM ExtensionsRunOneAtATime == Spec => []OneRunPerExtension
<1>1. Init => Holding
  <2> SUFFICES ASSUME Init PROVE Holding OBVIOUS
  <2>1. depth = [t \in Thread |-> 0] /\ sem = [e \in Semaphores |-> Nobody]
    BY DEF Init, WorkflowInit, Semaphores
  <2>2. \A t \in Thread, d \in Level : ~Held(t, d) BY <2>1 DEF Held, Level
  <2>3. sem = [e \in Semaphores |-> sem[e]] BY <2>1
  <2> QED BY <2>2, <2>3 DEF Holding
<1>2. EngineTypes /\ Holding => OneRunPerExtension
  <2> SUFFICES ASSUME Holding, NEW x \in Inside, NEW y \in Inside, x # y
               PROVE  FlowOf(frame[x[1]][x[2]]).ext # FlowOf(frame[y[1]][y[2]]).ext
    BY DEF OneRunPerExtension
  <2>1. \A z \in Inside : /\ z[1] \in Thread /\ z[2] \in Level /\ z = <<z[1], z[2]>>
                          /\ Held(z[1], z[2])
    BY DEF Inside, Held
  <2>2. \A z \in Inside : sem[FlowOf(frame[z[1]][z[2]]).ext] = z BY <2>1, SMTT(30) DEF Holding
  <2> QED BY <2>2
<1> QED BY <1>1, <1>2, HoldingStep, EngineInvariant, PTL DEF Spec

-----------------------------------------------------------------------------
(* The fire counts: a name that is not muddled has one run at most, whose  *)
(* object is the registered one or the one that was, and what that run has *)
(* read and written agrees with the file.                                  *)

IsOf(n, t, d) == d <= depth[t] /\ FlowOf(frame[t][d]).name = n

OneRun(n) ==
  \A t, u \in Thread, d, e \in Level : IsOf(n, t, d) /\ IsOf(n, u, e) => t = u /\ d = e

RunCounts(n, fr) ==
  /\ fr.obj \in 1..Len(objects[n]) /\ registry[n] \in {0, fr.obj}
  /\ fr.at = "counted" => fr.seen = stats[n]
  /\ objects[n][fr.obj].count = IF fr.at = "save" THEN stats[n] + 1 ELSE stats[n]

RegisteredCounts(n) ==
  registry[n] # 0 => \/ objects[n][registry[n]].count = stats[n]
                     \/ \E t \in Thread, d \in Level : IsOf(n, t, d) /\ frame[t][d].at = "save"

Tallied(n) ==
  /\ stats[n] = fired[n]
  /\ OneRun(n)
  /\ \A t \in Thread, d \in Level : IsOf(n, t, d) => RunCounts(n, frame[t][d])
  /\ RegisteredCounts(n)

Tallies == \A n \in Name \ muddled : Tallied(n)

(* A step that leaves what a name's runs have counted as it is.            *)
Retells(n) ==
  /\ \A t \in Thread, d \in Level : IsOf(n, t, d)' =>
       /\ IsOf(n, t, d) /\ frame'[t][d].obj = frame[t][d].obj
       /\ \/ frame'[t][d] = frame[t][d]
          \/ frame[t][d].at # "save" /\ frame'[t][d].at \notin {"counted", "save"}
  /\ \A t \in Thread, d \in Level : IsOf(n, t, d) /\ frame[t][d].at = "save" =>
       IsOf(n, t, d)' /\ frame'[t][d].at = "save"

LEMMA Retold ==
  ASSUME NEW n \in Name, Tallied(n), Retells(n), objects'[n] = objects[n], registry'[n] \in {0, registry[n]},
         stats'[n] = stats[n], fired'[n] = fired[n]
  PROVE  Tallied(n)'
<1>1. stats'[n] = fired'[n] BY DEF Tallied
<1>2. OneRun(n)' BY DEF Tallied, OneRun, Retells
<1>3. ASSUME NEW t \in Thread, NEW d \in Level, IsOf(n, t, d)' PROVE RunCounts(n, frame[t][d])'
  <2>1. RunCounts(n, frame[t][d]) BY <1>3 DEF Retells, Tallied
  <2>2. /\ frame'[t][d].obj = frame[t][d].obj
        /\ \/ frame'[t][d] = frame[t][d]
           \/ frame[t][d].at # "save" /\ frame'[t][d].at \notin {"counted", "save"}
    BY <1>3 DEF Retells
  <2> QED BY <2>1, <2>2 DEF RunCounts
<1>4. RegisteredCounts(n)' BY DEF Tallied, RegisteredCounts, Retells
<1> QED BY <1>1, <1>2, <1>3, <1>4 DEF Tallied

LEMMA StillRetells ==
  ASSUME NEW n, UNCHANGED <<depth, frame>>
  PROVE  Retells(n)
BY DEF Retells, IsOf

LEMMA MovedIsOf ==
  ASSUME NEW t \in Thread, Moved(t), NEW n
  PROVE  /\ \A u \in Thread, d \in Level : IsOf(n, u, d)' <=> IsOf(n, u, d)
         /\ \A u \in Thread, d \in Level : frame'[u][d].obj = frame[u][d].obj
<1>1. ASSUME NEW u \in Thread, NEW d \in Level
      PROVE  frame'[u][d].flow = frame[u][d].flow /\ frame'[u][d].obj = frame[u][d].obj
  BY <1>1 DEF Moved, New, Top
<1>2. depth' = depth BY DEF Moved
<1> QED BY <1>1, <1>2 DEF IsOf, FlowOf

LEMMA MovedRetells ==
  ASSUME NEW t \in Thread, Moved(t), NEW n,
         ~IsOf(n, t, depth[t]) \/ (Top(t).at # "save" /\ New(t).at \notin {"counted", "save"})
  PROVE  Retells(n)
<1>1. /\ \A u \in Thread, d \in Level : IsOf(n, u, d)' <=> IsOf(n, u, d)
      /\ \A u \in Thread, d \in Level : frame'[u][d].obj = frame[u][d].obj
  BY MovedIsOf
<1>2. \A u \in Thread, d \in Level : u # t \/ d # depth[t] => frame'[u][d] = frame[u][d] BY DEF Moved
<1> QED BY <1>1, <1>2 DEF Retells, New, Top

LEMMA ReturnRetells ==
  ASSUME Stacks, NEW t \in Thread, Return(t), NEW n
  PROVE  Retells(n)
<1>1. Returned(t) BY ReturnGoes
<1>a. depth[t] > 0 /\ depth[t] \in Nat BY <1>1, TopOf DEF Returned
<1>b. depth'[t] = depth[t] - 1 /\ \A u \in Thread : u # t => depth'[u] = depth[u]
  BY <1>1 DEF Returned, Stacks
<1>2. ASSUME NEW u \in Thread, NEW d \in Level, IsOf(n, u, d)'
      PROVE  /\ IsOf(n, u, d) /\ frame'[u][d].obj = frame[u][d].obj
             /\ \/ frame'[u][d] = frame[u][d]
                \/ frame[u][d].at # "save" /\ frame'[u][d].at \notin {"counted", "save"}
  <2>0. d \in Nat /\ d > 0 /\ d <= depth'[u] BY <1>2 DEF IsOf, Level
  <2>1. CASE u # t \/ d < depth[t] - 1
    <3>1. frame'[u][d] = frame[u][d] BY <1>1, <2>1 DEF Returned
    <3>2. d <= depth[u] BY <1>a, <1>b, <2>0, <2>1
    <3> QED BY <1>2, <3>1, <3>2 DEF IsOf
  <2>2. CASE u = t /\ d = depth[t] - 1
    <3>1. depth[t] > 1 /\ d <= depth[t] BY <1>a, <2>0, <2>2
    <3>2. /\ frame[t][d].at = "step" /\ frame'[t][d].at \in {"step", "wait", "leave", "fired"}
          /\ frame'[t][d].flow = frame[t][d].flow /\ frame'[t][d].obj = frame[t][d].obj
      BY <2>2, <3>1, ReturnGoes DEF Caller, CallerAfter
    <3> QED BY <1>2, <2>2, <3>1, <3>2 DEF IsOf, FlowOf
  <2>3. u = t => d <= depth[t] - 1 BY <1>b, <2>0
  <2> QED BY <1>a, <2>0, <2>1, <2>2, <2>3
<1>3. ASSUME NEW u \in Thread, NEW d \in Level, IsOf(n, u, d), frame[u][d].at = "save"
      PROVE  IsOf(n, u, d)' /\ frame'[u][d].at = "save"
  <2>0. d \in Nat /\ d > 0 /\ d <= depth[u] BY <1>3 DEF IsOf, Level
  <2>1. CASE u # t BY <1>1, <1>3, <1>b, <2>1 DEF Returned, IsOf
  <2>2. CASE u = t
    <3>1. d # depth[t] BY <1>1, <1>3, <2>2 DEF Returned, Top
    <3>2. d # depth[t] - 1
      <4>1. d = depth[t] - 1 => depth[t] > 1 BY <1>a, <2>0
      <4>2. depth[t] > 1 => frame[t][depth[t] - 1].at = "step" BY ReturnGoes DEF Caller
      <4> QED BY <1>3, <2>2, <4>1, <4>2
    <3>3. d < depth[t] - 1 /\ d <= depth'[t] BY <1>a, <1>b, <2>0, <2>2, <3>1, <3>2
    <3>4. frame'[u][d] = frame[u][d] BY <1>1, <2>2, <3>3 DEF Returned
    <3> QED BY <1>3, <2>2, <3>3, <3>4 DEF IsOf
  <2> QED BY <2>1, <2>2
<1> QED BY <1>2, <1>3 DEF Retells

(* A name that nobody runs.                                                *)
LEMMA UnusedTallied ==
  ASSUME NEW n \in Name, \A t \in Thread, d \in Level : ~IsOf(n, t, d), stats[n] = fired[n],
         registry[n] # 0 => objects[n][registry[n]].count = stats[n]
  PROVE  Tallied(n)
BY DEF Tallied, OneRun, RegisteredCounts

LEMMA UnusedCount ==
  ASSUME NEW n \in Name, Tallied(n), ~InFlight(n)
  PROVE  /\ \A t \in Thread, d \in Level : ~IsOf(n, t, d)
         /\ stats[n] = fired[n] /\ (registry[n] # 0 => objects[n][registry[n]].count = stats[n])
BY DEF Tallied, RegisteredCounts, InFlight, IsOf, FlowOf

LEMMA EnterTallied ==
  ASSUME EngineTypes, NEW t \in Thread, EntersOnly(t), NEW n \in Name, Tallied(n), n \notin muddled'
  PROVE  Tallied(n)'
<1>k. PICK k : k = depth[t] + 1 OBVIOUS
<1>f. PICK fr : fr = frame'[t][k] OBVIOUS
<1>1. Stacks /\ Files BY DEF EngineTypes
<1>2. /\ depth' = [depth EXCEPT ![t] = k] /\ k \in Level
      /\ \A u \in Thread, d \in Level : u # t \/ d # k => frame'[u][d] = frame[u][d]
      /\ fr.at \in {"leave", "step", "sem"}
      /\ LET m == FlowOf(fr).name IN
           muddled' = IF InFlight(m) \/ fr.obj \notin {registry[m]} \ {0} THEN muddled \cup {m} ELSE muddled
  BY <1>1, <1>k, <1>f, EnterGoes DEF EntersOnly
<1>3. UNCHANGED <<objects, registry, stats, fired>> BY DEF EntersOnly, memoryVars
<1>4. depth[t] \in Nat /\ depth'[t] = k /\ \A u \in Thread : u # t => depth'[u] = depth[u]
  BY <1>1, <1>2, <1>k, WorkflowConstants DEF Stacks
<1>5. ~IsOf(n, t, k) BY <1>4, <1>k DEF IsOf
<1>6. ASSUME NEW u \in Thread, NEW d \in Level, u # t \/ d # k
      PROVE  (IsOf(n, u, d)' <=> IsOf(n, u, d)) /\ frame'[u][d] = frame[u][d]
  <2>1. frame'[u][d] = frame[u][d] BY <1>2, <1>6
  <2>2. d \in Nat BY DEF Level
  <2>3. d <= depth'[u] <=> d <= depth[u]
    <3>1. CASE u # t BY <1>4, <3>1
    <3>2. CASE u = t BY <1>4, <1>6, <1>k, <2>2, <3>2
    <3> QED BY <3>1, <3>2
  <2> QED BY <2>1, <2>3 DEF IsOf
<1>7. CASE FlowOf(fr).name # n
  <2>1. ~IsOf(n, t, k)' BY <1>7, <1>f DEF IsOf
  <2>2. Retells(n)
    <3>1. ASSUME NEW u \in Thread, NEW d \in Level PROVE IsOf(n, u, d)' <=> IsOf(n, u, d)
      BY <1>5, <1>6, <2>1
    <3>2. ASSUME NEW u \in Thread, NEW d \in Level, IsOf(n, u, d) PROVE frame'[u][d] = frame[u][d]
      BY <1>5, <1>6, <3>2
    <3> QED BY <3>1, <3>2 DEF Retells
  <2> QED BY <1>3, <2>2, Retold
<1>8. CASE FlowOf(fr).name = n
  <2>1. ~InFlight(n) /\ fr.obj = registry[n] /\ registry[n] # 0 BY <1>2, <1>8
  <2>2. /\ \A u \in Thread, d \in Level : ~IsOf(n, u, d)
        /\ stats[n] = fired[n] /\ objects[n][registry[n]].count = stats[n]
    BY <2>1, UnusedCount
  <2>3. registry[n] \in 1..Len(objects[n]) BY <1>1, <2>1, RegisteredFlow
  <2>4. \A u \in Thread, d \in Level : IsOf(n, u, d)' => u = t /\ d = k BY <1>6, <2>2
  <2>5. RunCounts(n, fr)' 
    <3>1. /\ fr.obj \in 1..Len(objects[n]) /\ registry[n] \in {0, fr.obj}
          /\ fr.at \notin {"counted", "save"} /\ objects[n][fr.obj].count = stats[n]
      BY <1>2, <2>1, <2>2, <2>3
    <3> QED BY <1>3, <3>1 DEF RunCounts
  <2>6. OneRun(n)' BY <2>4 DEF OneRun
  <2>7. RegisteredCounts(n)' BY <1>3, <2>2 DEF RegisteredCounts
  <2>8. \A u \in Thread, d \in Level : IsOf(n, u, d)' => RunCounts(n, frame[u][d])'
    BY <2>4, <2>5, <1>f
  <2> QED BY <1>3, <2>2, <2>6, <2>7, <2>8 DEF Tallied
<1> QED BY <1>7, <1>8

(* FireCount++ and the file: the three steps in which a run counts.        *)
LEMMA CountTallied ==
  ASSUME EngineTypes, NEW t \in Thread, ReadCount(t) \/ WriteCount(t) \/ SaveReflexStats(t),
         NEW n \in Name, Tallied(n), n \notin muddled'
  PROVE  Tallied(n)'
<1>k. PICK k : k = depth[t] OBVIOUS
<1>1. Stacks /\ Files BY DEF EngineTypes
<1>2. Moved(t) BY <1>1, ReadGoes, WriteGoes, SaveGoes DEF Goes
<1>3. k \in Level BY <1>2, <1>k DEF Moved
<1>4. FlowOf(Top(t)).name = n <=> IsOf(n, t, k)
  BY <1>1, <1>2, <1>k, TopOf DEF Moved, IsOf, Top
<1>5. UNCHANGED registry BY DEF ReadCount, WriteCount, SaveReflexStats, memoryVars
<1>6. CASE ~IsOf(n, t, k)
  <2>1. Retells(n) BY <1>2, <1>6, <1>k, MovedRetells
  <2>2. stats'[n] = stats[n] /\ fired'[n] = fired[n]
    <3>1. CASE SaveReflexStats(t)
      <4> DEFINE c == IF Top(t).obj = 0 THEN 1 ELSE Count(Top(t))
                 m == FlowOf(Top(t)).name
      <4>1. /\ stats' = [stats EXCEPT ![m] = c] \/ stats' = stats
            /\ fired' = [fired EXCEPT ![m] = fired[m] + 1]
        BY <3>1 DEF SaveReflexStats
      <4>2. m # n BY <1>4, <1>6
      <4> HIDE DEF c, m
      <4> QED BY <1>1, <4>1, <4>2 DEF Files
    <3>2. CASE ReadCount(t) \/ WriteCount(t) BY <3>2 DEF ReadCount, WriteCount, countVars
    <3> QED BY <3>1, <3>2
  <2>3. objects'[n] = objects[n]
    <3>1. CASE WriteCount(t) /\ Top(t).obj # 0
      <4> DEFINE m == FlowOf(Top(t)).name
                 a == Counted(objects[m], Top(t).obj, Top(t).seen + 1)
      <4>1. objects' = [objects EXCEPT ![m] = a] BY <3>1 DEF WriteCount, Counted
      <4>2. m # n BY <1>4, <1>6
      <4> HIDE DEF a, m
      <4> QED BY <1>1, <4>1, <4>2 DEF Files
    <3>2. CASE ~(WriteCount(t) /\ Top(t).obj # 0)
      BY <3>2 DEF WriteCount, ReadCount, SaveReflexStats, memoryVars
    <3> QED BY <3>1, <3>2
  <2> QED BY <1>5, <2>1, <2>2, <2>3, Retold
<1>7. CASE IsOf(n, t, k)
  <2>o. PICK o : o = Top(t).obj OBVIOUS
  <2>1. /\ o \in 1..Len(objects[n]) /\ registry[n] \in {0, o}
        /\ Top(t).at = "counted" => Top(t).seen = stats[n]
        /\ objects[n][o].count = IF Top(t).at = "save" THEN stats[n] + 1 ELSE stats[n]
        /\ stats[n] = fired[n]
    BY <1>3, <1>7, <1>k, <2>o DEF Tallied, RunCounts, Top
  <2>2. fired[n] \in Nat /\ IsList(objects[n]) BY <1>1 DEF Files
  <2>3. o # 0 /\ FlowOf(Top(t)).name = n BY <1>4, <1>7, <2>1
  <2>4. /\ \A u \in Thread, d \in Level : IsOf(n, u, d)' => u = t /\ d = k
        /\ IsOf(n, t, k)'
    <3>1. \A u \in Thread, d \in Level : IsOf(n, u, d)' <=> IsOf(n, u, d) BY <1>2, MovedIsOf
    <3> QED BY <1>3, <1>7, <3>1 DEF Tallied, OneRun
  <2>5. frame'[t][k] = New(t) /\ New(t).obj = o BY <1>2, <1>k, <2>o DEF Moved, New
  <2>f. PICK fr : fr = New(t) OBVIOUS
  <2>6. /\ Len(objects'[n]) = Len(objects[n])
        /\ stats'[n] = fired'[n]
        /\ fr.at = "counted" => fr.seen = stats'[n]
        /\ objects'[n][o].count = IF fr.at = "save" THEN stats'[n] + 1 ELSE stats'[n]
    <3>1. CASE ReadCount(t)
      <4>1. UNCHANGED <<objects, stats, fired>> BY <3>1 DEF ReadCount, memoryVars, countVars
      <4>2. Top(t).at = "fired" /\ fr.at = "counted" /\ fr.seen = Count(Top(t))
        BY <1>1, <2>f, <3>1, ReadGoes DEF Goes
      <4>3. Count(Top(t)) = objects[n][o].count BY <2>3, <2>o DEF Count
      <4> QED BY <2>1, <2>o, <4>1, <4>2, <4>3
    <3>2. CASE WriteCount(t)
      <4>1. UNCHANGED <<stats, fired>> BY <3>2 DEF WriteCount, countVars
      <4>2. Top(t).at = "counted" /\ fr.at = "save" BY <1>1, <2>f, <3>2, WriteGoes DEF Goes
      <4>3. objects'[n] = Counted(objects[n], o, Top(t).seen + 1)
        <5>1. objects' = [objects EXCEPT ![n] = Counted(objects[n], o, Top(t).seen + 1)]
          BY <2>3, <2>o, <3>2 DEF WriteCount, Counted
        <5> QED BY <1>1, <5>1 DEF Files
      <4>4. Len(objects'[n]) = Len(objects[n]) /\ objects'[n][o].count = Top(t).seen + 1
        BY <2>1, <2>2, <4>3, CountList
      <4> QED BY <2>1, <2>o, <4>1, <4>2, <4>4
    <3>3. CASE SaveReflexStats(t)
      <4>1. UNCHANGED objects BY <3>3 DEF SaveReflexStats, memoryVars
      <4>2. Top(t).at = "save" /\ fr.at = "leave" BY <1>1, <2>f, <3>3, SaveGoes DEF Goes
      <4>3. stats'[n] = Count(Top(t)) /\ fired'[n] = fired[n] + 1
        <5>1. stats' = [stats EXCEPT ![n] = Count(Top(t))] /\ fired' = [fired EXCEPT ![n] = fired[n] + 1]
          BY <2>3, <2>o, <3>3 DEF SaveReflexStats
        <5> QED BY <1>1, <5>1 DEF Files
      <4>4. Count(Top(t)) = objects[n][o].count BY <2>3, <2>o DEF Count
      <4> QED BY <2>1, <2>o, <4>1, <4>2, <4>3, <4>4
    <3> QED BY <3>1, <3>2, <3>3
  <2>7. RunCounts(n, frame[t][k])'
    <3>1. /\ fr.obj \in 1..Len(objects'[n]) /\ registry'[n] \in {0, fr.obj} /\ fr.obj = o
      BY <1>5, <2>1, <2>5, <2>6, <2>f
    <3> QED BY <2>5, <2>6, <2>f, <3>1 DEF RunCounts
  <2>8. RegisteredCounts(n)' 
    <3> SUFFICES ASSUME registry'[n] # 0
                 PROVE  objects'[n][registry'[n]].count = stats'[n] \/ frame'[t][k].at = "save"
      BY <1>3, <2>4 DEF RegisteredCounts
    <3>1. registry'[n] = o BY <1>5, <2>1
    <3> QED BY <2>5, <2>6, <2>f, <3>1
  <2>9. OneRun(n)' BY <2>4 DEF OneRun
  <2>10. \A u \in Thread, d \in Level : IsOf(n, u, d)' => RunCounts(n, frame[u][d])' BY <2>4, <2>7
  <2> QED BY <2>6, <2>8, <2>9, <2>10 DEF Tallied
<1> QED BY <1>6, <1>7

LEMMA TalliesStep == EngineTypes /\ Tallies /\ [Next]_vars => Tallies'
<1> SUFFICES ASSUME EngineTypes, Tallies, [Next]_vars, NEW n \in Name, n \notin muddled'
             PROVE  Tallied(n)'
  BY DEF Tallies
<1>0. Stacks /\ Files BY DEF EngineTypes
<1>1. CASE Quiet
  <2>1. Tallied(n) BY <1>1 DEF Quiet, countVars, Tallies
  <2>2. UNCHANGED <<depth, frame, objects, registry, stats, fired>> BY <1>1 DEF Quiet, memoryVars, countVars
  <2> QED BY <2>1, <2>2, StillRetells, Retold
<1>2. ASSUME NEW t \in Thread, EntersOnly(t) PROVE Tallied(n)'
  <2>1. muddled \subseteq muddled' BY <1>0, <1>2, EnterGoes DEF EntersOnly
  <2> QED BY <1>2, <2>1, EnterTallied DEF Tallies
<1>3. ASSUME NEW t \in Thread, Works(t) PROVE Tallied(n)'
  <2>1. muddled \subseteq muddled' \/ muddled' = Name
    BY <1>3 DEF Works, AcquireExtSem, SemTimeout, RunStep, InvokesNothing, RetryWait, ContextDone, PipelineEnds,
       ReadCount, WriteCount, SaveReflexStats, Return, countVars
  <2>2. Tallied(n) BY <2>1 DEF Tallies
  <2>3. CASE ReadCount(t) \/ WriteCount(t) \/ SaveReflexStats(t) BY <2>2, <2>3, CountTallied
  <2>4. CASE ~(ReadCount(t) \/ WriteCount(t) \/ SaveReflexStats(t))
    <3>1. UNCHANGED <<objects, registry, stats, fired>>
      BY <1>3, <2>4 DEF Works, AcquireExtSem, SemTimeout, RunStep, InvokesNothing, RetryWait, ContextDone,
         PipelineEnds, Return, memoryVars, countVars
    <3>2. Retells(n)
      <4>1. CASE Return(t) BY <1>0, <4>1, ReturnRetells
      <4>2. CASE AcquireExtSem(t) \/ RetryWait(t)
        BY <1>0, <4>2, AcquireGoes, WaitGoes, MovedRetells DEF Goes
      <4>3. CASE SemTimeout(t) \/ ContextDone(t) BY <1>0, <4>3, FailGoes, MovedRetells DEF Goes
      <4>4. CASE RunStep(t) \/ InvokesNothing(t) BY <1>0, <4>4, SettleGoes, MovedRetells DEF Goes
      <4>5. CASE PipelineEnds(t) BY <1>0, <4>5, EndGoes, MovedRetells DEF Goes
      <4> QED BY <1>3, <2>4, <4>1, <4>2, <4>3, <4>4, <4>5 DEF Works
    <3> QED BY <2>2, <3>1, <3>2, Retold
  <2> QED BY <2>3, <2>4
<1>4. CASE Updates
  <2>1. /\ UNCHANGED <<depth, frame, stats, fired>>
        /\ muddled' = muddled \cup {x \in Modified : InFlight(x) \/ (registry[x] = 0 /\ stats[x] # 0)}
        /\ objects' = [x \in Name |-> IF x \in Modified THEN Append(objects[x], Made(disk[x], CountOf(x)))
                                      ELSE objects[x]]
        /\ registry' = [x \in Name |-> IF x \in Modified THEN Len(objects[x]) + 1
                                       ELSE IF x \in Removed THEN 0 ELSE registry[x]]
    BY <1>4 DEF Updates, CheckForUpdates, runVars
  <2>2. Tallied(n) BY <2>1 DEF Tallies
  <2>3. CASE n \notin Modified
    <3>1. objects'[n] = objects[n] /\ registry'[n] \in {0, registry[n]} BY <2>1, <2>3
    <3> QED BY <2>1, <2>2, <3>1, StillRetells, Retold
  <2>4. CASE n \in Modified
    <3>1. ~InFlight(n) /\ (registry[n] = 0 => stats[n] = 0) BY <2>1, <2>4
    <3>2. /\ \A t \in Thread, d \in Level : ~IsOf(n, t, d)
          /\ stats[n] = fired[n] /\ (registry[n] # 0 => objects[n][registry[n]].count = stats[n])
      BY <2>2, <3>1, UnusedCount
    <3>3. CountOf(n) = stats[n] BY <3>1, <3>2 DEF CountOf
    <3>4. IsList(objects[n]) /\ disk[n] \in Flow BY <1>0, <2>4 DEF Files, Modified
    <3>5. objects'[n] = Append(objects[n], Made(disk[n], stats[n])) /\ registry'[n] = Len(objects[n]) + 1
      BY <2>1, <2>4, <3>3
    <3>6. objects'[n][registry'[n]] = Made(disk[n], stats[n]) BY <3>4, <3>5, AppendList
    <3>7. \A t \in Thread, d \in Level : ~IsOf(n, t, d)' BY <2>1, <3>2 DEF IsOf
    <3>8. objects'[n][registry'[n]].count = stats'[n] BY <2>1, <3>6 DEF Made
    <3>9. stats'[n] = fired'[n] BY <2>1, <3>2
    <3> QED BY <3>7, <3>8, <3>9 DEF Tallied, OneRun, RegisteredCounts
  <2> QED BY <2>3, <2>4
<1>5. CASE FilesChange
  <2>1. PICK c \in Create : \/ SaveReflex(c[1], c[2]) \/ EditFile(c[1], c[2])
                            \/ Delete(c[1]) \/ EditFile(c[1], NoFlow)
    BY <1>5 DEF FilesChange
  <2>2. c[1] \in Name /\ c[2] \in Flow BY PerceptConstants
  <2> DEFINE m == c[1]
  <2>3. CASE SaveReflex(m, c[2])
    <3>1. /\ UNCHANGED <<depth, frame, stats, fired>>
          /\ objects' = [objects EXCEPT ![m] = Append(objects[m], Made(c[2], 0))]
          /\ registry' = [registry EXCEPT ![m] = Len(objects[m]) + 1]
          /\ muddled' = IF InFlight(m) \/ stats[m] # 0 THEN muddled \cup {m} ELSE muddled
      BY <2>3 DEF SaveReflex, runVars
    <3>2. Tallied(n) BY <3>1 DEF Tallies
    <3> HIDE DEF m
    <3>3. CASE n # m
      <4>1. objects'[n] = objects[n] /\ registry'[n] = registry[n] BY <1>0, <3>1, <3>3 DEF Files
      <4> QED BY <3>1, <3>2, <4>1, StillRetells, Retold
    <3>4. CASE n = m
      <4>1. ~InFlight(n) /\ stats[n] = 0 BY <3>1, <3>4
      <4>2. (\A t \in Thread, d \in Level : ~IsOf(n, t, d)) /\ stats[n] = fired[n] BY <3>2, <4>1, UnusedCount
      <4>3. IsList(objects[n]) BY <1>0 DEF Files
      <4>4. objects'[n] = Append(objects[n], Made(c[2], 0)) /\ registry'[n] = Len(objects[n]) + 1
        BY <1>0, <3>1, <3>4 DEF Files
      <4>5. objects'[n][registry'[n]] = Made(c[2], 0) BY <2>2, <4>3, <4>4, AppendList
      <4>6. objects'[n][registry'[n]].count = stats'[n]
        <5>1. Made(c[2], 0).count = 0 BY DEF Made
        <5>2. stats'[n] = 0 BY <3>1, <4>1
        <5> QED BY <4>5, <5>1, <5>2
      <4>7. \A t \in Thread, d \in Level : ~IsOf(n, t, d)' BY <3>1, <4>2 DEF IsOf
      <4>8. stats'[n] = fired'[n] BY <3>1, <4>2
      <4> QED BY <4>6, <4>7, <4>8 DEF Tallied, OneRun, RegisteredCounts
    <3> QED BY <3>3, <3>4
  <2>4. CASE EditFile(m, c[2]) \/ EditFile(m, NoFlow)
    <3>1. UNCHANGED <<depth, frame, objects, registry, stats, fired, muddled>>
      BY <2>4 DEF EditFile, memoryVars, runVars, countVars
    <3>2. Tallied(n) BY <3>1 DEF Tallies
    <3> QED BY <3>1, <3>2, StillRetells, Retold
  <2>5. CASE Delete(m)
    <3>1. /\ UNCHANGED <<depth, frame, objects, stats, fired, muddled>>
          /\ registry' = [registry EXCEPT ![m] = 0]
      BY <2>5 DEF Delete, runVars, countVars
    <3>2. Tallied(n) BY <3>1 DEF Tallies
    <3> HIDE DEF m
    <3>3. registry'[n] \in {0, registry[n]} BY <1>0, <3>1 DEF Files
    <3> QED BY <3>1, <3>2, <3>3, StillRetells, Retold
  <2> QED BY <2>1, <2>3, <2>4, <2>5
<1>6. CASE Restart
  <2>1. /\ depth' = [t \in Thread |-> 0] /\ UNCHANGED <<stats, fired, muddled>>
        /\ objects' = [x \in Name |-> First(x, stats)]
        /\ registry' = [x \in Name |-> IF Reads(x) THEN 1 ELSE 0]
    BY <1>6 DEF Restart, Load, countVars
  <2>2. stats[n] = fired[n] BY <2>1 DEF Tallies, Tallied
  <2>3. \A t \in Thread, d \in Level : ~IsOf(n, t, d)' BY <2>1 DEF IsOf, Level
  <2>4. disk[n] \in Flow \cup {NoFlow} BY <1>0 DEF Files
  <2>5. Reads(n) => First(n, stats)[1].count = stats[n] BY <2>4, MergedFlow, FirstList
  <2>6. registry'[n] # 0 => objects'[n][registry'[n]].count = stats'[n]
    <3>1. objects'[n] = First(n, stats) /\ registry'[n] = IF Reads(n) THEN 1 ELSE 0 BY <2>1
    <3> HIDE DEF First
    <3> QED BY <2>1, <2>5, <3>1
  <2>7. stats'[n] = fired'[n] BY <2>1, <2>2
  <2> QED BY <2>3, <2>6, <2>7 DEF Tallied, OneRun, RegisteredCounts
<1> QED BY <1>1, <1>2, <1>3, <1>4, <1>5, <1>6, Steps

(* recordStats and reflex-stats.json: as long as the runs of a reflex did  *)
(* not overlap one another or an edit of its file, and no save of its      *)
(* count failed or cut the file short, every run that ended well is        *)
(* counted once, through reloads, deletions and restarts at any moment.    *)
THEOREM FiresAreCountedOnce == Spec => []CountsKept
<1>1. Init => Tallies
  <2> SUFFICES ASSUME Init, NEW n \in Name PROVE Tallied(n) BY DEF Tallies
  <2>1. /\ depth = [t \in Thread |-> 0] /\ stats = [x \in Name |-> 0] /\ fired = [x \in Name |-> 0]
        /\ disk = [x \in Name |-> NoFlow]
        /\ objects = [x \in Name |-> First(x, stats)]
        /\ registry = [x \in Name |-> IF Reads(x) THEN 1 ELSE 0]
    BY DEF Init, WorkflowInit
  <2>2. \A t \in Thread, d \in Level : ~IsOf(n, t, d) BY <2>1 DEF IsOf, Level
  <2>3. Reads(n) => First(n, stats)[1].count = stats[n]
    <3>1. disk[n] \in Flow \cup {NoFlow} BY <2>1
    <3> QED BY <3>1, MergedFlow, FirstList
  <2>4. registry[n] # 0 => objects[n][registry[n]].count = stats[n]
    <3>1. objects[n] = First(n, stats) /\ registry[n] = IF Reads(n) THEN 1 ELSE 0 BY <2>1
    <3> HIDE DEF First
    <3> QED BY <2>3, <3>1
  <2>5. stats[n] = fired[n] BY <2>1
  <2> QED BY <2>2, <2>4, <2>5, UnusedTallied
<1>2. Tallies => CountsKept BY DEF Tallies, Tallied, CountsKept
<1> QED BY <1>1, <1>2, TalliesStep, EngineInvariant, PTL DEF Spec

-----------------------------------------------------------------------------
(* Escalations.  Until the percept's reflexes have answered, an escalation *)
(* that counts is on its way out of the goroutine's frames, none of which  *)
(* is retrying, or is what Execute has returned.                           *)

Leaving(p) ==
  IF depth[p] = 0 THEN outcome[p] = "escalate"
  ELSE /\ Top(p).at = "leave" /\ Top(p).res = "escalate"
       /\ \A d \in Level : d <= depth[p] => frame[p][d].tries = 0

Reaching(p) ==
  /\ stage[p] \in {"new", "match"} => depth[p] = 0 /\ p \notin raised
  /\ stage[p] \in {"new", "match", "reflexes"} => p \notin owed /\ fate[p] = "none"
  /\ stage[p] = "reflexes" /\ p \in raised => Leaving(p)
  /\ p \in owed => ~handled[p] /\ fate[p] \in {"none", "queued", "kept"}

Records ==
  /\ outcome = [t \in Thread |-> outcome[t]]
  /\ handled = [p \in Percept |-> handled[p]] /\ fate = [p \in Percept |-> fate[p]]

Reach == Records /\ \A p \in Percept : Reaching(p)

EngineSame(p) ==
  /\ depth'[p] = depth[p] /\ outcome'[p] = outcome[p] /\ (p \in raised' => p \in raised)
  /\ \A d \in Level : frame'[p][d] = frame[p][d]

PerceptSame(p) ==
  /\ stage'[p] = stage[p] /\ fate'[p] = fate[p] /\ handled'[p] = handled[p]
  /\ p \in owed' => p \in owed

LEMMA SameReaching ==
  ASSUME Stacks, NEW p \in Percept, Reaching(p), EngineSame(p), PerceptSame(p)
  PROVE  Reaching(p)'
<1>1. depth[p] = 0 \/ depth[p] \in Level
  BY PerceptConstants, WorkflowConstants DEF Stacks, Level
<1>2. Leaving(p) => Leaving(p)' BY <1>1 DEF EngineSame, Leaving, Top
<1> QED BY <1>2 DEF Reaching, EngineSame, PerceptSame

LEMMA OthersSame ==
  ASSUME Stacks, Records, NEW t \in Thread, Works(t) \/ EntersOnly(t), NEW p \in Thread, p # t
  PROVE  EngineSame(p)
<1>1. CASE EntersOnly(t)
  <2>1. /\ depth' = [depth EXCEPT ![t] = depth[t] + 1]
        /\ \A d \in Level : frame'[p][d] = frame[p][d]
    BY <1>1, EnterGoes DEF EntersOnly
  <2>2. UNCHANGED <<outcome, raised>> BY <1>1 DEF EntersOnly
  <2>3. depth'[p] = depth[p] BY <2>1 DEF Stacks
  <2> QED BY <2>1, <2>2, <2>3 DEF EngineSame
<1>2. CASE Return(t)
  <2>1. Returned(t) BY <1>2, ReturnGoes
  <2>2. depth'[p] = depth[p] /\ \A d \in Level : frame'[p][d] = frame[p][d] BY <2>1 DEF Returned, Stacks
  <2>3. UNCHANGED raised BY <1>2 DEF Return
  <2>4. UNCHANGED outcome \/ outcome' = [outcome EXCEPT ![t] = Top(t).res] BY <1>2 DEF Return
  <2>5. outcome'[p] = outcome[p] BY <2>4 DEF Records
  <2> QED BY <2>2, <2>3, <2>5 DEF EngineSame
<1>3. CASE Works(t) /\ ~Return(t)
  <2>1. Moved(t) BY <1>3, WorkGoes
  <2>2. depth'[p] = depth[p] /\ \A d \in Level : frame'[p][d] = frame[p][d] BY <2>1 DEF Moved
  <2>3. UNCHANGED outcome
    BY <1>3 DEF Works, AcquireExtSem, SemTimeout, RunStep, InvokesNothing, RetryWait, ContextDone, PipelineEnds,
       ReadCount, WriteCount, SaveReflexStats
  <2>4. raised' \subseteq raised \cup {t}
    <3>1. CASE RunStep(t) \/ InvokesNothing(t) BY <3>1, SettleGoes DEF Escalates
    <3>2. CASE ~(RunStep(t) \/ InvokesNothing(t))
      BY <1>3, <3>2 DEF Works, AcquireExtSem, SemTimeout, RetryWait, ContextDone, PipelineEnds,
         ReadCount, WriteCount, SaveReflexStats
    <3> QED BY <3>1, <3>2
  <2> QED BY <2>2, <2>3, <2>4 DEF EngineSame
<1> QED BY <1>1, <1>2, <1>3

(* The goroutine's own steps while it is running a reflex.                 *)
LEMMA OwnReaching ==
  ASSUME Stacks, Records, NEW p \in Percept, Reaching(p), depth[p] > 0,
         Works(p) \/ EntersOnly(p), PerceptSame(p)
  PROVE  Reaching(p)'
<1>0. p \in Thread BY PerceptConstants
<1>1. stage[p] \notin {"new", "match"} BY DEF Reaching
<1> SUFFICES ASSUME stage[p] = "reflexes", p \in raised' PROVE Leaving(p)'
  BY <1>1 DEF Reaching, PerceptSame
<1>2. depth[p] \in Level /\ depth[p] \in Nat BY <1>0, TopOf
<1>3. CASE p \in raised
  <2>1. Leaving(p) BY <1>3 DEF Reaching
  <2>2. Top(p).at = "leave" /\ Top(p).res = "escalate" /\ \A d \in Level : d <= depth[p] => frame[p][d].tries = 0
    BY <2>1 DEF Leaving
  <2>3. Return(p)
    <3>1. ~EntersOnly(p) BY <2>2 DEF EntersOnly, Enters
    <3> QED BY <2>2, <3>1 DEF Works, AcquireExtSem, SemTimeout, RunStep, InvokesNothing, AtStep, RetryWait,
            ContextDone, PipelineEnds, ReadCount, WriteCount, SaveReflexStats
  <2>4. depth'[p] = depth[p] - 1 BY <1>0, <2>3 DEF Return, Stacks
  <2>5. CASE depth[p] = 1
    <3>1. outcome' = [outcome EXCEPT ![p] = Top(p).res] BY <2>3, <2>5 DEF Return
    <3>2. outcome'[p] = "escalate" BY <1>0, <2>2, <3>1 DEF Records
    <3> QED BY <2>4, <2>5, <3>2 DEF Leaving
  <2>6. CASE depth[p] > 1
    <3>1. /\ depth[p] - 1 \in Level /\ IsRun(Caller(p))
          /\ CallerAfter(p) = Settled(Caller(p), InvokeResult(Top(p).res))
          /\ \A d \in Level : d < depth[p] - 1 => frame'[p][d] = frame[p][d]
      BY <1>0, <2>3, <2>6, ReturnGoes DEF Returned
    <3>2. InvokeResult(Top(p).res) = "escalate" BY <2>2 DEF InvokeResult
    <3>3. Caller(p).tries = 0 BY <1>2, <2>2, <3>1 DEF Caller
    <3>4. CallerAfter(p).at = "leave" /\ CallerAfter(p).res = "escalate" /\ CallerAfter(p).tries = 0
      BY <3>1, <3>2, <3>3, SettledIs
    <3>5. Top(p)' = CallerAfter(p) BY <2>4 DEF Top, CallerAfter
    <3>6. ASSUME NEW d \in Level, d <= depth'[p] PROVE frame'[p][d].tries = 0
      <4>1. d \in Nat BY DEF Level
      <4>2. CASE d = depth[p] - 1 BY <3>4, <4>2 DEF CallerAfter
      <4>3. CASE d # depth[p] - 1
        <5>1. d < depth[p] - 1 /\ d <= depth[p] BY <1>2, <2>4, <3>6, <4>1, <4>3
        <5> QED BY <2>2, <3>1, <5>1
      <4> QED BY <4>2, <4>3
    <3>7. depth'[p] # 0 BY <1>2, <2>4, <2>6
    <3> QED BY <3>4, <3>5, <3>6, <3>7 DEF Leaving
  <2> QED BY <1>2, <2>5, <2>6
<1>4. CASE p \notin raised
  <2>1. RunStep(p) \/ InvokesNothing(p)
    BY <1>4 DEF EntersOnly, Works, AcquireExtSem, SemTimeout, RetryWait, ContextDone, PipelineEnds,
       ReadCount, WriteCount, SaveReflexStats, Return
  <2>2. PICK result \in Outcomes :
          /\ Moved(p) /\ Escalates(p, result)
          /\ result = "escalate" /\ Top(p).tries = 0 =>
               New(p).at = "leave" /\ New(p).res = "escalate" /\ New(p).tries = 0
    BY <1>0, <2>1, SettleGoes DEF Goes
  <2>3. result = "escalate" /\ \A d \in Level : d <= depth[p] => frame[p][d].tries = 0
    BY <1>4, <2>2 DEF Escalates
  <2>4. Top(p).tries = 0 BY <1>2, <2>3 DEF Top
  <2>5. New(p).at = "leave" /\ New(p).res = "escalate" /\ New(p).tries = 0 BY <2>2, <2>3, <2>4
  <2>6. depth' = depth /\ \A d \in Level : d # depth[p] => frame'[p][d] = frame[p][d]
    BY <1>0, <2>2 DEF Moved
  <2>7. Top(p)' = New(p) BY <2>6 DEF Top, New
  <2>8. \A d \in Level : d <= depth'[p] => frame'[p][d].tries = 0
    BY <2>3, <2>5, <2>6 DEF New
  <2>9. depth'[p] # 0 BY <1>2, <2>6
  <2> QED BY <2>5, <2>7, <2>8, <2>9 DEF Leaving
<1> QED BY <1>3, <1>4

LEMMA RecordsStep == EngineTypes /\ Records /\ [Next]_vars => Records'
<1> SUFFICES ASSUME EngineTypes, Records, [Next]_vars PROVE Records' OBVIOUS
<1>1. outcome' = [t \in Thread |-> outcome'[t]]
  <2>1. \/ UNCHANGED outcome
        \/ \E t, w : outcome' = [outcome EXCEPT ![t] = w]
        \/ outcome' = [t \in Thread |-> ""]
    <3>1. CASE UNCHANGED vars BY <3>1 DEF vars, workflowVars, runVars
    <3>2. CASE Restart BY <3>2 DEF Restart
    <3>3. ASSUME NEW t \in Thread, Engines(t) PROVE UNCHANGED outcome \/ \E w : outcome' = [outcome EXCEPT ![t] = w]
      BY <3>3 DEF Engines, Running, AcquireExtSem, SemTimeout, RunStep, Invoke, InvokesNothing, RetryWait, PipelineEnds,
         ReadCount, WriteCount, SaveReflexStats, Return
    <3>4. ASSUME NEW p \in Percept, Process(p) \/ TimesOut(p)
          PROVE  UNCHANGED outcome \/ \E w : outcome' = [outcome EXCEPT ![p] = w]
      BY <3>4 DEF Process, Receive, MatchPercept, TryReflex, ReflexReturned, NoReflex, FirePercept, Route, TimesOut,
         ContextDone, Engine, runVars
    <3>5. CASE \/ LoadAll /\ UNCHANGED <<workflowVars, triggerVars, perceptVars>>
               \/ RegisterAll \/ HalfMinute
               \/ (\E b \in Timed : Tick(b)) \/ (\E t \in Invocation : InvokeWorkflow(t))
               \/ FilesChange
      BY <3>5 DEF RegisterAll, HalfMinute, Tick, InvokeWorkflow, FilesChange, SaveReflex, EditFile, Delete,
         workflowVars, runVars
    <3> QED BY <3>1, <3>2, <3>3, <3>4, <3>5 DEF Next
  <2> QED BY <2>1 DEF Records
<1>2. /\ UNCHANGED handled \/ \E p, w : handled' = [handled EXCEPT ![p] = w]
      /\ UNCHANGED fate \/ \E p, w : fate' = [fate EXCEPT ![p] = w]
  <2>1. CASE UNCHANGED <<handled, fate>> BY <2>1
  <2>2. ASSUME NEW p \in Percept, Process(p)
        PROVE /\ UNCHANGED handled \/ \E q, w : handled' = [handled EXCEPT ![q] = w]
              /\ UNCHANGED fate \/ \E q, w : fate' = [fate EXCEPT ![q] = w]
    BY <2>2 DEF Process, Receive, MatchPercept, TryReflex, ReflexReturned, NoReflex, FirePercept, Route, HandledBy
  <2>3. UNCHANGED <<handled, fate>> \/ \E p \in Percept : Process(p)
    BY DEF Next, vars, perceptVars, TimesOut, InvokeWorkflow, Engines, FilesChange, Restart
  <2> QED BY <2>1, <2>2, <2>3
<1> QED BY <1>1, <1>2 DEF Records

(* The routing of a percept that a reflex did not handle.                  *)
LEMMA UnhandledGoesOn ==
  ASSUME NEW p, ~handled[p]
  PROVE  Destination(p) \in {"queued", "kept"}
<1>1. ~Answered(p) BY DEF Answered
<1>2. Len(<<"impulse", Origin[p].subtype>>) = 2 /\ Len(<<"impulse">>) = 1 /\ Len(<<"system">>) = 1
  OBVIOUS
<1>3. <<"bud">>[1] = "bud" /\ <<"inbox">>[1] = "inbox" /\ <<"impulse">>[1] = "impulse" /\ <<"system">>[1] = "system"
  OBVIOUS
<1>4. Source(p) \in {<<"impulse", Origin[p].subtype>>, <<"bud">>, <<"inbox">>} BY DEF Source
<1>5. <<"bud">> \notin {<<"impulse">>, <<"system">>} /\ <<"inbox">> \notin {<<"impulse">>, <<"system">>} BY <1>3
<1>6. <<"impulse", Origin[p].subtype>> \notin {<<"impulse">>, <<"system">>} BY <1>2
<1>7. ~Autonomous(p) BY <1>4, <1>5, <1>6 DEF Autonomous
<1> QED BY <1>1, <1>7 DEF Destination

LEMMA QuietSame ==
  ASSUME NEW p, UNCHANGED <<depth, frame, raised>>, outcome'[p] = outcome[p]
  PROVE  EngineSame(p)
BY DEF EngineSame

LEMMA ProcessReaching ==
  ASSUME EngineTypes, Reach, NEW p \in Percept, Process(p)
  PROVE  Reaching(p)'
<1>0. Stacks /\ Records /\ Reaching(p) /\ Calls /\ p \in Thread BY PerceptConstants DEF EngineTypes, Reach
<1>a. \A s : NextStage(p, s) => stage'[p] = s BY <1>0 DEF NextStage, Calls
<1>1. CASE Receive(p)
  <2>1. UNCHANGED <<depth, frame, raised, outcome, fate, handled, owed>> /\ stage[p] = "new" /\ stage'[p] = "match"
    BY <1>1, <1>a DEF Receive, runVars
  <2> QED BY <1>0, <2>1 DEF Reaching
<1>2. CASE MatchPercept(p)
  <2>1. UNCHANGED <<depth, frame, raised, outcome, fate, handled, owed>> /\ stage[p] = "match" /\ stage'[p] = "reflexes"
    BY <1>2, <1>a DEF MatchPercept, Engine, runVars
  <2> QED BY <1>0, <2>1 DEF Reaching
<1>3. CASE TryReflex(p)
  <2>1. /\ stage[p] = "reflexes" /\ depth[p] = 0 /\ outcome[p] = ""
        /\ UNCHANGED <<raised, stage, fate, handled, owed>>
    BY <1>3 DEF TryReflex, Trying
  <2>2. p \notin raised BY <1>0, <2>1 DEF Reaching, Leaving
  <2> QED BY <1>0, <2>1, <2>2 DEF Reaching
<1>4. CASE ReflexReturned(p)
  <2>1. /\ stage[p] = "reflexes" /\ depth[p] = 0 /\ outcome[p] # "" /\ UNCHANGED <<depth, raised, fate>>
        /\ owed' = IF p \in raised THEN owed \cup {p} ELSE owed
    BY <1>4 DEF ReflexReturned
  <2>2. p \notin owed /\ fate[p] = "none" /\ (p \in raised => outcome[p] = "escalate")
    BY <1>0, <2>1 DEF Reaching, Leaving
  <2>3. CASE outcome[p] = "failed"
    <3>1. UNCHANGED <<stage, handled>> BY <1>4, <2>3 DEF ReflexReturned
    <3>2. p \notin raised BY <2>2, <2>3
    <3> QED BY <1>0, <2>1, <2>2, <3>1, <3>2 DEF Reaching
  <2>4. CASE outcome[p] # "failed"
    <3>1. stage'[p] = "triggers" /\ handled' = [handled EXCEPT ![p] = (outcome[p] # "escalate")]
      BY <1>4, <1>a, <2>4 DEF ReflexReturned, HandledBy
    <3>2. handled'[p] = (outcome[p] # "escalate") BY <1>0, <3>1 DEF Records
    <3> QED BY <2>1, <2>2, <3>1, <3>2 DEF Reaching
  <2> QED BY <2>3, <2>4
<1>5. CASE NoReflex(p)
  <2>1. /\ stage[p] = "reflexes" /\ stage'[p] = "triggers" /\ UNCHANGED <<owed, fate>>
    BY <1>5, <1>a DEF NoReflex, Trying, HandledBy
  <2> QED BY <1>0, <2>1 DEF Reaching
<1>6. CASE FirePercept(p)
  <2>1. stage[p] = "triggers" /\ UNCHANGED <<stage, handled, fate, owed>> BY <1>6 DEF FirePercept
  <2> QED BY <1>0, <2>1 DEF Reaching
<1>7. CASE Route(p)
  <2>1. /\ stage'[p] = "done" /\ fate' = [fate EXCEPT ![p] = Destination(p)] /\ UNCHANGED <<handled, owed>>
    BY <1>7, <1>a DEF Route
  <2>2. fate'[p] = Destination(p) BY <1>0, <2>1 DEF Records
  <2> QED BY <1>0, <2>1, <2>2, UnhandledGoesOn DEF Reaching
<1> QED BY <1>1, <1>2, <1>3, <1>4, <1>5, <1>6, <1>7 DEF Process

LEMMA ProcessOthers ==
  ASSUME EngineTypes, Records, NEW q \in Percept, Process(q), NEW p \in Percept, p # q
  PROVE  EngineSame(p) /\ PerceptSame(p)
<1>0. Stacks /\ Calls /\ p \in Thread /\ q \in Thread BY PerceptConstants DEF EngineTypes
<1>1. PerceptSame(p)
  <2>1. UNCHANGED stage \/ \E s : NextStage(q, s)
    BY DEF Process, Receive, MatchPercept, TryReflex, ReflexReturned, NoReflex, FirePercept, Route, HandledBy
  <2>2. UNCHANGED handled \/ \E w : handled' = [handled EXCEPT ![q] = w]
    BY DEF Process, Receive, MatchPercept, TryReflex, ReflexReturned, NoReflex, FirePercept, Route, HandledBy
  <2>3. UNCHANGED fate \/ \E w : fate' = [fate EXCEPT ![q] = w]
    BY DEF Process, Receive, MatchPercept, TryReflex, ReflexReturned, NoReflex, FirePercept, Route, HandledBy
  <2>4. owed' \subseteq owed \cup {q}
    BY DEF Process, Receive, MatchPercept, TryReflex, ReflexReturned, NoReflex, FirePercept, Route
  <2>5. stage'[p] = stage[p] BY <1>0, <2>1 DEF Calls, NextStage
  <2>6. handled'[p] = handled[p] BY <2>2 DEF Records
  <2>7. fate'[p] = fate[p] BY <2>3 DEF Records
  <2> QED BY <2>4, <2>5, <2>6, <2>7 DEF PerceptSame
<1>2. EngineSame(p)
  <2>1. \/ UNCHANGED <<depth, frame, raised>> /\ (UNCHANGED outcome \/ outcome' = [outcome EXCEPT ![q] = ""])
        \/ TryReflex(q) \/ FirePercept(q)
    BY DEF Process, Receive, MatchPercept, ReflexReturned, NoReflex, Route, Engine, runVars
  <2>2. CASE UNCHANGED <<depth, frame, raised>> /\ (UNCHANGED outcome \/ outcome' = [outcome EXCEPT ![q] = ""])
    <3>1. outcome'[p] = outcome[p] BY <1>0, <2>2 DEF Records
    <3> QED BY <2>2, <3>1, QuietSame
  <2>3. CASE TryReflex(q)
    <3>1. depth[q] = 0 /\ UNCHANGED <<outcome, raised>> BY <2>3 DEF TryReflex, Trying
    <3>2. PICK o \in cands[q] : Push(q, o.obj, o.flow, Data[q]) \/ UNCHANGED <<depth, frame, muddled>>
      BY <2>3 DEF TryReflex
    <3>3. depth[q] <= MaxDepth BY <3>1, WorkflowConstants
    <3>4. o.obj \in Nat /\ o.flow \in Flow BY <1>0, <3>2 DEF Calls
    <3>5. Enters(q) \/ UNCHANGED <<depth, frame, muddled>> BY <3>1, <3>2, <3>3, <3>4 DEF Enters
    <3>6. UNCHANGED <<fileVars, memoryVars, sem, outcome, raised, stats, fired>> BY <2>3 DEF TryReflex
    <3> QED BY <1>0, <3>5, <3>6, OthersSame, QuietSame DEF EntersOnly
  <2>4. CASE FirePercept(q)
    <3>1. depth[q] = 0 /\ UNCHANGED <<fileVars, memoryVars, sem, outcome, raised, stats, fired>>
      BY <2>4 DEF FirePercept
    <3>2. (\E n, given : RunWorkflow(q, n, given)) \/ UNCHANGED <<depth, frame, muddled>> BY <2>4 DEF FirePercept
    <3>3. Enters(q) \/ UNCHANGED <<depth, frame, muddled>> BY <1>0, <3>1, <3>2, WorkflowEnters DEF EngineTypes
    <3> QED BY <1>0, <3>1, <3>3, OthersSame, QuietSame DEF EntersOnly
  <2> QED BY <2>1, <2>2, <2>3, <2>4
<1> QED BY <1>1, <1>2

LEMMA ReachStep == EngineTypes /\ Reach /\ [Next]_vars => Reach'
<1> SUFFICES ASSUME EngineTypes, Reach, [Next]_vars, NEW p \in Percept PROVE Reaching(p)'
  BY RecordsStep DEF Reach
<1>0. Stacks /\ Files /\ Calls /\ Records /\ Reaching(p) /\ p \in Thread BY PerceptConstants DEF EngineTypes, Reach
<1>a. UNCHANGED perceptVars => PerceptSame(p) BY DEF perceptVars, PerceptSame
<1>b. UNCHANGED runVars => EngineSame(p) BY DEF runVars, EngineSame
<1>1. CASE \/ UNCHANGED vars \/ FilesChange
           \/ LoadAll /\ UNCHANGED <<workflowVars, triggerVars, perceptVars>>
           \/ RegisterAll /\ UNCHANGED perceptVars
           \/ HalfMinute /\ UNCHANGED perceptVars
  <2>1. UNCHANGED runVars /\ UNCHANGED perceptVars
    BY <1>1 DEF vars, workflowVars, RegisterAll, HalfMinute, FilesChange, SaveReflex, EditFile, Delete
  <2> QED BY <1>0, <1>a, <1>b, <2>1, SameReaching
<1>2. ASSUME NEW t \in Thread, t # p, Enters(t) \/ UNCHANGED <<depth, frame, muddled>>,
             UNCHANGED <<fileVars, memoryVars, sem, outcome, raised, stats, fired>>, PerceptSame(p)
      PROVE  Reaching(p)'
  <2>1. EngineSame(p) BY <1>0, <1>2, OthersSame, QuietSame DEF EntersOnly
  <2> QED BY <1>0, <1>2, <2>1, SameReaching
<1>3. ASSUME NEW b \in Timed, Tick(b), UNCHANGED perceptVars PROVE Reaching(p)'
  <2>1. b \in Thread /\ b # p BY PerceptConstants, TriggerConstants
  <2>2. depth[b] = 0 /\ UNCHANGED <<fileVars, memoryVars, sem, outcome, raised, stats, fired>>
    BY <1>3 DEF Tick, Waits
  <2>3. RunWorkflow(b, Runs[b], {}) \/ UNCHANGED <<depth, frame, muddled>> BY <1>3 DEF Tick
  <2>4. Enters(b) \/ UNCHANGED <<depth, frame, muddled>> BY <1>0, <2>1, <2>2, <2>3, WorkflowEnters
  <2> QED BY <1>2, <1>3, <1>a, <2>1, <2>2, <2>4
<1>4. ASSUME NEW q \in Percept, Process(q) PROVE Reaching(p)'
  <2>1. CASE q = p BY <1>4, <2>1, ProcessReaching
  <2>2. CASE q # p BY <1>0, <1>4, <2>2, ProcessOthers, SameReaching
  <2> QED BY <2>1, <2>2
<1>5. ASSUME NEW t \in Thread, Works(t) \/ EntersOnly(t), depth[t] > 0, UNCHANGED perceptVars PROVE Reaching(p)'
  <2>1. CASE t = p BY <1>0, <1>5, <1>a, <2>1, OwnReaching
  <2>2. CASE t # p BY <1>0, <1>5, <1>a, <2>2, OthersSame, SameReaching
  <2> QED BY <2>1, <2>2
<1>6. ASSUME NEW q \in Percept, TimesOut(q) PROVE Reaching(p)'
  <2>1. q \in Thread /\ Works(q) /\ depth[q] > 0 /\ UNCHANGED perceptVars
    BY <1>6, PerceptConstants DEF TimesOut, Works, ContextDone
  <2> QED BY <1>5, <2>1
<1>7. ASSUME NEW t \in Invocation, InvokeWorkflow(t) PROVE Reaching(p)'
  <2>1. t \in Thread /\ t # p BY PerceptConstants
  <2>2. stage[t] = "new" /\ UNCHANGED <<fileVars, memoryVars, sem, outcome, raised, stats, fired>>
    BY <1>7 DEF InvokeWorkflow
  <2>3. depth[t] = 0 BY <1>0, <2>2 DEF Calls
  <2>4. RunWorkflow(t, Invokes[t].name, Invokes[t].params) BY <1>7 DEF InvokeWorkflow
  <2>5. Enters(t) \/ UNCHANGED <<depth, frame, muddled>> BY <1>0, <2>1, <2>3, <2>4, WorkflowEnters
  <2>6. PerceptSame(p)
    <3>1. NextStage(t, "done") /\ UNCHANGED <<handled, fate, owed>> BY <1>7 DEF InvokeWorkflow
    <3>2. stage'[p] = stage[p] BY <1>0, <2>1, <3>1 DEF NextStage, Calls
    <3> QED BY <3>1, <3>2 DEF PerceptSame
  <2> QED BY <1>2, <2>1, <2>2, <2>5, <2>6
<1>8. ASSUME NEW t \in Thread, Engines(t) PROVE Reaching(p)'
  <2>1. UNCHANGED perceptVars /\ depth[t] > 0
    BY <1>8 DEF Engines, Running, AcquireExtSem, SemTimeout, RunStep, Invoke, InvokesNothing, AtStep, RetryWait,
       PipelineEnds, ReadCount, WriteCount, SaveReflexStats, Return
  <2>2. Works(t) \/ EntersOnly(t)
    <3>1. CASE Invoke(t)
      <4>1. UNCHANGED <<fileVars, memoryVars, sem, outcome, raised, stats, fired>> BY <3>1 DEF Invoke
      <4> QED BY <1>0, <3>1, <4>1, InvokeEnters DEF EntersOnly
    <3>2. CASE ~Invoke(t) BY <1>8, <3>2 DEF Engines, Running, Works
    <3> QED BY <3>1, <3>2
  <2> QED BY <1>5, <2>1, <2>2
<1>9. CASE Restart
  <2>1. /\ depth' = [t \in Thread |-> 0] /\ raised' = {} /\ UNCHANGED <<handled, fate, owed>>
        /\ stage' = [t \in DOMAIN stage |-> IF stage[t] = "new" THEN "new" ELSE "done"]
    BY <1>9 DEF Restart
  <2>2. stage'[p] = IF stage[p] = "new" THEN "new" ELSE "done" BY <1>0, <2>1 DEF Calls
  <2> QED BY <1>0, <2>1, <2>2 DEF Reaching
<1> QED BY <1>1, <1>3, <1>4, <1>6, <1>7, <1>8, <1>9 DEF Next

(* escalate and when_missing: escalate, at any depth of invocation and     *)
(* through the deferred releases: the percept is not taken for handled and *)
(* is queued for the executive, or is the program's own thought.           *)
THEOREM EscalationsReachTheExecutive == Spec => []EscalationReachesExecutive
<1>1. Init => Reach
  <2> SUFFICES ASSUME Init PROVE Reach OBVIOUS
  <2>1. /\ depth = [t \in Thread |-> 0] /\ outcome = [t \in Thread |-> ""] /\ raised = {} /\ owed = {}
        /\ fate = [p \in Percept |-> "none"] /\ handled = [p \in Percept |-> FALSE]
    BY DEF Init, WorkflowInit
  <2>2. \A p \in Percept : Reaching(p) BY <2>1, PerceptConstants DEF Reaching
  <2>3. Records BY <2>1 DEF Records
  <2> QED BY <2>2, <2>3 DEF Reach
<1>2. Reach => EscalationReachesExecutive BY DEF Reach, Reaching, EscalationReachesExecutive
<1> QED BY <1>1, <1>2, ReachStep, EngineInvariant, PTL DEF Spec

-----------------------------------------------------------------------------
(* Schedules.  Half minutes of one minute.                                 *)

LEMMA HalfMinutes ==
  ASSUME NEW m \in Nat, NEW h \in Nat
  PROVE  /\ (2 * m) \div 2 = m /\ (2 * m + 1) \div 2 = m /\ h \div 2 \in Nat /\ h \div 2 <= h
         /\ (h + 1) \div 2 \in {h \div 2, h \div 2 + 1}
OBVIOUS

Clocks ==
  /\ now \in 0..MaxHalf /\ begun \in 0..now \cup {Never}
  /\ begun = Never => active = {}
  /\ tick = [b \in Timed |-> tick[b]] /\ lastFired = [b \in Timed |-> lastFired[b]]
  /\ firedIn = [b \in Timed |-> firedIn[b]] /\ busyAt = [b \in Timed |-> busyAt[b]]

(* A half minute at which a schedule was idle, and whose tick it has taken,*)
(* has made it fire in the minute if it was to.                            *)
WasDue(b, h) ==
  /\ begun < h /\ h <= now /\ h \notin busyAt[b] /\ ~(h = now /\ tick[b])
  /\ CronMatches(Cron[b], Calendar[h \div 2])

Kept(b) ==
  /\ firedIn[b] \in [Minute -> {0, 1}] /\ \A m \in Minute : firedIn[b][m] = 1 => m <= This
  /\ lastFired[b] \in 0..This \cup {Never} /\ (lastFired[b] = This <=> firedIn[b][This] = 1)
  /\ b \in active => \A h \in Nat : WasDue(b, h) => firedIn[b][h \div 2] = 1
  /\ busyAt[b] \subseteq 0..now /\ begun + 1 \notin busyAt[b]
  /\ tick[b] /\ depth[b] > 0 => now \in busyAt[b]
  /\ begun \in {Never, now} => depth[b] = 0 /\ ~tick[b]

Schedules == {b \in Timed : Kind[b] = "schedule"}

Timing == Clocks /\ \A b \in Schedules : Kept(b)

LEMMA ThisIs ==
  ASSUME Clocks
  PROVE  now \in Nat /\ This \in Minute /\ This \in Nat /\ This # Never /\ Never \notin 0..MaxHalf
<1>1. now \in Nat /\ now <= MaxHalf /\ MaxHalf \in Nat BY TriggerConstants DEF Clocks
<1>2. This \in 0..(MaxHalf \div 2) /\ This <= now BY <1>1 DEF This
<1> QED BY <1>1, <1>2, TriggerConstants DEF Never

(* A step that leaves a schedule's clock alone and does not run it.        *)
LEMMA StillKept ==
  ASSUME NEW b \in Timed, Kept(b), UNCHANGED <<active, now, begun>>, tick'[b] = tick[b],
         lastFired'[b] = lastFired[b], firedIn'[b] = firedIn[b], busyAt'[b] = busyAt[b],
         depth[b] = 0 => depth'[b] = 0, depth[b] \in Nat, depth'[b] \in Nat
  PROVE  Kept(b)'
<1>1. \A h \in Nat : WasDue(b, h)' => WasDue(b, h) BY DEF WasDue
<1>2. depth'[b] > 0 => depth[b] > 0 OBVIOUS
<1>3. This' = This BY DEF This
<1>4. /\ firedIn'[b] \in [Minute -> {0, 1}] /\ \A m \in Minute : firedIn'[b][m] = 1 => m <= This
      /\ lastFired'[b] \in 0..This \cup {Never} /\ (lastFired'[b] = This <=> firedIn'[b][This] = 1)
      /\ busyAt'[b] \subseteq 0..now' /\ begun' + 1 \notin busyAt'[b]
  BY DEF Kept
<1>5. b \in active' => \A h \in Nat : WasDue(b, h)' => firedIn'[b][h \div 2] = 1 BY <1>1 DEF Kept
<1>6. tick'[b] /\ depth'[b] > 0 => now' \in busyAt'[b] BY <1>2 DEF Kept
<1>7. begun' \in {Never, now'} => depth'[b] = 0 /\ ~tick'[b] BY DEF Kept
<1> QED BY <1>3, <1>4, <1>5, <1>6, <1>7 DEF Kept

(* What may put a timed behaviour to work.                                 *)
LEMMA IdleStays ==
  ASSUME EngineTypes, [Next]_vars, NEW b \in Timed, ~Tick(b), depth[b] = 0
  PROVE  depth'[b] = 0
<1>0. Stacks /\ Files /\ b \in Thread BY TriggerConstants, SMTT(30) DEF EngineTypes
<1> DEFINE Pushes(t) == depth' = [depth EXCEPT ![t] = depth[t] + 1] \/ UNCHANGED depth
<1>a. \A t, n, given : RunWorkflow(t, n, given) => Pushes(t) BY DEF RunWorkflow, Registered, FromFile, Push
<1>b. \A t \in Thread : t # b /\ Pushes(t) => depth'[b] = 0 BY <1>0 DEF Stacks
<1>1. CASE UNCHANGED depth BY <1>1
<1>2. CASE \/ UNCHANGED vars \/ FilesChange
           \/ LoadAll /\ UNCHANGED <<workflowVars, triggerVars, perceptVars>>
           \/ RegisterAll /\ UNCHANGED perceptVars
           \/ HalfMinute /\ UNCHANGED perceptVars
  BY <1>1, <1>2 DEF vars, workflowVars, runVars, RegisterAll, HalfMinute, FilesChange, SaveReflex, EditFile, Delete
<1>3. ASSUME NEW c \in Timed, Tick(c) PROVE depth'[b] = 0
  <2>1. (\E n, given : RunWorkflow(c, n, given)) \/ UNCHANGED depth BY <1>3 DEF Tick
  <2> QED BY <1>3, <1>a, <1>b, <2>1, TriggerConstants
<1>4. ASSUME NEW p \in Percept, Process(p) PROVE depth'[b] = 0
  <2>1. p \in Thread /\ p # b BY PerceptConstants
  <2>2. UNCHANGED depth \/ TryReflex(p) \/ FirePercept(p)
    BY <1>4 DEF Process, Receive, MatchPercept, ReflexReturned, NoReflex, Route, Engine, runVars
  <2>3. CASE TryReflex(p) BY <1>b, <2>1, <2>3 DEF TryReflex, Push
  <2>4. CASE FirePercept(p)
    <3>1. (\E n, given : RunWorkflow(p, n, given)) \/ UNCHANGED depth BY <2>4 DEF FirePercept
    <3> QED BY <1>a, <1>b, <2>1, <3>1
  <2> QED BY <2>2, <2>3, <2>4
<1>5. ASSUME NEW p \in Percept, TimesOut(p) PROVE depth'[b] = 0 BY <1>5 DEF TimesOut, ContextDone
<1>6. ASSUME NEW t \in Invocation, InvokeWorkflow(t) PROVE depth'[b] = 0
  BY <1>6, <1>a, <1>b, PerceptConstants DEF InvokeWorkflow
<1>7. ASSUME NEW t \in Thread, Engines(t) PROVE depth'[b] = 0
  <2>1. t # b
    BY <1>7 DEF Engines, Running, AcquireExtSem, SemTimeout, RunStep, Invoke, InvokesNothing, AtStep, RetryWait,
       PipelineEnds, ReadCount, WriteCount, SaveReflexStats, Return
  <2>2. CASE Invoke(t)
    <3>1. Pushes(t) BY <2>2 DEF Invoke, Registered, FromFile, Push
    <3> QED BY <1>b, <2>1, <3>1, SMTT(30)
  <2>3. CASE ~Invoke(t)
    <3>1. Works(t) BY <1>7, <2>3 DEF Engines, Running, Works
    <3> QED BY <1>0, <2>1, <3>1, WorkGoes DEF Moved, Returned, Stacks
  <2> QED BY <2>2, <2>3
<1>8. CASE Restart BY <1>0, <1>8 DEF Restart
<1> QED BY <1>2, <1>3, <1>4, <1>5, <1>6, <1>7, <1>8 DEF Next

LEMMA HalfMinuteKept ==
  ASSUME Clocks, Stacks, NEW b \in Schedules, Kept(b), HalfMinute
  PROVE  Kept(b)'
<1>0. b \in Timed /\ b \in Thread /\ depth[b] \in Nat
  BY TriggerConstants, WorkflowConstants DEF Schedules, Stacks
<1>1. /\ now < MaxHalf /\ active # {} /\ (b \in active /\ depth[b] = 0 => ~tick[b])
      /\ now' = now + 1 /\ UNCHANGED <<active, begun, lastFired, firedIn, depth>>
  BY <1>0 DEF HalfMinute, Waits, workflowVars, runVars
<1>2. busyAt'[b] = (IF depth[b] > 0 THEN busyAt[b] \cup {now + 1} ELSE busyAt[b]) /\ tick'[b] = (b \in active)
  BY <1>0 DEF HalfMinute
<1>3. now \in Nat /\ This \in Nat /\ This \in Minute /\ This # Never BY ThisIs
<1>4. This' \in {This, This + 1} /\ This' \in Nat
  <2>1. This' = (now + 1) \div 2 BY <1>1 DEF This
  <2> QED BY <1>3, <2>1, HalfMinutes DEF This
<1>5. begun # Never /\ begun \in 0..now BY <1>1 DEF Clocks
<1>7. now + 1 \in 0..MaxHalf BY <1>1, <1>3, TriggerConstants
<1>8. This' # Never /\ This' \in Minute
  <2>1. This' = (now + 1) \div 2 BY <1>1 DEF This
  <2>2. This' \in 0..(MaxHalf \div 2) BY <1>7, <2>1, TriggerConstants
  <2> QED BY <2>2, TriggerConstants DEF Never
<1>9. \A m \in Minute : m \in Nat BY TriggerConstants
<1>10. \A m \in Minute : firedIn'[b][m] = 1 => m <= This'
  <2>1. \A m \in Minute : firedIn[b][m] = 1 => m <= This BY DEF Kept
  <2> QED BY <1>1, <1>3, <1>4, <1>9, <2>1
<1>11. lastFired'[b] \in 0..This' \cup {Never} /\ (lastFired'[b] = This' <=> firedIn'[b][This'] = 1)
  <2>1. /\ lastFired[b] \in 0..This \cup {Never} /\ (lastFired[b] = This <=> firedIn[b][This] = 1)
        /\ \A m \in Minute : firedIn[b][m] = 1 => m <= This
    BY DEF Kept
  <2>2. CASE This' = This BY <1>1, <2>1, <2>2
  <2>3. CASE This' = This + 1
    <3>1. firedIn[b][This'] # 1 BY <1>3, <1>8, <2>1, <2>3
    <3>2. lastFired[b] # This' BY <1>3, <1>8, <2>1, <2>3
    <3>3. lastFired[b] \in 0..This' \cup {Never} BY <1>3, <2>1, <2>3
    <3> QED BY <1>1, <3>1, <3>2, <3>3
  <2> QED BY <1>4, <2>2, <2>3
<1>12. ASSUME b \in active', NEW h \in Nat, WasDue(b, h)' PROVE firedIn'[b][h \div 2] = 1
  <2>1. /\ begun < h /\ h <= now + 1 /\ h \notin busyAt[b] /\ ~(h = now + 1 /\ b \in active)
        /\ CronMatches(Cron[b], Calendar[h \div 2])
    BY <1>1, <1>2, <1>12 DEF WasDue
  <2>2. h <= now BY <1>1, <1>3, <1>12, <2>1
  <2>3. h = now => ~tick[b]
    <3>1. tick[b] /\ depth[b] > 0 => now \in busyAt[b] BY DEF Kept
    <3> QED BY <1>0, <1>1, <1>12, <2>1, <3>1
  <2>4. WasDue(b, h) BY <2>1, <2>2, <2>3 DEF WasDue
  <2> QED BY <1>1, <1>12, <2>4 DEF Kept
<1>13. busyAt'[b] \subseteq 0..now' /\ begun' + 1 \notin busyAt'[b]
  <2>1. busyAt[b] \subseteq 0..now /\ begun + 1 \notin busyAt[b] /\ (begun = now => depth[b] = 0) BY DEF Kept
  <2>2. busyAt'[b] \subseteq 0..now' BY <1>1, <1>2, <1>3, <2>1
  <2>3. begun + 1 = now + 1 => depth[b] = 0 BY <1>3, <1>5, <2>1
  <2> QED BY <1>0, <1>1, <1>2, <2>1, <2>2, <2>3
<1>14. tick'[b] /\ depth'[b] > 0 => now' \in busyAt'[b] BY <1>1, <1>2
<1>15. begun' \notin {Never, now'} BY <1>1, <1>3, <1>5
<1>16. firedIn'[b] \in [Minute -> {0, 1}] BY <1>1 DEF Kept
<1> QED BY <1>10, <1>11, <1>12, <1>13, <1>14, <1>15, <1>16 DEF Kept

LEMMA TickKept ==
  ASSUME Clocks, Stacks, Stacks', NEW b \in Schedules, Kept(b), Tick(b)
  PROVE  Kept(b)'
<1>0. b \in Timed /\ b \in Thread /\ Kind[b] = "schedule" BY TriggerConstants DEF Schedules
<1>1. tick[b] /\ UNCHANGED <<active, now, begun, busyAt>> /\ tick' = [tick EXCEPT ![b] = FALSE] BY DEF Tick
<1>2. ~tick'[b] BY <1>0, <1>1 DEF Clocks
<1>3. begun \notin {Never, now} BY <1>1 DEF Kept
<1>4. now \in Nat /\ This \in Nat /\ This \in Minute /\ This # Never /\ This' = This BY <1>1, ThisIs DEF This
<1>5. busyAt'[b] \subseteq 0..now' /\ begun' + 1 \notin busyAt'[b] BY <1>1 DEF Kept
<1>6. /\ firedIn[b] \in [Minute -> {0, 1}] /\ \A m \in Minute : firedIn[b][m] = 1 => m <= This
      /\ lastFired[b] \in 0..This \cup {Never} /\ (lastFired[b] = This <=> firedIn[b][This] = 1)
      /\ b \in active => \A h \in Nat : WasDue(b, h) => firedIn[b][h \div 2] = 1
  BY DEF Kept
<1>7. Due(b) <=> CronMatches(Cron[b], Calendar[This]) /\ lastFired[b] # This
  BY <1>0 DEF Due, ScheduleDue
<1>8. \A h \in Nat : WasDue(b, h)' => WasDue(b, h) \/ (h = now /\ CronMatches(Cron[b], Calendar[This]))
  BY <1>1 DEF WasDue, This
<1>9. CASE Due(b)
  <2>1. lastFired' = [lastFired EXCEPT ![b] = This] /\ firedIn' = [firedIn EXCEPT ![b][This] = firedIn[b][This] + 1]
    BY <1>9 DEF Tick
  <2>2. firedIn[b][This] = 0 BY <1>4, <1>6, <1>7, <1>9
  <2>3. lastFired'[b] = This BY <1>0, <2>1 DEF Clocks
  <2>4. firedIn'[b] = [firedIn[b] EXCEPT ![This] = 1]
    <3>1. firedIn'[b] = [firedIn[b] EXCEPT ![This] = firedIn[b][This] + 1] BY <1>0, <2>1 DEF Clocks
    <3> QED BY <2>2, <3>1
  <2>5. /\ firedIn'[b] \in [Minute -> {0, 1}] /\ firedIn'[b][This] = 1
        /\ \A m \in Minute : m # This => firedIn'[b][m] = firedIn[b][m]
    BY <1>4, <1>6, <2>4
  <2>6. \A m \in Minute : firedIn'[b][m] = 1 => m <= This BY <1>4, <1>6, <2>5
  <2>7. ASSUME b \in active, NEW h \in Nat, WasDue(b, h)' PROVE firedIn'[b][h \div 2] = 1
    <3>1. CASE h = now BY <2>5, <3>1 DEF This
    <3>2. CASE h # now
      <4>1. firedIn[b][h \div 2] = 1 BY <1>6, <1>8, <2>7, <3>2
      <4>2. h \div 2 \in Minute
        <5>1. h <= now /\ now <= MaxHalf /\ MaxHalf \in Nat BY <1>1, <2>7, TriggerConstants DEF WasDue, Clocks
        <5>2. h \div 2 \in 0..(MaxHalf \div 2) BY <1>4, <5>1
        <5> QED BY <5>2, TriggerConstants
      <4> QED BY <2>5, <4>1, <4>2
    <3> QED BY <3>1, <3>2
  <2> QED BY <1>1, <1>2, <1>3, <1>4, <1>5, <2>3, <2>5, <2>6, <2>7 DEF Kept
<1>10. CASE ~Due(b)
  <2>1. UNCHANGED <<lastFired, firedIn>> BY <1>10 DEF Tick
  <2>2. ASSUME b \in active, NEW h \in Nat, WasDue(b, h)' PROVE firedIn'[b][h \div 2] = 1
    <3>1. CASE WasDue(b, h) BY <1>6, <2>1, <2>2, <3>1
    <3>2. CASE h = now /\ CronMatches(Cron[b], Calendar[This])
      <4>1. firedIn[b][This] = 1 BY <1>6, <1>7, <1>10, <3>2
      <4> QED BY <2>1, <3>2, <4>1 DEF This
    <3> QED BY <1>8, <2>2, <3>1, <3>2
  <2> QED BY <1>1, <1>2, <1>3, <1>4, <1>5, <1>6, <2>1, <2>2 DEF Kept
<1> QED BY <1>9, <1>10

LEMMA ClocksStep == Clocks /\ [Next]_vars => Clocks'
<1> SUFFICES ASSUME Clocks, [Next]_vars PROVE Clocks' OBVIOUS
<1>1. CASE UNCHANGED triggerVars BY <1>1 DEF Clocks, triggerVars
<1>2. CASE RegisterAll
  <2>1. begun' = now /\ UNCHANGED <<now, tick, lastFired, firedIn, busyAt>> BY <1>2 DEF RegisterAll
  <2>2. now # Never /\ now \in 0..now BY ThisIs DEF Clocks
  <2> QED BY <2>1, <2>2 DEF Clocks
<1>3. CASE HalfMinute
  <2>1. /\ now < MaxHalf /\ active # {} /\ now' = now + 1 /\ UNCHANGED <<active, begun, lastFired, firedIn>>
        /\ tick' = [b \in Timed |-> b \in active]
        /\ busyAt' = [b \in Timed |-> IF depth[b] > 0 THEN busyAt[b] \cup {now + 1} ELSE busyAt[b]]
    BY <1>3 DEF HalfMinute
  <2>2. now' \in 0..MaxHalf /\ begun' \in 0..now' BY <2>1, TriggerConstants DEF Clocks
  <2>3. tick' = [b \in Timed |-> tick'[b]] /\ busyAt' = [b \in Timed |-> busyAt'[b]] BY <2>1
  <2>4. begun' # Never BY <2>1 DEF Clocks
  <2> QED BY <2>1, <2>2, <2>3, <2>4 DEF Clocks
<1>4. ASSUME NEW c \in Timed, Tick(c) PROVE Clocks'
  <2>1. /\ tick' = [tick EXCEPT ![c] = FALSE] /\ UNCHANGED <<active, now, begun, busyAt>>
        /\ \/ UNCHANGED <<lastFired, firedIn>>
           \/ /\ lastFired' = [lastFired EXCEPT ![c] = This]
              /\ firedIn' = [firedIn EXCEPT ![c] = [firedIn[c] EXCEPT ![This] = firedIn[c][This] + 1]]
    BY <1>4 DEF Tick
  <2>2. tick' = [b \in Timed |-> tick'[b]] BY <2>1 DEF Clocks
  <2>3. lastFired' = [b \in Timed |-> lastFired'[b]] BY <2>1 DEF Clocks
  <2>4. firedIn' = [b \in Timed |-> firedIn'[b]] BY <2>1 DEF Clocks
  <2> QED BY <2>1, <2>2, <2>3, <2>4 DEF Clocks
<1>5. CASE Restart
  <2>1. /\ active' = {} /\ tick' = [b \in Timed |-> FALSE] /\ lastFired' = [b \in Timed |-> Never]
        /\ begun' = Never /\ firedIn' = [b \in Timed |-> [m \in Minute |-> 0]]
        /\ busyAt' = [b \in Timed |-> {}] /\ UNCHANGED now
    BY <1>5 DEF Restart
  <2>2. tick' = [b \in Timed |-> tick'[b]] /\ lastFired' = [b \in Timed |-> lastFired'[b]] BY <2>1
  <2>3. firedIn' = [b \in Timed |-> firedIn'[b]] /\ busyAt' = [b \in Timed |-> busyAt'[b]] BY <2>1
  <2> QED BY <2>1, <2>2, <2>3 DEF Clocks
<1>6. \/ UNCHANGED triggerVars \/ RegisterAll \/ HalfMinute
      \/ \E c \in Timed : Tick(c)
      \/ Restart
  BY DEF Next, vars, Process, Receive, MatchPercept, TryReflex, ReflexReturned, NoReflex, FirePercept, Route,
     TimesOut, InvokeWorkflow, Engines, FilesChange
<1> QED BY <1>1, <1>2, <1>3, <1>4, <1>5, <1>6

LEMMA TimingStep == EngineTypes /\ Timing /\ [Next]_vars => Timing'
<1> SUFFICES ASSUME EngineTypes, Timing, [Next]_vars, NEW b \in Schedules PROVE Kept(b)'
  BY ClocksStep DEF Timing
<1>0. /\ Stacks /\ Clocks /\ Kept(b) /\ b \in Timed /\ b \in Thread /\ Stacks' /\ Clocks'
  BY TriggerConstants, StacksStep, ClocksStep DEF EngineTypes, Timing, Schedules
<1>a. depth[b] \in Nat /\ depth'[b] \in Nat BY <1>0, WorkflowConstants DEF Stacks
<1>1. CASE UNCHANGED triggerVars
  <2>1. ~Tick(b)
    <3>1. tick' = tick BY <1>1 DEF triggerVars
    <3> QED BY <1>0, <3>1 DEF Tick, Clocks
  <2>2. depth[b] = 0 => depth'[b] = 0 BY <1>0, <2>1, IdleStays
  <2> QED BY <1>0, <1>1, <1>a, <2>2, StillKept DEF triggerVars
<1>2. CASE RegisterAll
  <2>1. begun = Never /\ begun' = now /\ UNCHANGED <<now, tick, lastFired, firedIn, busyAt, depth>>
    BY <1>2 DEF RegisterAll, workflowVars, runVars
  <2>2. depth[b] = 0 /\ ~tick[b] /\ now \in Nat BY <1>0, <2>1, ThisIs DEF Kept
  <2>3. This' = This BY <2>1 DEF This
  <2>4. \A h \in Nat : ~WasDue(b, h)' BY <2>1, <2>2 DEF WasDue
  <2>5. busyAt'[b] \subseteq 0..now' /\ begun' + 1 \notin busyAt'[b] BY <1>0, <2>1, <2>2 DEF Kept
  <2>6. /\ firedIn'[b] \in [Minute -> {0, 1}] /\ \A m \in Minute : firedIn'[b][m] = 1 => m <= This'
        /\ lastFired'[b] \in 0..This' \cup {Never} /\ (lastFired'[b] = This' <=> firedIn'[b][This'] = 1)
    BY <1>0, <2>1, <2>3 DEF Kept
  <2>7. depth'[b] = 0 /\ ~tick'[b] BY <2>1, <2>2
  <2> QED BY <2>4, <2>5, <2>6, <2>7 DEF Kept
<1>3. CASE HalfMinute BY <1>0, <1>3, HalfMinuteKept
<1>4. ASSUME NEW c \in Timed, Tick(c) PROVE Kept(b)'
  <2>1. CASE c = b BY <1>0, <1>4, <2>1, TickKept
  <2>2. CASE c # b
    <3>1. /\ tick' = [tick EXCEPT ![c] = FALSE] /\ UNCHANGED <<active, now, begun, busyAt>>
          /\ \/ UNCHANGED <<lastFired, firedIn>>
             \/ /\ lastFired' = [lastFired EXCEPT ![c] = This]
                /\ firedIn' = [firedIn EXCEPT ![c] = [firedIn[c] EXCEPT ![This] = firedIn[c][This] + 1]]
      BY <1>4 DEF Tick
    <3>2. tick'[b] = tick[b] /\ lastFired'[b] = lastFired[b] /\ firedIn'[b] = firedIn[b] /\ busyAt'[b] = busyAt[b]
      BY <1>0, <2>2, <3>1 DEF Clocks
    <3>3. Tick(b) => Kept(b)' BY <1>0, TickKept
    <3>4. ~Tick(b) => (depth[b] = 0 => depth'[b] = 0) BY <1>0, IdleStays
    <3> QED BY <1>0, <1>a, <3>1, <3>2, <3>3, <3>4, StillKept
  <2> QED BY <2>1, <2>2
<1>5. CASE Restart
  <2>1. /\ active' = {} /\ tick' = [c \in Timed |-> FALSE] /\ lastFired' = [c \in Timed |-> Never]
        /\ begun' = Never /\ firedIn' = [c \in Timed |-> [m \in Minute |-> 0]]
        /\ busyAt' = [c \in Timed |-> {}] /\ UNCHANGED now /\ depth' = [t \in Thread |-> 0]
    BY <1>5 DEF Restart
  <2>2. /\ ~tick'[b] /\ lastFired'[b] = Never /\ busyAt'[b] = {} /\ depth'[b] = 0
        /\ firedIn'[b] = [m \in Minute |-> 0]
    BY <1>0, <2>1
  <2>3. This' # Never /\ This' \in Minute
    <3>1. This' = This BY <2>1 DEF This
    <3> QED BY <1>0, <3>1, ThisIs
  <2>4. firedIn'[b] \in [Minute -> {0, 1}] /\ \A m \in Minute : firedIn'[b][m] # 1 BY <2>2
  <2> QED BY <2>1, <2>2, <2>3, <2>4 DEF Kept
<1>6. \/ UNCHANGED triggerVars \/ RegisterAll \/ HalfMinute
      \/ \E c \in Timed : Tick(c)
      \/ Restart
  BY DEF Next, vars, Process, Receive, MatchPercept, TryReflex, ReflexReturned, NoReflex, FirePercept, Route,
     TimesOut, InvokeWorkflow, Engines, FilesChange
<1> QED BY <1>1, <1>2, <1>3, <1>4, <1>5, <1>6

(* triggerSchedule: a tick that waits in the channel while the workflow is *)
(* running, ticks that are dropped, two ticks in one minute: no schedule   *)
(* runs twice in a minute, and it misses one only if it was running at     *)
(* both of that minute's ticks.                                            *)
THEOREM SchedulesAreKept == Spec => []ScheduleKept
<1>1. Init => Timing
  <2> SUFFICES ASSUME Init PROVE Timing OBVIOUS
  <2>1. /\ active = {} /\ now \in {0, 1} /\ begun = Never /\ depth = [t \in Thread |-> 0]
        /\ tick = [b \in Timed |-> FALSE] /\ lastFired = [b \in Timed |-> Never]
        /\ firedIn = [b \in Timed |-> [m \in Minute |-> 0]] /\ busyAt = [b \in Timed |-> {}]
    BY DEF Init, TriggerInit, WorkflowInit
  <2>2. Clocks
    <3>1. tick = [b \in Timed |-> tick[b]] /\ lastFired = [b \in Timed |-> lastFired[b]] BY <2>1
    <3>2. firedIn = [b \in Timed |-> firedIn[b]] /\ busyAt = [b \in Timed |-> busyAt[b]] BY <2>1
    <3>3. now \in 0..MaxHalf BY <2>1, TriggerConstants
    <3> QED BY <2>1, <3>1, <3>2, <3>3 DEF Clocks
  <2>3. This # Never /\ This \in Minute BY <2>2, ThisIs
  <2>4. ASSUME NEW b \in Schedules PROVE Kept(b)
    <3>1. b \in Timed /\ b \in Thread BY TriggerConstants DEF Schedules
    <3>2. /\ ~tick[b] /\ lastFired[b] = Never /\ busyAt[b] = {} /\ depth[b] = 0
          /\ firedIn[b] = [m \in Minute |-> 0]
      BY <2>1, <3>1
    <3>3. firedIn[b] \in [Minute -> {0, 1}] /\ \A m \in Minute : firedIn[b][m] # 1 BY <3>2
    <3> QED BY <2>1, <2>3, <3>2, <3>3 DEF Kept
  <2> QED BY <2>2, <2>4 DEF Timing
<1>2. Timing => ScheduleKept
  <2> SUFFICES ASSUME Timing, NEW b \in active, b \in Timed, Kind[b] = "schedule", NEW m \in Minute
               PROVE  /\ firedIn[b][m] <= 1
                      /\ CronMatches(Cron[b], Calendar[m]) /\ begun < 2 * m + 1 /\ now >= 2 * m + 2 =>
                           firedIn[b][m] = 1 \/ {2 * m, 2 * m + 1} \subseteq busyAt[b]
    BY DEF ScheduleKept
  <2>0. Kept(b) /\ Clocks /\ m \in Nat BY TriggerConstants DEF Timing, Schedules
  <2>1. firedIn[b][m] \in {0, 1} BY <2>0 DEF Kept
  <2>2. ASSUME CronMatches(Cron[b], Calendar[m]), begun < 2 * m + 1, now >= 2 * m + 2, firedIn[b][m] # 1
        PROVE  {2 * m, 2 * m + 1} \subseteq busyAt[b]
    <3>1. /\ 2 * m \in Nat /\ 2 * m + 1 \in Nat /\ (2 * m) \div 2 = m /\ (2 * m + 1) \div 2 = m
      BY <2>0, HalfMinutes
    <3>2. now \in Nat /\ begun \in Nat BY <2>0, TriggerConstants DEF Clocks, Never
    <3>3. 2 * m + 1 \in busyAt[b]
      <4>1. ~WasDue(b, 2 * m + 1) BY <2>0, <2>2, <3>1 DEF Kept
      <4>2. 2 * m + 1 <= now /\ 2 * m + 1 # now BY <2>2, <3>1, <3>2
      <4> QED BY <2>2, <3>1, <4>1, <4>2 DEF WasDue
    <3>4. begun < 2 * m
      <4>1. begun + 1 # 2 * m + 1 BY <2>0, <3>3 DEF Kept
      <4> QED BY <2>2, <3>1, <3>2, <4>1
    <3>5. 2 * m \in busyAt[b]
      <4>1. ~WasDue(b, 2 * m) BY <2>0, <2>2, <3>1 DEF Kept
      <4>2. 2 * m <= now /\ 2 * m # now BY <2>2, <3>1, <3>2
      <4> QED BY <2>2, <3>1, <3>4, <4>1, <4>2 DEF WasDue
    <3> QED BY <3>3, <3>5
  <2> QED BY <2>1, <2>2
<1> QED BY <1>1, <1>2, TimingStep, EngineInvariant, PTL DEF Spec

-----------------------------------------------------------------------------
(* The order the extensions are loaded in: what one requires, closed under *)
(* what that requires in turn.                                             *)

Requires(e) == ToSet(LoadDirs[e])
Names == DOMAIN LoadDirs

LEMMA LoadedAreTyped ==
  /\ Names \subseteq Extension
  /\ \A e \in Names : LoadDirs[e] \in Seq(Extension)
<1>1. Names = LoadableIn(SystemDir) \cup LoadableIn(UserDir) BY DEF Names, LoadDirs
<1>2. \A dir \in {SystemDir, UserDir} : LoadableIn(dir) \subseteq Extension /\ \A e \in LoadableIn(dir) : dir[e] \in Seq(Extension)
  BY ExtensionConstants DEF LoadableIn
<1>3. ASSUME NEW e \in Names PROVE LoadDirs[e] \in Seq(Extension)
  <2>1. LoadDirs[e] = IF e \in LoadableIn(UserDir) THEN UserDir[e] ELSE SystemDir[e] BY <1>1 DEF LoadDirs
  <2> QED BY <1>1, <1>2, <2>1
<1> QED BY <1>1, <1>2, <1>3

LEMMA RequiresTyped == ASSUME NEW e \in Names PROVE Requires(e) \subseteq Extension
BY LoadedAreTyped DEF Requires, ToSet

LEMMA DirectlyRequired ==
  ASSUME NEW e \in Names, NEW d \in Requires(e)
  PROVE  d \in Required(e)
BY RequiresTyped DEF Required, Requires

LEMMA RequiredIsClosed ==
  ASSUME NEW e, NEW c \in Required(e) \cap Names, NEW d \in Requires(c)
  PROVE  d \in Required(e)
<1>1. d \in Extension BY RequiresTyped
<1>2. ASSUME NEW S \in SUBSET Extension, ToSet(LoadDirs[e]) \subseteq S, Closed(S) PROVE d \in S
  <2>1. c \in S BY <1>2 DEF Required
  <2> QED BY <1>2, <2>1 DEF Closed, Requires, Names
<1> QED BY <1>1, <1>2 DEF Required

LEMMA RequiredGrows ==
  ASSUME NEW e, NEW c \in Required(e) \cap Names
  PROVE  Required(c) \subseteq Required(e)
<1>1. Required(e) \in SUBSET Extension BY DEF Required
<1>2. ToSet(LoadDirs[c]) \subseteq Required(e) BY RequiredIsClosed DEF Requires
<1>3. Closed(Required(e)) BY RequiredIsClosed DEF Closed, Names, Requires
<1> QED BY <1>1, <1>2, <1>3 DEF Required

(* What requires something that is not sound is not sound either.          *)
LEMMA UnsoundSpreads ==
  ASSUME NEW e \in Names, NEW d \in Requires(e) \cap Names, d \notin Sound
  PROVE  e \notin Sound
<1>1. PICK c \in (Required(d) \cup {d}) \cap Names : OnCycle(c) BY DEF Sound, Names
<1>2. d \in Required(e) BY DirectlyRequired
<1>3. c \in Required(e) BY <1>1, <1>2, RequiredGrows
<1> QED BY <1>1, <1>3 DEF Sound, Names

LEMMA CyclesAreUnsound ==
  ASSUME NEW e \in Names, NEW c \in (Required(e) \cup {e}) \cap Names, OnCycle(c)
  PROVE  e \notin Sound
BY DEF Sound, Names


(* The calls of dfs in progress, each waiting for the next; v is the state *)
(* of every name.  What a call has done with holds its result together.    *)
SearchCall == [name : Names, deps : Seq(Extension), ok : BOOLEAN]
SearchState == [Extension -> {"unvisited", "visiting", "visited"}]

Honest(c, v) ==
  /\ ToSet(c.deps) \subseteq Requires(c.name)
  /\ c.ok => \A d \in Requires(c.name) \ ToSet(c.deps) : v[d] = "visited"
  /\ ~c.ok => c.name \notin Sound

Trail(p, v) ==
  /\ p \in Seq(SearchCall) /\ v \in SearchState
  /\ \A i \in 1..Len(p) : Honest(p[i], v)
  /\ \A i, j \in 1..Len(p) : i < j => p[i].name # p[j].name /\ p[j].name \in Required(p[i].name)
  /\ \A i \in 1..Len(p) : v[p[i].name] = "visiting"
  /\ \A e \in Extension : v[e] = "visiting" => \E i \in 1..Len(p) : p[i].name = e
  /\ \A i \in 1..Len(p) - 1 : p[i].deps # <<>> /\ Head(p[i].deps) = p[i + 1].name

LEMMA HonestStays ==
  ASSUME NEW c \in SearchCall, NEW v \in SearchState, NEW w \in SearchState, Honest(c, v),
         \A e \in Extension : v[e] = "visited" => w[e] = "visited"
  PROVE  Honest(c, w)
<1>1. Requires(c.name) \subseteq Extension BY RequiresTyped DEF SearchCall
<1> QED BY <1>1 DEF Honest

LEMMA TrailTyped ==
  ASSUME NEW p, NEW v, Trail(p, v)
  PROVE  /\ p \in Seq(SearchCall) /\ v \in SearchState /\ Len(p) \in Nat
         /\ \A i \in 1..Len(p) :
              /\ p[i] \in SearchCall /\ p[i].name \in Names /\ p[i].name \in Extension
              /\ p[i].deps \in Seq(Extension) /\ p[i].ok \in BOOLEAN
<1>1. p \in Seq(SearchCall) /\ v \in SearchState BY DEF Trail
<1>2. \A i \in 1..Len(p) : p[i] \in SearchCall BY <1>1
<1>3. \A c \in SearchCall : c.name \in Names /\ c.deps \in Seq(Extension) /\ c.ok \in BOOLEAN BY DEF SearchCall
<1> QED BY <1>1, <1>2, <1>3, LoadedAreTyped

(* The state of a name that no call is for may change.                     *)
LEMMA TrailStays ==
  ASSUME NEW p, NEW v, NEW w \in SearchState, Trail(p, v),
         \A e \in Extension : v[e] = "visited" => w[e] = "visited",
         \A e \in Extension : v[e] = "visiting" <=> w[e] = "visiting"
  PROVE  Trail(p, w)
<1>1. p \in Seq(SearchCall) /\ v \in SearchState BY DEF Trail
<1>2. \A i \in 1..Len(p) : p[i] \in SearchCall /\ p[i].name \in Extension BY TrailTyped
<1>3. \A i \in 1..Len(p) : Honest(p[i], w) BY <1>1, <1>2, HonestStays DEF Trail
<1> QED BY <1>1, <1>2, <1>3 DEF Trail

LEMMA TailOf ==
  ASSUME NEW S, NEW s \in Seq(S), s # <<>>
  PROVE  /\ Head(s) \in S /\ Tail(s) \in Seq(S) /\ Head(s) \in ToSet(s)
         /\ ToSet(Tail(s)) \subseteq ToSet(s)
         /\ ToSet(s) \ {Head(s)} \subseteq ToSet(Tail(s))
<1>1. Head(s) \in S /\ Tail(s) \in Seq(S) /\ Head(s) = s[1] /\ 1 \in DOMAIN s OBVIOUS
<1>2. Len(Tail(s)) = Len(s) - 1 /\ \A i \in 1..Len(s) - 1 : Tail(s)[i] = s[i + 1] OBVIOUS
<1>3. ASSUME NEW x \in ToSet(s) \ {Head(s)} PROVE x \in ToSet(Tail(s))
  <2>1. PICK i \in 1..Len(s) : s[i] = x BY DEF ToSet
  <2>2. i # 1 BY <1>1, <1>3, <2>1
  <2>3. i - 1 \in 1..Len(s) - 1 /\ Tail(s)[i - 1] = x BY <1>2, <2>1, <2>2
  <2>4. i - 1 \in DOMAIN Tail(s) BY <1>1, <1>2, <2>3
  <2> QED BY <2>3, <2>4 DEF ToSet
<1>4. ASSUME NEW x \in ToSet(Tail(s)) PROVE x \in ToSet(s)
  <2>1. PICK i \in 1..Len(s) - 1 : Tail(s)[i] = x BY <1>1, <1>2, <1>4 DEF ToSet
  <2> QED BY <1>2, <2>1 DEF ToSet
<1> QED BY <1>1, <1>3, <1>4 DEF ToSet

LEMMA FrontOf ==
  ASSUME NEW S, NEW s \in Seq(S), s # <<>>
  PROVE  LET t == SubSeq(s, 1, Len(s) - 1) IN
           t \in Seq(S) /\ Len(t) = Len(s) - 1 /\ \A i \in 1..Len(s) - 1 : t[i] = s[i]
<1>1. Len(s) \in Nat /\ Len(s) > 0
  OBVIOUS
<1> DEFINE n == Len(s) - 1  t == SubSeq(s, 1, n)
<1>2. n \in Int /\ n \in Nat /\ 1 \in Int /\ n - 1 + 1 = n BY <1>1
<1>3. \A i \in 1..n : s[i] \in S BY <1>1
<1>4. t \in Seq(S) /\ Len(t) = (IF 1 <= n THEN n - 1 + 1 ELSE 0) /\ \A i \in 1..n - 1 + 1 : t[i] = s[1 + i - 1]
  <2> HIDE DEF n
  <2> QED BY <1>2, <1>3, SubSeqProperties
<1>5. Len(t) = n BY <1>2, <1>4
<1>6. \A i \in 1..n : t[i] = s[i]
  <2>1. \A i \in 1..n : 1 + i - 1 = i BY <1>2
  <2> QED BY <1>2, <1>4, <2>1
<1> QED BY <1>4, <1>5, <1>6

(* The last call goes on to its next requirement.                          *)
Advanced(p, q, ok) ==
  /\ q \in Seq(SearchCall) /\ Len(q) = Len(p) /\ \A i \in 1..Len(p) - 1 : q[i] = p[i]
  /\ q[Len(p)] = Onward(p[Len(p)], ok)

LEMMA TrailAdvances ==
  ASSUME NEW p, NEW q, NEW v, NEW ok \in BOOLEAN, Trail(p, v), p # <<>>, Advanced(p, q, ok),
         p[Len(p)].deps # <<>>, ok => v[Head(p[Len(p)].deps)] = "visited",
         ~ok => p[Len(p)].name \notin Sound
  PROVE  Trail(q, v)
<1>1. p \in Seq(SearchCall) /\ v \in SearchState /\ Len(p) \in Nat /\ Len(p) > 0 BY DEF Trail
<1> DEFINE n == Len(p)  c == p[n]
<1>2. n \in 1..Len(p) /\ c \in SearchCall /\ c.deps \in Seq(Extension) /\ c.ok \in BOOLEAN BY <1>1, TrailTyped
<1>3. q[n].name = c.name /\ q[n].deps = Tail(c.deps) /\ q[n].ok = (c.ok /\ ok) BY DEF Advanced, Onward
<1>4. Honest(c, v) BY <1>2 DEF Trail
<1>5. Honest(q[n], v)
  <2>1. ToSet(q[n].deps) \subseteq Requires(q[n].name) BY <1>2, <1>3, <1>4, TailOf DEF Honest
  <2>2. ASSUME q[n].ok, NEW d \in Requires(q[n].name) \ ToSet(q[n].deps) PROVE v[d] = "visited"
    <3>1. d = Head(c.deps) \/ d \notin ToSet(c.deps) BY <1>2, <1>3, <2>2, TailOf
    <3> QED BY <1>3, <1>4, <2>2, <3>1 DEF Honest
  <2>3. ~q[n].ok => q[n].name \notin Sound BY <1>3, <1>4 DEF Honest
  <2> QED BY <2>1, <2>2, <2>3 DEF Honest
<1>6. Len(q) = n /\ \A i \in 1..n - 1 : q[i] = p[i] BY DEF Advanced
<1>7. \A i \in 1..n : q[i].name = p[i].name
  <2>1. \A i \in 1..n : i = n \/ i \in 1..n - 1 BY <1>1
  <2> QED BY <1>3, <1>6, <2>1
<1>8. \A i \in 1..n : Honest(q[i], v)
  <2>1. \A i \in 1..n : i = n \/ i \in 1..n - 1 BY <1>1
  <2> QED BY <1>5, <1>6, <2>1 DEF Trail
<1>9. \A i \in 1..n - 1 : q[i].deps # <<>> /\ Head(q[i].deps) = q[i + 1].name
  <2>1. ASSUME NEW i \in 1..n - 1 PROVE q[i].deps # <<>> /\ Head(q[i].deps) = q[i + 1].name
    <3>1. i + 1 \in 1..n BY <1>1
    <3> QED BY <1>6, <1>7, <3>1 DEF Trail
  <2> QED BY <2>1
<1> HIDE DEF n, c
<1>10. q \in Seq(SearchCall) BY DEF Advanced
<1>11. n = Len(p) BY DEF n
<1>12. \A i, j \in 1..n : i < j => q[i].name # q[j].name /\ q[j].name \in Required(q[i].name)
  BY <1>7, <1>11 DEF Trail
<1>13. \A i \in 1..n : v[q[i].name] = "visiting" BY <1>7, <1>11 DEF Trail
<1>14. ASSUME NEW e \in Extension, v[e] = "visiting" PROVE \E i \in 1..n : q[i].name = e
  <2>1. PICK i \in 1..n : p[i].name = e BY <1>11, <1>14 DEF Trail
  <2> QED BY <1>7, <2>1
<1> QED BY <1>1, <1>6, <1>8, <1>9, <1>10, <1>12, <1>13, <1>14 DEF Trail

(* A call of a name the search has not met.                                *)
LEMMA TrailGrows ==
  ASSUME NEW p, NEW v, NEW e \in Names, Trail(p, v), v[e] = "unvisited",
         p # <<>> => p[Len(p)].deps # <<>> /\ Head(p[Len(p)].deps) = e
  PROVE  Trail(Append(p, [name |-> e, deps |-> LoadDirs[e], ok |-> TRUE]), [v EXCEPT ![e] = "visiting"])
<1> DEFINE new == [name |-> e, deps |-> LoadDirs[e], ok |-> TRUE]
           q == Append(p, new)  w == [v EXCEPT ![e] = "visiting"]  n == Len(p)
<1>1. p \in Seq(SearchCall) /\ v \in SearchState /\ n \in Nat BY DEF Trail
<1>2. e \in Extension /\ new \in SearchCall /\ w \in SearchState BY <1>1, LoadedAreTyped DEF SearchCall, SearchState
<1>3. q \in Seq(SearchCall) /\ Len(q) = n + 1 /\ q[n + 1] = new /\ \A i \in 1..n : q[i] = p[i] BY <1>1, <1>2
<1>4. /\ \A x \in Extension : v[x] = "visited" => w[x] = "visited"
      /\ w[e] = "visiting" /\ \A x \in Extension : x # e => w[x] = v[x]
  BY <1>1, <1>2 DEF SearchState
<1>5. new.name = e /\ new.deps = LoadDirs[e] /\ new.ok = TRUE OBVIOUS
<1>6. \A i \in 1..n : p[i] \in SearchCall /\ p[i].name \in Extension /\ Honest(p[i], v) /\ v[p[i].name] = "visiting"
  BY TrailTyped, SMTT(30) DEF Trail
<1> HIDE DEF q, w, new
<1>7. \A i \in 1..n : Honest(p[i], w) BY <1>1, <1>2, <1>4, <1>6, HonestStays
<1>8. Honest(new, w) BY <1>5 DEF Honest, Requires
<1>9. \A i \in 1..n : e \in Required(p[i].name)
  <2>1. ASSUME NEW i \in 1..n PROVE e \in Required(p[i].name)
    <3>1. p # <<>> /\ n \in 1..n BY <1>1
    <3>2. p[n].deps \in Seq(Extension) /\ p[n].name \in Names BY <1>6, <3>1 DEF SearchCall
    <3>3. e \in Requires(p[n].name)
      <4>1. p[n].deps # <<>> /\ Head(p[n].deps) = e BY <3>1
      <4>2. e \in ToSet(p[n].deps) BY <3>2, <4>1, TailOf
      <4> QED BY <1>6, <3>1, <4>2 DEF Honest
    <3>4. CASE i = n BY <3>2, <3>3, <3>4, DirectlyRequired
    <3>5. CASE i < n
      <4>1. p[n].name \in Required(p[i].name) BY <3>1, <3>5 DEF Trail, n
      <4> QED BY <3>2, <3>3, <4>1, RequiredIsClosed
    <3> QED BY <3>4, <3>5, <1>1
  <2> QED BY <2>1
<1>10. \A i \in 1..n : p[i].name # e /\ w[p[i].name] = "visiting" BY <1>4, <1>6
<1>11. \A i \in 1..n + 1 : i = n + 1 \/ i \in 1..n BY <1>1
<1>12. \A i \in 1..n + 1 : Honest(q[i], w) /\ w[q[i].name] = "visiting"
  BY <1>3, <1>4, <1>5, <1>7, <1>8, <1>10, <1>11
<1>13. ASSUME NEW i \in 1..n + 1, NEW j \in 1..n + 1, i < j
       PROVE  q[i].name # q[j].name /\ q[j].name \in Required(q[i].name)
  <2>1. i \in 1..n BY <1>1, <1>13
  <2>2. CASE j = n + 1 BY <1>3, <1>5, <1>9, <1>10, <2>1, <2>2
  <2>3. CASE j \in 1..n BY <1>3, <1>13, <2>1, <2>3 DEF Trail, n
  <2> QED BY <1>11, <2>2, <2>3
<1>14. ASSUME NEW x \in Extension, w[x] = "visiting" PROVE \E i \in 1..n + 1 : q[i].name = x
  <2>1. CASE x = e
    <3>1. n + 1 \in 1..n + 1 BY <1>1
    <3> QED BY <1>3, <1>5, <2>1, <3>1
  <2>2. CASE x # e
    <3>1. PICK i \in 1..n : p[i].name = x BY <1>4, <1>14, <2>2 DEF Trail, n
    <3>2. i \in 1..n + 1 BY <1>1
    <3> QED BY <1>3, <3>1, <3>2
  <2> QED BY <2>1, <2>2
<1>15. ASSUME NEW i \in 1..n PROVE q[i].deps # <<>> /\ Head(q[i].deps) = q[i + 1].name
  <2>1. CASE i = n
    <3>1. p # <<>> BY <1>1
    <3> QED BY <1>3, <1>5, <2>1, <3>1 DEF n
  <2>2. CASE i # n
    <3>1. i \in 1..n - 1 /\ i + 1 \in 1..n BY <1>1, <2>2
    <3> QED BY <1>3, <3>1 DEF Trail, n
  <2> QED BY <2>1, <2>2
<1>16. (n + 1) - 1 = n BY <1>1
<1>17. Trail(q, w) BY <1>2, <1>3, <1>12, <1>13, <1>14, <1>15, <1>16 DEF Trail
<1> QED BY <1>17 DEF q, w, new

(* A call that returns.                                                    *)
LEMMA TrailShrinks ==
  ASSUME NEW p, NEW v, Trail(p, v), p # <<>>
  PROVE  Trail(SubSeq(p, 1, Len(p) - 1), [v EXCEPT ![p[Len(p)].name] = "visited"])
<1> DEFINE n == Len(p)  e == p[n].name  q == SubSeq(p, 1, n - 1)  w == [v EXCEPT ![e] = "visited"]
<1>1. p \in Seq(SearchCall) /\ v \in SearchState /\ n \in Nat /\ n > 0 BY DEF Trail
<1>2. n \in 1..n /\ e \in Names /\ e \in Extension /\ w \in SearchState /\ n - 1 \in Nat
  <2>1. n \in 1..n /\ n - 1 \in Nat BY <1>1
  <2>2. e \in Names /\ e \in Extension BY <2>1, TrailTyped
  <2>3. w \in SearchState BY <1>1, <2>2 DEF SearchState
  <2> QED BY <2>1, <2>2, <2>3
<1>3. q \in Seq(SearchCall) /\ Len(q) = n - 1 /\ \A i \in 1..n - 1 : q[i] = p[i]
  BY <1>1, FrontOf
<1>4. /\ \A x \in Extension : v[x] = "visited" => w[x] = "visited"
      /\ w[e] = "visited" /\ \A x \in Extension : x # e => w[x] = v[x]
  BY <1>1, <1>2 DEF SearchState
<1>5. \A i \in 1..n - 1 : i \in 1..n /\ i < n BY <1>1
<1>6. \A i \in 1..n : p[i] \in SearchCall /\ p[i].name \in Extension /\ Honest(p[i], v) /\ v[p[i].name] = "visiting"
  BY TrailTyped DEF Trail
<1>7. \A i \in 1..n - 1 : p[i].name # e BY <1>2, <1>5 DEF Trail
<1> HIDE DEF q, w
<1>8. \A i \in 1..n - 1 : Honest(q[i], w) /\ w[q[i].name] = "visiting"
  <2>1. ASSUME NEW i \in 1..n - 1 PROVE Honest(p[i], w) /\ w[p[i].name] = "visiting"
    <3>1. i \in 1..n BY <1>5
    <3> QED BY <1>1, <1>2, <1>4, <1>6, <1>7, <3>1, HonestStays
  <2> QED BY <1>3, <2>1
<1>9. ASSUME NEW i \in 1..n - 1, NEW j \in 1..n - 1, i < j
      PROVE  q[i].name # q[j].name /\ q[j].name \in Required(q[i].name)
  BY <1>3, <1>5, <1>9 DEF Trail
<1>10. ASSUME NEW x \in Extension, w[x] = "visiting" PROVE \E i \in 1..n - 1 : q[i].name = x
  <2>1. x # e /\ v[x] = "visiting" BY <1>2, <1>4, <1>10
  <2>2. PICK i \in 1..n : p[i].name = x BY <2>1 DEF Trail
  <2>3. i \in 1..n - 1 BY <1>1, <2>1, <2>2
  <2> QED BY <1>3, <2>2, <2>3
<1>11. ASSUME NEW i \in 1..(n - 1) - 1 PROVE q[i].deps # <<>> /\ Head(q[i].deps) = q[i + 1].name
  <2>1. i \in 1..n - 1 /\ i + 1 \in 1..n - 1 BY <1>1
  <2> QED BY <1>3, <2>1 DEF Trail
<1>12. Trail(q, w) BY <1>2, <1>3, <1>8, <1>9, <1>10, <1>11 DEF Trail
<1> QED BY <1>12 DEF q, w


(* The names put in order so far: what they require is behind them, and    *)
(* what was left out is not sound.                                         *)
Ordered(o, v) ==
  /\ o \in Seq(Names) /\ v \in SearchState
  /\ \A i \in 1..Len(o) : v[o[i]] = "visited" /\ \A d \in Requires(o[i]) : v[d] = "visited"
  /\ \A i, j \in 1..Len(o) : i < j => o[i] # o[j] /\ o[j] \notin Requires(o[i])
  /\ \A e \in Names : v[e] = "visited" => e \in ToSet(o) \/ e \notin Sound

LEMMA OrderedStays ==
  ASSUME NEW o, NEW v, NEW w \in SearchState, Ordered(o, v),
         \A e \in Extension : v[e] = "visited" => w[e] = "visited",
         \A e \in Names : w[e] = "visited" => v[e] = "visited" \/ e \notin Sound
  PROVE  Ordered(o, w)
<1>1. \A i \in 1..Len(o) : o[i] \in Names /\ o[i] \in Extension /\ Requires(o[i]) \subseteq Extension
  <2>1. o \in Seq(Names) BY DEF Ordered
  <2>2. \A i \in 1..Len(o) : o[i] \in Names BY <2>1
  <2> QED BY <2>2, LoadedAreTyped, RequiresTyped
<1> QED BY <1>1 DEF Ordered

LEMMA OrderedGrows ==
  ASSUME NEW o, NEW v, NEW w \in SearchState, NEW e \in Names, Ordered(o, v), v[e] = "visiting",
         \A d \in Requires(e) : v[d] = "visited",
         w = [v EXCEPT ![e] = "visited"]
  PROVE  Ordered(Append(o, e), w)
<1> DEFINE n == Len(o)  q == Append(o, e)
<1>1. o \in Seq(Names) /\ v \in SearchState /\ n \in Nat BY DEF Ordered
<1>2. q \in Seq(Names) /\ Len(q) = n + 1 /\ q[n + 1] = e /\ \A i \in 1..n : q[i] = o[i] BY <1>1
<1>3. e \in Extension /\ Requires(e) \subseteq Extension BY LoadedAreTyped, RequiresTyped
<1>4. \A i \in 1..n : o[i] \in Names /\ o[i] \in Extension /\ Requires(o[i]) \subseteq Extension
  <2>1. \A i \in 1..n : o[i] \in Names BY <1>1
  <2> QED BY <2>1, LoadedAreTyped, RequiresTyped
<1>5. w[e] = "visited" /\ \A x \in Extension : x # e => w[x] = v[x] BY <1>1, <1>3 DEF SearchState
<1>6. \A x \in Extension : v[x] = "visited" => w[x] = "visited" BY <1>5
<1> HIDE DEF q
<1>7. \A i \in 1..n + 1 : i = n + 1 \/ i \in 1..n BY <1>1
<1>8. ASSUME NEW i \in 1..n + 1 PROVE w[q[i]] = "visited" /\ \A d \in Requires(q[i]) : w[d] = "visited"
  <2>1. CASE i = n + 1 BY <1>2, <1>3, <1>5, <1>6, <2>1
  <2>2. CASE i \in 1..n
    <3>1. v[o[i]] = "visited" /\ \A d \in Requires(o[i]) : v[d] = "visited" BY <2>2 DEF Ordered
    <3> QED BY <1>2, <1>4, <1>6, <2>2, <3>1
  <2> QED BY <1>7, <2>1, <2>2
<1>9. ASSUME NEW i \in 1..n + 1, NEW j \in 1..n + 1, i < j PROVE q[i] # q[j] /\ q[j] \notin Requires(q[i])
  <2>1. i \in 1..n BY <1>1, <1>9
  <2>2. CASE j = n + 1
    <3>1. v[o[i]] = "visited" /\ \A d \in Requires(o[i]) : v[d] = "visited" BY <2>1 DEF Ordered
    <3>2. "visited" # "visiting" OBVIOUS
    <3> QED BY <1>2, <2>1, <2>2, <3>1, <3>2
  <2>3. CASE j \in 1..n BY <1>2, <1>9, <2>1, <2>3 DEF Ordered
  <2> QED BY <1>7, <2>2, <2>3
<1>10. ASSUME NEW x \in Names, w[x] = "visited" PROVE x \in ToSet(q) \/ x \notin Sound
  <2>1. CASE x = e
    <3>1. n + 1 \in DOMAIN q BY <1>1, <1>2
    <3> QED BY <1>2, <2>1, <3>1 DEF ToSet
  <2>2. CASE x # e
    <3>1. v[x] = "visited" BY <1>5, <1>10, <2>2, LoadedAreTyped
    <3>2. x \in ToSet(o) => x \in ToSet(q)
      <4>1. \A i \in DOMAIN o : i \in DOMAIN q /\ q[i] = o[i]
        <5>1. DOMAIN o = 1..n /\ DOMAIN q = 1..n + 1 BY <1>1, <1>2
        <5> QED BY <1>1, <1>2, <5>1
      <4> QED BY <4>1 DEF ToSet
    <3> QED BY <3>1, <3>2 DEF Ordered
  <2> QED BY <2>1, <2>2
<1>11. Ordered(q, w) BY <1>2, <1>8, <1>9, <1>10 DEF Ordered
<1> QED BY <1>11 DEF q

(* Leaving names out, one position after the other.                        *)
LEMMA FilteringAdvances ==
  ASSUME NEW kept
  PROVE  /\ Filtered(kept)[0] = <<>>
         /\ \A n \in Nat : Filtered(kept)[n + 1] = IF order[n + 1] \in kept THEN Append(Filtered(kept)[n], order[n + 1])
                                                   ELSE Filtered(kept)[n]
<1> DEFINE more(n, s) == IF order[n] \in kept THEN Append(s, order[n]) ELSE s
           g == [n \in Nat |-> [s \in Seq(kept) |-> more(n, s)]]
           body(f) == [n \in Nat |-> IF n = 0 THEN <<>> ELSE IF order[n] \in kept THEN Append(f[n - 1], order[n]) ELSE f[n - 1]]
<1>1. <<>> \in Seq(kept)
  OBVIOUS
<1>2. g \in [Nat -> [Seq(kept) -> Seq(kept)]]
  <2>1. ASSUME NEW n \in Nat, NEW s \in Seq(kept) PROVE more(n, s) \in Seq(kept)
    OBVIOUS
  <2> QED BY <2>1
<1>3. \A n \in Nat, s \in Seq(kept) : g[n][s] = IF order[n] \in kept THEN Append(s, order[n]) ELSE s
  OBVIOUS
<1> HIDE DEF g
<1>4. PICK f : Follows(f, Seq(kept), <<>>, g) BY <1>1, <1>2, Recursion
<1>5. f = body(f)
  <2>0. f \in [Nat -> Seq(kept)] /\ f[0] = <<>> /\ \A n \in Nat : f[n + 1] = g[n + 1][f[n]]
    BY <1>4 DEF Follows
  <2>1. ASSUME NEW n \in Nat PROVE f[n] = body(f)[n]
    <3>1. CASE n = 0 BY <2>0, <3>1
    <3>2. CASE n # 0
      <4>1. n - 1 \in Nat /\ (n - 1) + 1 = n BY <3>2
      <4>2. f[n] = g[n][f[n - 1]] BY <2>0, <4>1
      <4> QED BY <1>3, <2>0, <3>2, <4>1, <4>2
    <3> QED BY <3>1, <3>2
  <2> QED BY <2>0, <2>1
<1>6. Filtered(kept) = CHOOSE r : r = body(r) BY DEF Filtered
<1>7. Filtered(kept) = body(Filtered(kept)) BY <1>5, <1>6
<1> HIDE DEF body
<1>8. Filtered(kept)[0] = <<>> BY <1>7 DEF body
<1>9. ASSUME NEW n \in Nat
      PROVE  Filtered(kept)[n + 1] = IF order[n + 1] \in kept THEN Append(Filtered(kept)[n], order[n + 1]) ELSE Filtered(kept)[n]
  <2>1. n + 1 \in Nat /\ n + 1 # 0 /\ (n + 1) - 1 = n
    OBVIOUS
  <2> QED BY <1>7, <2>1 DEF body
<1> QED BY <1>8, <1>9

Chosen(s, kept, n) ==
  /\ s \in Seq(kept)
  /\ \A k \in 1..n : order[k] \in kept => \E i \in 1..Len(s) : s[i] = order[k]
  /\ \A i \in 1..Len(s) : \E k \in 1..n : order[k] = s[i]
  /\ \A i, j \in 1..Len(s) : i < j => \E k, l \in 1..n : k < l /\ order[k] = s[i] /\ order[l] = s[j]

LEMMA ChosenGrows ==
  ASSUME NEW s, NEW kept, NEW n \in Nat, Chosen(s, kept, n)
  PROVE  Chosen(IF order[n + 1] \in kept THEN Append(s, order[n + 1]) ELSE s, kept, n + 1)
<1>0. \A k \in 1..n : k \in 1..n + 1 /\ k < n + 1
  OBVIOUS
<1>a. n + 1 \in 1..n + 1 /\ \A k \in 1..n + 1 : k = n + 1 \/ k \in 1..n
  OBVIOUS
<1>1. CASE order[n + 1] \notin kept
  <2>1. s \in Seq(kept) BY DEF Chosen
  <2>2. \A k \in 1..n + 1 : order[k] \in kept => k \in 1..n BY <1>a, <1>1
  <2>3. \A k \in 1..n + 1 : order[k] \in kept => \E i \in 1..Len(s) : s[i] = order[k] BY <2>2 DEF Chosen
  <2>4. \A i \in 1..Len(s) : \E k \in 1..n + 1 : order[k] = s[i] BY <1>0 DEF Chosen
  <2>5. \A i, j \in 1..Len(s) : i < j => \E k, l \in 1..n + 1 : k < l /\ order[k] = s[i] /\ order[l] = s[j]
    BY <1>0 DEF Chosen
  <2>6. Chosen(s, kept, n + 1) BY <2>1, <2>3, <2>4, <2>5 DEF Chosen
  <2> QED BY <1>1, <2>6
<1>2. CASE order[n + 1] \in kept
  <2> DEFINE m == Len(s)  q == Append(s, order[n + 1])
  <2>1. s \in Seq(kept) /\ m \in Nat BY DEF Chosen
  <2>2. q \in Seq(kept) /\ Len(q) = m + 1 /\ q[m + 1] = order[n + 1] /\ \A i \in 1..m : q[i] = s[i] BY <1>2, <2>1
  <2>3. (\A i \in 1..m : i \in 1..m + 1) /\ m + 1 \in 1..m + 1 /\ \A i \in 1..m + 1 : i = m + 1 \/ i \in 1..m BY <2>1
  <2> HIDE DEF q
  <2>4. ASSUME NEW k \in 1..n + 1, order[k] \in kept PROVE \E i \in 1..m + 1 : q[i] = order[k]
    <3>1. CASE k = n + 1 BY <2>2, <2>3, <3>1
    <3>2. CASE k \in 1..n
      <4>1. PICK i \in 1..m : s[i] = order[k] BY <2>4, <3>2 DEF Chosen
      <4> QED BY <2>2, <2>3, <4>1
    <3> QED BY <1>a, <3>1, <3>2
  <2>5. ASSUME NEW i \in 1..m + 1 PROVE \E k \in 1..n + 1 : order[k] = q[i]
    <3>1. CASE i = m + 1 BY <1>a, <2>2, <3>1
    <3>2. CASE i \in 1..m
      <4>1. PICK k \in 1..n : order[k] = s[i] BY <3>2 DEF Chosen
      <4> QED BY <1>0, <2>2, <3>2, <4>1
    <3> QED BY <2>3, <3>1, <3>2
  <2>6. ASSUME NEW i \in 1..m + 1, NEW j \in 1..m + 1, i < j
        PROVE  \E k, l \in 1..n + 1 : k < l /\ order[k] = q[i] /\ order[l] = q[j]
    <3>1. i \in 1..m BY <2>1, <2>6
    <3>2. CASE j = m + 1
      <4>1. PICK k \in 1..n : order[k] = s[i] BY <3>1 DEF Chosen
      <4> QED BY <1>0, <1>a, <2>2, <3>1, <3>2, <4>1
    <3>3. CASE j \in 1..m
      <4>1. PICK k \in 1..n, l \in 1..n : k < l /\ order[k] = s[i] /\ order[l] = s[j] BY <2>6, <3>1, <3>3 DEF Chosen
      <4> QED BY <1>0, <2>2, <3>1, <3>3, <4>1
    <3> QED BY <2>3, <3>2, <3>3
  <2>7. Chosen(q, kept, n + 1) BY <2>2, <2>4, <2>5, <2>6 DEF Chosen
  <2> QED BY <1>2, <2>7 DEF q
<1> QED BY <1>1, <1>2

LEMMA FilterChooses ==
  ASSUME NEW kept
  PROVE  \A n \in Nat : Chosen(Filtered(kept)[n], kept, n)
<1> DEFINE S == {n \in Nat : Chosen(Filtered(kept)[n], kept, n)}
<1>1. 0 \in S
  <2>1. Filtered(kept)[0] = <<>> BY FilteringAdvances
  <2>2. <<>> \in Seq(kept) /\ Len(<<>>) = 0 OBVIOUS
  <2>3. Chosen(<<>>, kept, 0) BY <2>2 DEF Chosen
  <2> QED BY <2>1, <2>3
<1>2. ASSUME NEW n \in Nat, n \in S PROVE n + 1 \in S
  <2>1. Chosen(Filtered(kept)[n], kept, n) BY <1>2
  <2> QED BY <2>1, ChosenGrows, FilteringAdvances
<1> HIDE DEF S
<1>3. Nat \subseteq S BY <1>1, <1>2, NaturalsBySteps
<1> QED BY <1>3 DEF S


Sorting ==
  \/ loading = "dirs" /\ path = <<>> /\ order = <<>> /\ cycled = {} /\ visit = [e \in Extension |-> "unvisited"]
  \/ loading = "sort" /\ exts = LoadDirs /\ Trail(path, visit) /\ Ordered(order, visit) /\ cycled \cap Sound = {}
  \/ loading = "loaded" /\ path = <<>> /\ DependenciesFirst

LEMMA SortingImplies == Sorting => DependenciesFirst
<1>1. CASE order = <<>> /\ loading # "loaded" BY <1>1 DEF DependenciesFirst
<1>2. CASE loading = "sort" /\ exts = LoadDirs /\ Ordered(order, visit)
  <2>1. order \in Seq(Names) BY <1>2 DEF Ordered
  <2>2. DOMAIN order = 1..Len(order) BY <2>1
  <2> QED BY <1>2, <2>2 DEF Ordered, DependenciesFirst, Requires
<1> QED BY <1>1, <1>2 DEF Sorting

LEMMA LoadDirSorts == Sorting /\ LoadDir => Sorting'
<1> SUFFICES ASSUME Sorting, LoadDir PROVE Sorting'
  OBVIOUS
<1>1. loading' = "sort" /\ exts' = LoadDirs /\ UNCHANGED <<visit, path, order, cycled>> BY DEF LoadDir
<1>2. path = <<>> /\ order = <<>> /\ cycled = {} /\ visit = [e \in Extension |-> "unvisited"]
  BY DEF LoadDir, Sorting
<1>3. visit \in SearchState /\ \A e \in Extension : visit[e] = "unvisited" BY <1>2 DEF SearchState
<1>4. Trail(path, visit)
  <2>1. path \in Seq(SearchCall) /\ Len(path) = 0 /\ 1..0 = {} /\ 1..(0 - 1) = {} BY <1>2
  <2> QED BY <1>3, <2>1 DEF Trail
<1>5. Ordered(order, visit)
  <2>1. order \in Seq(Names) /\ Len(order) = 0 /\ 1..0 = {} BY <1>2
  <2> QED BY <1>3, <2>1, LoadedAreTyped DEF Ordered
<1>6. path' = path /\ visit' = visit /\ order' = order /\ cycled' = cycled BY <1>1
<1>7. loading' = "sort" /\ exts' = LoadDirs /\ Trail(path, visit)' /\ Ordered(order, visit)' /\ cycled' \cap Sound = {}
  <2>1. \A p, v : Trail(p, v) /\ p = path' /\ v = visit' => Trail(path, visit)' OBVIOUS
  <2>2. \A p, v : Ordered(p, v) /\ p = order' /\ v = visit' => Ordered(order, visit)' OBVIOUS
  <2> QED BY <1>1, <1>2, <1>4, <1>5, <1>6, <2>1, <2>2
<1> QED BY <1>7 DEF Sorting

(* What the search of the next name does, in a state of the search.        *)
Searching(x, p, o, v, c) ==
  x = LoadDirs /\ Trail(p, v) /\ Ordered(o, v) /\ c \cap Sound = {}

LEMMA SearchGoesOn ==
  ASSUME loading' = "sort", Searching(exts', path', order', visit', cycled')
  PROVE  Sorting'
<1>1. exts' = LoadDirs /\ Trail(path', visit') /\ Ordered(order', visit') /\ cycled' \cap Sound = {} BY DEF Searching
<1>2. \A p, v : Trail(p, v) /\ p = path' /\ v = visit' => Trail(path, visit)' OBVIOUS
<1>3. \A p, v : Ordered(p, v) /\ p = order' /\ v = visit' => Ordered(order, visit)' OBVIOUS
<1>4. Trail(path, visit)' /\ Ordered(order, visit)' BY <1>1, <1>2, <1>3
<1> QED BY <1>1, <1>4 DEF Sorting

LEMMA SearchStarts ==
  ASSUME Sorting, NEW e \in Extension, SortFrom(e)
  PROVE  Sorting'
<1>1. /\ loading = "sort" /\ path = <<>> /\ e \in DOMAIN exts /\ visit[e] = "unvisited"
      /\ Visit(e) /\ path' = <<Call(e)>> /\ UNCHANGED <<exts, order, cycled, loading>>
  BY DEF SortFrom
<1>2. exts = LoadDirs /\ Trail(path, visit) /\ Ordered(order, visit) /\ cycled \cap Sound = {} BY <1>1 DEF Sorting
<1>3. e \in Names /\ path' = Append(path, [name |-> e, deps |-> LoadDirs[e], ok |-> TRUE])
  BY <1>1, <1>2 DEF Call, Names
<1>4. visit' = [visit EXCEPT ![e] = "visiting"] BY <1>1 DEF Visit
<1>5. Trail(path', visit')
  <2>1. Trail(Append(path, [name |-> e, deps |-> LoadDirs[e], ok |-> TRUE]), [visit EXCEPT ![e] = "visiting"])
    BY <1>1, <1>2, <1>3, TrailGrows
  <2> QED BY <1>3, <1>4, <2>1
<1>6. Ordered(order, visit')
  <2>1. visit' \in SearchState BY <1>5 DEF Trail
  <2>2. visit \in SearchState BY <1>2 DEF Trail
  <2>3. \A x \in Extension : (visit[x] = "visited") <=> (visit'[x] = "visited") BY <1>1, <1>4, <2>2 DEF SearchState
  <2> QED BY <1>2, <2>1, <2>3, OrderedStays, LoadedAreTyped
<1>7. Searching(exts', path', order', visit', cycled') BY <1>1, <1>2, <1>5, <1>6 DEF Searching
<1> QED BY <1>1, <1>7, SearchGoesOn

(* A requirement that closes a cycle: nobody on it is sound.               *)
LEMMA CycleFound ==
  ASSUME NEW p, NEW v, Trail(p, v), p # <<>>, NEW k \in 1..Len(p),
         p[Len(p)].deps # <<>>, Head(p[Len(p)].deps) = p[k].name
  PROVE  \A i \in k..Len(p) : p[i].name \notin Sound
<1> DEFINE n == Len(p)  d == p[k].name
<1>1. n \in Nat /\ n \in 1..n BY TrailTyped
<1>2. \A i \in 1..n : p[i].name \in Names /\ p[i].deps \in Seq(Extension) BY TrailTyped
<1>3. d \in Requires(p[n].name)
  <2>1. ToSet(p[n].deps) \subseteq Requires(p[n].name) BY <1>1 DEF Trail, Honest
  <2>2. d \in ToSet(p[n].deps) BY <1>1, <1>2, TailOf
  <2> QED BY <2>1, <2>2
<1>4. \A i \in 1..n, j \in 1..n : i < j => p[j].name \in Required(p[i].name) BY DEF Trail
<1> HIDE DEF n, d
<1>5. \A i \in 1..n : d \in Required(p[i].name)
  <2>1. ASSUME NEW i \in 1..n PROVE d \in Required(p[i].name)
    <3>1. CASE i = n BY <1>1, <1>2, <1>3, <3>1, DirectlyRequired
    <3>2. CASE i < n
      <4>1. p[n].name \in Required(p[i].name) /\ p[n].name \in Names BY <1>1, <1>2, <1>4, <3>2
      <4> QED BY <1>3, <4>1, RequiredIsClosed
    <3> QED BY <1>1, <3>1, <3>2
  <2> QED BY <2>1
<1>6. d \in Names /\ OnCycle(d) BY <1>2, <1>5 DEF OnCycle, d, n
<1>7. ASSUME NEW i \in k..n PROVE p[i].name \notin Sound
  <2>1. i \in 1..n BY <1>1 DEF n
  <2> QED BY <1>2, <1>5, <1>6, <2>1, CyclesAreUnsound
<1> QED BY <1>7 DEF n


LEMMA AfterAdvances ==
  ASSUME Trail(path, visit), path # <<>>, Current.deps # <<>>, NEW ok \in BOOLEAN
  PROVE  Advanced(path, After(ok), ok)
<1> DEFINE n == Len(path)
<1>1. path \in Seq(SearchCall) /\ n \in Nat /\ n \in 1..n BY TrailTyped
<1>2. path[n] \in SearchCall BY <1>1
<1>4. Onward(path[n], ok) \in SearchCall
  <2>1. path[n].name \in Names /\ path[n].deps \in Seq(Extension) /\ path[n].ok \in BOOLEAN BY <1>2 DEF SearchCall
  <2>2. Tail(path[n].deps) \in Seq(Extension) BY <2>1, TailOf DEF Current
  <2> QED BY <2>1, <2>2 DEF Onward, SearchCall
<1>6. After(ok) = [path EXCEPT ![n] = Onward(path[n], ok)] BY DEF After, Current
<1> DEFINE q == [path EXCEPT ![n] = Onward(path[n], ok)]
<1>7. q \in Seq(SearchCall) /\ Len(q) = n /\ (\A i \in 1..n - 1 : q[i] = path[i]) /\ q[n] = Onward(path[n], ok)
  BY <1>1, <1>4
<1> QED BY <1>6, <1>7 DEF Advanced

(* What changes when the current call has dealt with its next requirement. *)
LEMMA Dealt ==
  ASSUME Sorting, path # <<>>, Current.deps # <<>>, NEW ok \in BOOLEAN,
         ok => visit'[Head(Current.deps)] = "visited", ~ok => Current.name \notin Sound,
         Trail(path, visit'), Ordered(order, visit'),
         path' = After(ok), UNCHANGED <<exts, order, loading>>, cycled' \cap Sound = {}
  PROVE  Sorting'
<1>1. loading = "sort" /\ exts = LoadDirs /\ Trail(path, visit) BY DEF Sorting
<1>2. Advanced(path, path', ok) BY <1>1, AfterAdvances
<1>3. Trail(path', visit') BY <1>2, TrailAdvances DEF Current
<1>4. Searching(exts', path', order', visit', cycled') BY <1>1, <1>3 DEF Searching
<1> QED BY <1>1, <1>4, SearchGoesOn

LEMMA RequirementDealt == Sorting /\ Requirement => Sorting'
<1> SUFFICES ASSUME Sorting, Requirement PROVE Sorting'
  OBVIOUS
<1> DEFINE n == Len(path)  dep == Head(Current.deps)
<1>1. path # <<>> /\ Current.deps # <<>> /\ UNCHANGED <<exts, order, loading>> BY DEF Requirement
<1>2. /\ loading = "sort" /\ exts = LoadDirs /\ Trail(path, visit) /\ Ordered(order, visit)
      /\ cycled \cap Sound = {}
  BY <1>1 DEF Sorting
<1>3. n \in Nat /\ n \in 1..n /\ Current = path[n] /\ visit \in SearchState BY <1>1, <1>2, TrailTyped DEF Current
<1>4. Current.deps \in Seq(Extension) BY <1>2, <1>3, TrailTyped
<1>5. dep \in Extension BY <1>1, <1>4, TailOf
<1>6. CASE Finished(dep) /\ path' = After(TRUE) /\ UNCHANGED <<visit, cycled>>
  <2>1. visit'[dep] = "visited" BY <1>6 DEF Finished
  <2>2. Trail(path, visit') /\ Ordered(order, visit') /\ cycled' \cap Sound = {} BY <1>2, <1>6
  <2> QED BY <1>1, <1>6, <2>1, <2>2, Dealt
<1>7. CASE /\ visit[dep] = "visiting" /\ path' = After(FALSE) /\ UNCHANGED visit
           /\ cycled' = cycled \cup {path[i].name : i \in (CHOOSE i \in OnPath : TRUE)..Len(path)}
  <2>1. PICK i \in 1..n : path[i].name = dep BY <1>2, <1>5, <1>7 DEF Trail
  <2>2. DOMAIN path = 1..n BY <1>2, TrailTyped
  <2>3. OnPath # {} BY <2>1, <2>2 DEF OnPath
  <2> DEFINE k == CHOOSE j \in OnPath : TRUE
  <2>4. k \in OnPath BY <2>3
  <2> HIDE DEF k
  <2>5. k \in 1..n /\ Head(path[n].deps) = path[k].name BY <1>3, <2>2, <2>4 DEF OnPath
  <2>6. \A j \in k..n : path[j].name \notin Sound BY <1>1, <1>2, <1>3, <2>5, CycleFound
  <2>7. Current.name \notin Sound
    <3>1. n \in k..n BY <1>3, <2>5
    <3> QED BY <1>3, <2>6, <3>1
  <2>8. cycled' \cap Sound = {}
    <3>1. cycled' = cycled \cup {path[j].name : j \in k..n} BY <1>7 DEF k
    <3> QED BY <1>2, <2>6, <3>1
  <2>9. Trail(path, visit') /\ Ordered(order, visit') BY <1>2, <1>7
  <2> QED BY <1>1, <1>7, <2>7, <2>8, <2>9, Dealt
<1>8. CASE /\ visit[dep] = "unvisited" /\ dep \notin DOMAIN exts /\ visit' = [visit EXCEPT ![dep] = "visited"]
           /\ path' = After(TRUE) /\ UNCHANGED cycled
  <2>1. visit' \in SearchState /\ visit'[dep] = "visited" BY <1>3, <1>5, <1>8 DEF SearchState
  <2>2. \A x \in Extension : x # dep => visit'[x] = visit[x] BY <1>3, <1>5, <1>8 DEF SearchState
  <2>3. \A x \in Extension : (visit[x] = "visited" => visit'[x] = "visited") /\ (visit[x] = "visiting" <=> visit'[x] = "visiting")
    BY <1>8, <2>1, <2>2
  <2>a. Trail(path, visit') BY <1>2, <2>1, <2>3, TrailStays
  <2>4. dep \notin Names BY <1>2, <1>8 DEF Names
  <2>5. \A x \in Names : x \in Extension /\ x # dep BY <2>4, LoadedAreTyped
  <2>6. Ordered(order, visit') BY <1>2, <2>1, <2>2, <2>5, OrderedStays
  <2>7. cycled' \cap Sound = {} BY <1>2, <1>8
  <2> QED BY <1>1, <1>8, <2>1, <2>a, <2>6, <2>7, Dealt
<1>9. CASE visit[dep] = "unvisited" /\ dep \in DOMAIN exts /\ Visit(dep) /\ path' = Append(path, Call(dep)) /\ UNCHANGED cycled
  <2>1. dep \in Names /\ Call(dep) = [name |-> dep, deps |-> LoadDirs[dep], ok |-> TRUE] BY <1>2, <1>9 DEF Names, Call
  <2>2. visit' = [visit EXCEPT ![dep] = "visiting"] BY <1>9 DEF Visit
  <2>3. Trail(Append(path, [name |-> dep, deps |-> LoadDirs[dep], ok |-> TRUE]), [visit EXCEPT ![dep] = "visiting"])
    BY <1>1, <1>2, <1>3, <1>9, <2>1, TrailGrows
  <2>4. Trail(path', visit') BY <1>9, <2>1, <2>2, <2>3
  <2>5. visit' \in SearchState BY <2>4 DEF Trail
  <2>6. \A x \in Extension : (visit[x] = "visited") <=> (visit'[x] = "visited") BY <1>3, <1>5, <1>9, <2>2 DEF SearchState
  <2>7. Ordered(order, visit') BY <1>2, <2>5, <2>6, OrderedStays, LoadedAreTyped
  <2>8. Searching(exts', path', order', visit', cycled') BY <1>1, <1>2, <1>9, <2>4, <2>7 DEF Searching
  <2> QED BY <1>1, <1>2, <2>8, SearchGoesOn
<1> QED BY <1>6, <1>7, <1>8, <1>9 DEF Requirement

(* A call returns to its caller, or to the loop over all names.            *)
LEMMA VisitedReturns == Sorting /\ Visited => Sorting'
<1> SUFFICES ASSUME Sorting, Visited PROVE Sorting'
  OBVIOUS
<1> DEFINE n == Len(path)  e == Current.name  p == SubSeq(path, 1, n - 1)  w == [visit EXCEPT ![e] = "visited"]
<1>1. path # <<>> /\ Current.deps = <<>> /\ visit' = w /\ UNCHANGED <<exts, cycled, loading>> BY DEF Visited
<1>2. /\ loading = "sort" /\ exts = LoadDirs /\ Trail(path, visit) /\ Ordered(order, visit)
      /\ cycled \cap Sound = {}
  BY <1>1 DEF Sorting
<1>3. /\ n \in Nat /\ n \in 1..n /\ Current = path[n] /\ path \in Seq(SearchCall) /\ visit \in SearchState
      /\ Current.ok \in BOOLEAN /\ e \in Names /\ e \in Extension
  BY <1>1, <1>2, TrailTyped DEF Current
<1>4. Trail(p, w) /\ w \in SearchState
  <2>1. Trail(SubSeq(path, 1, Len(path) - 1), [visit EXCEPT ![path[Len(path)].name] = "visited"]) BY <1>1, <1>2, TrailShrinks
  <2>2. Trail(p, w) BY <1>3, <2>1
  <2> QED BY <2>2 DEF Trail
<1>5. p \in Seq(SearchCall) /\ Len(p) = n - 1 /\ \A i \in 1..n - 1 : p[i] = path[i] BY <1>1, <1>3, FrontOf
<1>6. visit[e] = "visiting" /\ Honest(path[n], visit) BY <1>2, <1>3 DEF Trail
<1>7. w[e] = "visited" /\ \A x \in Extension : x # e => w[x] = visit[x] BY <1>3 DEF SearchState
<1> HIDE DEF w, p
<1>8. Current.ok => \A d \in Requires(e) : visit[d] = "visited"
  <2>1. ToSet(<<>>) = {} BY DEF ToSet
  <2> QED BY <1>1, <1>3, <1>6, <2>1 DEF Honest
<1>9. ~Current.ok => e \notin Sound BY <1>3, <1>6 DEF Honest
<1>10. Ordered(order', w)
  <2>1. CASE Current.ok
    <3>1. order' = Append(order, e) BY <2>1 DEF Visited
    <3> QED BY <1>2, <1>3, <1>4, <1>6, <1>8, <2>1, <3>1, OrderedGrows DEF w
  <2>2. CASE ~Current.ok
    <3>1. order' = order BY <2>2 DEF Visited
    <3>2. \A x \in Names : w[x] = "visited" => visit[x] = "visited" \/ x \notin Sound
      BY <1>7, <1>9, <2>2, LoadedAreTyped
    <3>3. \A x \in Extension : visit[x] = "visited" => w[x] = "visited" BY <1>7
    <3> QED BY <1>2, <1>4, <3>1, <3>2, <3>3, OrderedStays
  <2> QED BY <2>1, <2>2
<1>11. Trail(path', w)
  <2>1. CASE n = 1
    <3>1. path' = <<>> BY <2>1 DEF Visited
    <3>2. p = <<>> BY <1>5, <2>1
    <3> QED BY <1>4, <3>1, <3>2
  <2>2. CASE n # 1
    <3> DEFINE m == n - 1  caller == path[m]  ok == Current.ok
    <3>1. m \in Nat /\ m \in 1..m /\ m \in 1..n /\ m \in 1..n - 1 /\ m > 0 /\ n - 2 = m - 1
      <4> HIDE DEF n
      <4> QED BY <1>3, <2>2
    <3>2. path' = Append(SubSeq(path, 1, n - 2), Onward(caller, ok)) BY <2>2 DEF Visited
    <3>3. caller \in SearchCall BY <1>3, <3>1
    <3>4. caller.name \in Names /\ caller.deps \in Seq(Extension) /\ caller.ok \in BOOLEAN BY <3>3 DEF SearchCall
    <3>6. caller.deps # <<>> /\ Head(caller.deps) = path[m + 1].name BY <1>2, <3>1 DEF Trail
    <3>7. m + 1 = n /\ Head(caller.deps) = e BY <1>3, <3>1, <3>6
    <3>8. Onward(caller, ok) \in SearchCall
      <4>1. Tail(caller.deps) \in Seq(Extension) BY <3>4, <3>6, TailOf
      <4> QED BY <1>3, <3>4, <4>1 DEF Onward, SearchCall
    <3>9. p # <<>> /\ Len(p) = m /\ p[m] = caller BY <1>5, <3>1
    <3>10. SubSeq(path, 1, n - 2) = SubSeq(p, 1, m - 1)
      <4> DEFINE s == SubSeq(path, 1, m - 1)  t == SubSeq(p, 1, m - 1)
      <4>1. m - 1 \in Int /\ m - 1 \in Nat /\ 1 \in Int /\ m - 1 - 1 + 1 = m - 1 BY <3>1
      <4>2. \A i \in 1..m - 1 : path[i] \in SearchCall /\ p[i] = path[i] BY <1>3, <1>5, <3>1
      <4>3. s \in Seq(SearchCall) /\ Len(s) = m - 1 /\ \A i \in 1..m - 1 : s[i] = path[i] BY <4>1, <4>2, SubSeqProperties
      <4>4. t \in Seq(SearchCall) /\ Len(t) = m - 1 /\ \A i \in 1..m - 1 : t[i] = p[i] BY <4>1, <4>2, SubSeqProperties
      <4> HIDE DEF s, t
      <4>5. s = t BY <4>2, <4>3, <4>4
      <4> QED BY <3>1, <4>5 DEF s, t
    <3>11. Advanced(p, path', ok)
      <4> DEFINE t == SubSeq(p, 1, Len(p) - 1)
      <4>1. t \in Seq(SearchCall) /\ Len(t) = m - 1 /\ \A i \in 1..m - 1 : t[i] = p[i] BY <1>5, <3>9, FrontOf
      <4>2. path' = Append(t, Onward(caller, ok)) BY <3>2, <3>9, <3>10
      <4> HIDE DEF t, m, caller, ok
      <4>3. path' \in Seq(SearchCall) /\ Len(path') = m /\ path'[m] = Onward(caller, ok) /\ \A i \in 1..m - 1 : path'[i] = t[i]
        BY <3>1, <3>8, <4>1, <4>2
      <4> QED BY <3>9, <4>1, <4>3 DEF Advanced
    <3>12. w[Head(p[Len(p)].deps)] = "visited" /\ p[Len(p)].deps # <<>> BY <1>7, <3>6, <3>7, <3>9
    <3>13. ~ok => p[Len(p)].name \notin Sound
      <4>1. e \in Requires(caller.name)
        <5>1. ToSet(caller.deps) \subseteq Requires(caller.name) BY <1>2, <3>1 DEF Trail, Honest
        <5>2. e \in ToSet(caller.deps) BY <3>4, <3>6, <3>7, TailOf
        <5> QED BY <5>1, <5>2
      <4> QED BY <1>3, <1>9, <3>4, <3>9, <4>1, UnsoundSpreads
    <3> QED BY <1>3, <1>4, <3>9, <3>11, <3>12, <3>13, TrailAdvances
  <2> QED BY <2>1, <2>2
<1>12. Searching(exts', path', order', visit', cycled') BY <1>1, <1>2, <1>10, <1>11 DEF Searching
<1> QED BY <1>1, <1>2, <1>12, SearchGoesOn

LEMMA SortedIsInOrder == Sorting /\ Sorted => Sorting'
<1> SUFFICES ASSUME Sorting, Sorted PROVE Sorting'
  OBVIOUS
<1> DEFINE kept == Names \ cycled  n == Len(order)  s == Filtered(kept)[n]
<1>1. /\ loading = "sort" /\ path = <<>> /\ (\A e \in DOMAIN exts : visit[e] = "visited")
      /\ exts' = [e \in DOMAIN exts \ cycled |-> exts[e]] /\ order' = Filtered(DOMAIN exts \ cycled)[Len(order)]
      /\ loading' = "loaded" /\ path' = path
  BY DEF Sorted
<1>2. exts = LoadDirs /\ Ordered(order, visit) /\ cycled \cap Sound = {} BY <1>1 DEF Sorting
<1>3. order \in Seq(Names) /\ n \in Nat /\ DOMAIN order = 1..n BY <1>2 DEF Ordered
<1>4. order' = s BY <1>1, <1>2 DEF Names
<1>5. Chosen(s, kept, n) BY <1>3, FilterChooses
<1> HIDE DEF s
<1>6. DOMAIN exts' = kept /\ \A e \in kept : exts'[e] = LoadDirs[e] BY <1>1, <1>2 DEF Names
<1> HIDE DEF kept
<1>7. s \in Seq(kept) /\ DOMAIN s = 1..Len(s) BY <1>5 DEF Chosen
<1>8. ASSUME NEW i \in DOMAIN s, NEW j \in DOMAIN s, i < j
      PROVE  s[i] # s[j] /\ s[j] \notin ToSet(exts'[s[i]])
  <2>0. i \in 1..Len(s) /\ j \in 1..Len(s) BY <1>7
  <2>1. PICK k \in 1..n, l \in 1..n : k < l /\ order[k] = s[i] /\ order[l] = s[j] BY <1>5, <1>8, <2>0 DEF Chosen
  <2>2. order[k] # order[l] /\ order[l] \notin Requires(order[k]) BY <1>2, <2>1 DEF Ordered
  <2>3. s[i] \in kept BY <1>7
  <2> QED BY <1>6, <2>1, <2>2, <2>3 DEF Requires
<1>9. ToSet(s) \subseteq kept BY <1>7 DEF ToSet
<1>10. ASSUME NEW e \in Sound PROVE e \in ToSet(s)
  <2>1. e \in Names /\ e \in kept BY <1>2 DEF Sound, Names, kept
  <2>2. visit[e] = "visited" BY <1>1, <1>2, <2>1 DEF Names
  <2>3. e \in ToSet(order) BY <1>2, <1>10, <2>1, <2>2 DEF Ordered
  <2>4. PICK k \in 1..n : order[k] = e BY <1>3, <2>3 DEF ToSet
  <2>5. PICK i \in 1..Len(s) : s[i] = e BY <1>5, <2>1, <2>4 DEF Chosen
  <2> QED BY <1>7, <2>5 DEF ToSet
<1>11. DependenciesFirst' BY <1>4, <1>6, <1>8, <1>9, <1>10 DEF DependenciesFirst
<1> QED BY <1>1, <1>11 DEF Sorting

LEMMA SortingStays ==
  ASSUME Sorting, UNCHANGED extensionVars
  PROVE  Sorting'
BY DEF Sorting, extensionVars, DependenciesFirst

LEMMA SortingStep == Sorting /\ [Next]_vars => Sorting'
<1> SUFFICES ASSUME Sorting, [Next]_vars PROVE Sorting'
  OBVIOUS
<1>1. CASE LoadAll
  BY <1>1, LoadDirSorts, SearchStarts, RequirementDealt, VisitedReturns, SortedIsInOrder DEF LoadAll
<1>2. CASE Restart BY <1>2 DEF Restart, Sorting
<1>3. CASE UNCHANGED extensionVars BY <1>3, SortingStays
<1>4. ASSUME NEW p \in Percept, Process(p) \/ TimesOut(p) PROVE UNCHANGED extensionVars
  BY <1>4 DEF Process, TimesOut, Receive, MatchPercept, TryReflex, ReflexReturned, NoReflex, FirePercept, Route
<1>5. ASSUME NEW t \in Thread, Engines(t) PROVE UNCHANGED extensionVars BY <1>5 DEF Engines
<1>6. ASSUME NEW t \in Invocation, InvokeWorkflow(t) PROVE UNCHANGED extensionVars BY <1>6 DEF InvokeWorkflow
<1>7. ASSUME NEW b \in Timed, Tick(b) PROVE UNCHANGED extensionVars BY <1>7 DEF Tick
<1>8. (RegisterAll \/ HalfMinute \/ FilesChange \/ UNCHANGED vars) => UNCHANGED extensionVars
  BY DEF RegisterAll, HalfMinute, FilesChange, vars
<1> QED BY <1>1, <1>2, <1>3, <1>4, <1>5, <1>6, <1>7, <1>8 DEF Next

(* Whatever map order the search starts in, and however often the program  *)
(* starts again, the extensions are loaded in an order of their            *)
(* requirements, and only those that need a cycle are left out of it.      *)
THEOREM ExtensionsLoadInOrder == Spec => []DependenciesFirst
<1>1. Init => Sorting BY DEF Init, ExtensionInit, Sorting
<1>2. Sorting /\ [Next]_vars => Sorting' BY SortingStep
<1>3. Sorting => DependenciesFirst BY SortingImplies
<1> QED BY <1>1, <1>2, <1>3, PTL DEF Spec
=============================================================================
