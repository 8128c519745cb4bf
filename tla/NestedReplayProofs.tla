------------------------- MODULE NestedReplayProofs -------------------------
(***************************************************************************)
(* Runs inside runs, for any graphs, any nesting and any threads.  First,  *)
(* the executor is a client of the width budget that keeps its contract:   *)
(* what is proved of the budget holds of the budget under nested runs.     *)
(* Then the stacks: a thread holds the width of the node it computes for   *)
(* and no other, and leaves a node with what it found there.               *)
(***************************************************************************)
EXTENDS NestedReplay, WidthBudgetProofs, SequenceTheorems

-----------------------------------------------------------------------------
(* Places on the stacks: the outermost frame is at depth 1. *)

Depth(t) == Len(frames[t])

\* The ceiling a node has to restore is one a thread can have.
Frames == RunFrames \cup {f \in NodeFrames : f.at = "body" => f.prevIcv \in Ceilings}
FramesTypeOK == frames \in [Threads -> Seq(Frames)]

RunStages == {"enter", "sync", "plan", "seed", "help"}
NodeStages == {"start", "body", "complete", "count"}

\* A step of t leaves the frames of the others and its own up to depth k alone.
Kept(t, k) ==
  /\ k \in 0 .. Depth(t) /\ k <= Depth(t)'
  /\ \A u \in Threads : u # t => frames'[u] = frames[u]
  /\ \A d \in 1 .. k : frames'[t][d] = frames[t][d]

\* A frame is of a run or of a node, and its stage says of which.
LEMMA Kinds ==
  ASSUME FramesTypeOK, NEW t \in Threads, NEW d \in 1 .. Depth(t), NEW f, f = frames[t][d]
  PROVE  /\ (f.at \in RunStages /\ f \in RunFrames) \/ (f.at \in NodeStages /\ f \in NodeFrames)
         /\ f.at \in RunStages <=> f.at \notin NodeStages
  <1>1. frames[t] \in Seq(Frames)
    BY DEF FramesTypeOK
  <1>2. f \in Frames
    BY <1>1 DEF Depth
  <1>3. f \in RunFrames => f.at \in RunStages
    BY DEF RunFrames, RunStages
  <1>4. f \in NodeFrames => f.at \in NodeStages
    BY DEF NodeFrames, NodeStages
  <1>5. \A a \in RunStages : a \notin NodeStages
    BY DEF RunStages, NodeStages
  <1>6. f \in RunFrames \/ f \in NodeFrames
    BY <1>2 DEF Frames
  <1> QED
    BY <1>3, <1>4, <1>5, <1>6

\* The top is the frame at the greatest depth.
LEMMA TopPlace ==
  ASSUME FramesTypeOK, NEW t \in Threads
  PROVE  /\ Depth(t) \in Nat
         /\ frames[t] # <<>> <=> Depth(t) >= 1
         /\ frames[t] # <<>> => Depth(t) \in 1 .. Depth(t) /\ Top(t) = frames[t][Depth(t)]
  <1>1. frames[t] \in Seq(Frames)
    BY DEF FramesTypeOK
  <1>2. QED
    BY <1>1 DEF Depth, Top, Last

\* What At says of the top.
LEMMA AtPlace ==
  ASSUME FramesTypeOK, NEW t \in Threads, NEW label, At(t, label)
  PROVE  /\ Depth(t) \in 1 .. Depth(t) /\ Depth(t) - 1 \in 0 .. Depth(t)
         /\ Top(t) = frames[t][Depth(t)] /\ Top(t).at = label
         /\ (label \in RunStages /\ Top(t) \in RunFrames) \/ (label \in NodeStages /\ Top(t) \in NodeFrames)
         /\ label \in RunStages => Top(t) \in RunFrames
         /\ label \in NodeStages => Top(t) \in NodeFrames
  <1>1. frames[t] # <<>> /\ Top(t).at = label
    BY DEF At
  <1>2. Depth(t) \in 1 .. Depth(t) /\ Top(t) = frames[t][Depth(t)] /\ Depth(t) \in Nat
    BY <1>1, TopPlace
  <1>3. /\ (label \in RunStages /\ Top(t) \in RunFrames) \/ (label \in NodeStages /\ Top(t) \in NodeFrames)
        /\ label \in RunStages <=> label \notin NodeStages
    BY <1>1, <1>2, Kinds
  <1>4. QED
    BY <1>1, <1>2, <1>3

\* Goto with one frame replaces the top ...
LEMMA GotoPlaces ==
  ASSUME FramesTypeOK, NEW t \in Threads, frames[t] # <<>>, NEW f, Goto(t, <<f>>),
         NEW D, D = Depth(t)
  PROVE  Kept(t, D - 1) /\ Depth(t)' = D /\ frames'[t][D] = f
  <1>1. frames \in [Threads -> Seq(Frames)] /\ frames[t] \in Seq(Frames)
    BY DEF FramesTypeOK
  <1>2. /\ frames'[t] = Front(frames[t]) \o <<f>>
        /\ \A u \in Threads : u # t => frames'[u] = frames[u]
    BY <1>1 DEF Goto
  <1> DEFINE r == frames'[t]
  <1>3. /\ Len(r) = D /\ r[D] = f
        /\ \A n \in 1 .. D - 1 : r[n] = frames[t][n]
        /\ D - 1 \in 0 .. D /\ D - 1 <= Len(r)
    BY <1>1, <1>2 DEF Depth, Front
  <1> HIDE DEF r
  <1>4. QED
    BY <1>2, <1>3 DEF Kept, Depth, r

\* ... with none it returns to the frame below ...
LEMMA ReturnPlaces ==
  ASSUME FramesTypeOK, NEW t \in Threads, frames[t] # <<>>, frames' = [frames EXCEPT ![t] = Front(@)],
         NEW D, D = Depth(t)
  PROVE  Kept(t, D - 1) /\ Depth(t)' = D - 1
  <1>1. frames \in [Threads -> Seq(Frames)] /\ frames[t] \in Seq(Frames)
    BY DEF FramesTypeOK
  <1>2. /\ frames'[t] = Front(frames[t])
        /\ \A u \in Threads : u # t => frames'[u] = frames[u]
    BY <1>1
  <1> DEFINE r == frames'[t]
  <1>3. /\ Len(r) = D - 1
        /\ \A n \in 1 .. D - 1 : r[n] = frames[t][n]
        /\ D - 1 \in 0 .. D
    BY <1>1, <1>2 DEF Depth, Front
  <1> HIDE DEF r
  <1>4. QED
    BY <1>2, <1>3 DEF Kept, Depth, r

LEMMA GotoNothing ==
  ASSUME FramesTypeOK, NEW t \in Threads, frames[t] # <<>>, Goto(t, <<>>)
  PROVE  frames' = [frames EXCEPT ![t] = Front(@)]
  <1>1. frames \in [Threads -> Seq(Frames)] /\ frames[t] \in Seq(Frames)
    BY DEF FramesTypeOK
  <1>2. Front(frames[t]) \o <<>> = Front(frames[t])
    BY <1>1 DEF Front
  <1>3. QED
    BY <1>2 DEF Goto

\* ... and with two it starts a run inside a node.
LEMMA CallPlaces ==
  ASSUME FramesTypeOK, NEW t \in Threads, frames[t] # <<>>, NEW f, NEW h, Goto(t, <<f, h>>),
         NEW D, D = Depth(t)
  PROVE  /\ Kept(t, D - 1) /\ Depth(t)' = D + 1
         /\ frames'[t][D] = f /\ frames'[t][D + 1] = h
  <1>1. frames \in [Threads -> Seq(Frames)] /\ frames[t] \in Seq(Frames)
    BY DEF FramesTypeOK
  <1>2. /\ frames'[t] = Front(frames[t]) \o <<f, h>>
        /\ \A u \in Threads : u # t => frames'[u] = frames[u]
    BY <1>1 DEF Goto
  <1> DEFINE r == frames'[t]
  <1>3. /\ Len(r) = D + 1 /\ r[D] = f /\ r[D + 1] = h
        /\ \A n \in 1 .. D - 1 : r[n] = frames[t][n]
        /\ D - 1 \in 0 .. D /\ D - 1 <= Len(r)
    <2>1. /\ Front(frames[t]) \in Seq(Frames) /\ Len(Front(frames[t])) = D - 1 /\ D \in Nat \ {0}
          /\ \A n \in 1 .. D - 1 : Front(frames[t])[n] = frames[t][n]
      BY <1>1 DEF Depth, Front
    <2> DEFINE b == Front(frames[t])
               c == <<f, h>>
    <2>2. Len(c) = 2 /\ c[1] = f /\ c[2] = h /\ c \in Seq({f, h})
      OBVIOUS
    <2>3. b \in Seq(Frames \cup {f, h}) /\ c \in Seq(Frames \cup {f, h})
      BY <2>1, <2>2
    <2> HIDE DEF b, c
    <2> HIDE DEF r
    <2>30. Len(b) = D - 1 /\ Len(b) + Len(c) = D + 1
      BY <2>1, <2>2 DEF b
    <2>4. /\ Len(b \o c) = D + 1
          /\ \A n \in 1 .. D + 1 : (b \o c)[n] = IF n <= D - 1 THEN b[n] ELSE c[n - (D - 1)]
      <3>1. /\ Len(b \o c) = Len(b) + Len(c)
            /\ \A n \in 1 .. Len(b) + Len(c) : (b \o c)[n] = IF n <= Len(b) THEN b[n] ELSE c[n - Len(b)]
        BY <2>3, ConcatProperties
      <3>2. QED
        BY <2>30, <3>1
    <2>5. r = b \o c
      BY <1>2 DEF b, c, r
    <2>6. D \in 1 .. D + 1 /\ D + 1 \in 1 .. D + 1 /\ ~ (D <= D - 1) /\ ~ (D + 1 <= D - 1)
          /\ D - (D - 1) = 1 /\ (D + 1) - (D - 1) = 2 /\ \A n \in 1 .. D - 1 : n \in 1 .. D + 1 /\ n <= D - 1
      BY <2>1
    <2>7. r[D] = f /\ r[D + 1] = h
      BY <2>2, <2>4, <2>5, <2>6, ZenonT(60)
    <2>8. \A n \in 1 .. D - 1 : r[n] = frames[t][n]
      BY <2>1, <2>4, <2>5, <2>6 DEF b
    <2>9. Len(r) = D + 1 /\ D - 1 \in 0 .. D /\ D - 1 <= D + 1
      BY <2>1, <2>4, <2>5
    <2>10. QED
      BY <2>7, <2>8, <2>9
  <1> HIDE DEF r
  <1>4. QED
    BY <1>2, <1>3 DEF Kept, Depth, r

\* A task that is taken, or a run that is started, goes on top of what there is.
LEMMA PushPlaces ==
  ASSUME FramesTypeOK, NEW t \in Threads, NEW f, frames' = [frames EXCEPT ![t] = Append(@, f)],
         NEW D, D = Depth(t)
  PROVE  Kept(t, D) /\ Depth(t)' = D + 1 /\ frames'[t][D + 1] = f
  <1>1. frames \in [Threads -> Seq(Frames)] /\ frames[t] \in Seq(Frames)
    BY DEF FramesTypeOK
  <1>2. /\ frames'[t] = Append(frames[t], f)
        /\ \A u \in Threads : u # t => frames'[u] = frames[u]
    BY <1>1
  <1> DEFINE r == frames'[t]
  <1>3. /\ Len(r) = D + 1 /\ r[D + 1] = f
        /\ \A n \in 1 .. D : r[n] = frames[t][n]
        /\ D \in 0 .. D
    BY <1>1, <1>2 DEF Depth
  <1> HIDE DEF r
  <1>4. QED
    BY <1>2, <1>3 DEF Kept, Depth, r

\* A nested run that throws is left, and changes the frame of its node.
LEMMA UnwindPlaces ==
  ASSUME FramesTypeOK, NEW t \in Threads, frames[t] # <<>>, Front(frames[t]) # <<>>, NEW f,
         frames' = [frames EXCEPT ![t] = Append(Front(Front(@)), f)],
         NEW D, D = Depth(t)
  PROVE  /\ D >= 2 /\ Kept(t, D - 2) /\ Depth(t)' = D - 1
         /\ frames'[t][D - 1] = f /\ Last(Front(frames[t])) = frames[t][D - 1]
  <1>1. frames \in [Threads -> Seq(Frames)] /\ frames[t] \in Seq(Frames)
    BY DEF FramesTypeOK
  <1>2. /\ frames'[t] = Append(Front(Front(frames[t])), f)
        /\ \A u \in Threads : u # t => frames'[u] = frames[u]
    BY <1>1
  <1>3. /\ Front(frames[t]) \in Seq(Frames) /\ Len(Front(frames[t])) = D - 1 /\ D - 1 >= 1
        /\ \A n \in 1 .. D - 1 : Front(frames[t])[n] = frames[t][n]
    BY <1>1 DEF Depth, Front
  <1>4. /\ Front(Front(frames[t])) \in Seq(Frames) /\ Len(Front(Front(frames[t]))) = D - 2
        /\ \A n \in 1 .. D - 2 : Front(Front(frames[t]))[n] = frames[t][n]
    <2>1. PICK b : b = Front(frames[t])
      OBVIOUS
    <2>2. b \in Seq(Frames) /\ Len(b) = D - 1 /\ D - 1 >= 1 /\ \A n \in 1 .. D - 1 : b[n] = frames[t][n]
      BY <1>3, <2>1
    <2>3. D \in Nat
      BY <1>1 DEF Depth
    <2>4. /\ Front(b) \in Seq(Frames) /\ Len(Front(b)) = D - 2
          /\ \A n \in 1 .. D - 2 : Front(b)[n] = b[n]
      BY <2>2, <2>3 DEF Front
    <2>5. QED
      BY <2>1, <2>2, <2>3, <2>4
  <1> DEFINE r == frames'[t]
  <1>5. /\ Len(r) = D - 1 /\ r[D - 1] = f
        /\ \A n \in 1 .. D - 2 : r[n] = frames[t][n]
        /\ D - 2 \in 0 .. D
    BY <1>1, <1>2, <1>3, <1>4 DEF Depth
  <1> HIDE DEF r
  <1>6. Last(Front(frames[t])) = frames[t][D - 1]
    BY <1>3 DEF Last
  <1>7. QED
    BY <1>2, <1>3, <1>5, <1>6 DEF Kept, Depth, r

-----------------------------------------------------------------------------
(* What each step does to the stack of its thread. *)

\* The top f becomes h.
Turns(t, f, h) ==
  /\ Depth(t) \in Nat \ {0} /\ f = frames[t][Depth(t)]
  /\ Kept(t, Depth(t) - 1) /\ Depth(t)' = Depth(t) /\ frames'[t][Depth(t)] = h

\* h comes on top.
Pushes(t, h) == Depth(t) \in Nat /\ Kept(t, Depth(t)) /\ Depth(t)' = Depth(t) + 1 /\ frames'[t][Depth(t) + 1] = h

\* The top f is left.
Pops(t, f) ==
  /\ Depth(t) \in Nat \ {0} /\ f = frames[t][Depth(t)]
  /\ Kept(t, Depth(t) - 1) /\ Depth(t)' = Depth(t) - 1

\* The top f becomes h and b comes on top of it.
Calls(t, f, h, b) ==
  /\ Depth(t) \in Nat \ {0} /\ f = frames[t][Depth(t)]
  /\ Kept(t, Depth(t) - 1) /\ Depth(t)' = Depth(t) + 1
  /\ frames'[t][Depth(t)] = h /\ frames'[t][Depth(t) + 1] = b

\* The top f is left, and what is below it becomes h.
Cuts(t, f, h) ==
  /\ Depth(t) \in Nat \ {0, 1} /\ f = frames[t][Depth(t)]
  /\ Kept(t, Depth(t) - 2) /\ Depth(t)' = Depth(t) - 1 /\ frames'[t][Depth(t) - 1] = h

\* What is put on a stack has to be a frame.
LEMMA GotoTyped ==
  ASSUME FramesTypeOK, NEW t \in Threads, NEW s \in Seq(Frames), Goto(t, s)
  PROVE  FramesTypeOK'
  <1>1. frames[t] \in Seq(Frames) /\ frames \in [Threads -> Seq(Frames)]
    BY DEF FramesTypeOK
  <1>2. SubSeq(frames[t], 1, Len(frames[t]) - 1) \in Seq(Frames)
    BY <1>1
  <1>3. Front(frames[t]) \in Seq(Frames)
    BY <1>2 DEF Front
  <1>4. Front(frames[t]) \o s \in Seq(Frames)
    BY <1>3
  <1>5. frames' = [frames EXCEPT ![t] = Front(frames[t]) \o s]
    BY DEF Goto
  <1>6. QED
    BY <1>1, <1>4, <1>5 DEF FramesTypeOK

LEMMA GotoTurns ==
  ASSUME FramesTypeOK, NEW t \in Threads, NEW label, At(t, label), NEW h, Goto(t, <<h>>)
  PROVE  Turns(t, Top(t), h) /\ (h \in Frames => FramesTypeOK')
  <1>1. frames[t] # <<>> /\ Depth(t) \in Nat \ {0} /\ Top(t) = frames[t][Depth(t)]
    BY TopPlace DEF At
  <1>2. Kept(t, Depth(t) - 1) /\ Depth(t)' = Depth(t) /\ frames'[t][Depth(t)] = h
    BY <1>1, GotoPlaces
  <1>3. h \in Frames => <<h>> \in Seq(Frames)
    OBVIOUS
  <1>4. QED
    BY <1>1, <1>2, <1>3, GotoTyped DEF Turns

LEMMA GotoPops ==
  ASSUME FramesTypeOK, NEW t \in Threads, NEW label, At(t, label),
         Goto(t, <<>>) \/ frames' = [frames EXCEPT ![t] = Front(@)]
  PROVE  Pops(t, Top(t)) /\ FramesTypeOK'
  <1>1. frames[t] # <<>> /\ Depth(t) \in Nat \ {0} /\ Top(t) = frames[t][Depth(t)]
    BY TopPlace DEF At
  <1>2. frames' = [frames EXCEPT ![t] = Front(@)]
    BY <1>1, GotoNothing
  <1>3. Kept(t, Depth(t) - 1) /\ Depth(t)' = Depth(t) - 1
    BY <1>1, <1>2, ReturnPlaces
  <1>4. frames \in [Threads -> Seq(Frames)] /\ frames[t] \in Seq(Frames)
    BY DEF FramesTypeOK
  <1>5. Front(frames[t]) \in Seq(Frames)
    BY <1>1, <1>4 DEF Front
  <1>6. FramesTypeOK'
    BY <1>2, <1>4, <1>5 DEF FramesTypeOK
  <1>7. QED
    BY <1>1, <1>3, <1>6 DEF Pops

LEMMA GotoCalls ==
  ASSUME FramesTypeOK, NEW t \in Threads, NEW label, At(t, label), NEW h, NEW b, Goto(t, <<h, b>>)
  PROVE  Calls(t, Top(t), h, b) /\ (h \in Frames /\ b \in Frames => FramesTypeOK')
  <1>1. frames[t] # <<>> /\ Depth(t) \in Nat \ {0} /\ Top(t) = frames[t][Depth(t)]
    BY TopPlace DEF At
  <1>2. /\ Kept(t, Depth(t) - 1) /\ Depth(t)' = Depth(t) + 1
        /\ frames'[t][Depth(t)] = h /\ frames'[t][Depth(t) + 1] = b
    BY <1>1, CallPlaces
  <1>3. h \in Frames /\ b \in Frames => <<h, b>> \in Seq(Frames)
    OBVIOUS
  <1>4. QED
    BY <1>1, <1>2, <1>3, GotoTyped DEF Calls

LEMMA AppendPushes ==
  ASSUME FramesTypeOK, NEW t \in Threads, NEW h, frames' = [frames EXCEPT ![t] = Append(@, h)]
  PROVE  Pushes(t, h) /\ (h \in Frames => FramesTypeOK')
  <1>1. Depth(t) \in Nat
    BY TopPlace
  <1>2. Kept(t, Depth(t)) /\ Depth(t)' = Depth(t) + 1 /\ frames'[t][Depth(t) + 1] = h
    BY PushPlaces
  <1>3. frames \in [Threads -> Seq(Frames)] /\ frames[t] \in Seq(Frames)
    BY DEF FramesTypeOK
  <1>4. h \in Frames => FramesTypeOK'
    BY <1>3 DEF FramesTypeOK
  <1>5. QED
    BY <1>1, <1>2, <1>4 DEF Pushes

LEMMA UnwindCuts ==
  ASSUME FramesTypeOK, NEW t \in Threads, frames[t] # <<>>, Front(frames[t]) # <<>>, NEW h,
         frames' = [frames EXCEPT ![t] = Append(Front(Front(@)), h)]
  PROVE  /\ Cuts(t, Top(t), h) /\ Last(Front(frames[t])) = frames[t][Depth(t) - 1]
         /\ h \in Frames => FramesTypeOK'
  <1>1. Depth(t) \in Nat \ {0} /\ Top(t) = frames[t][Depth(t)]
    BY TopPlace
  <1>2. /\ Depth(t) >= 2 /\ Kept(t, Depth(t) - 2) /\ Depth(t)' = Depth(t) - 1
        /\ frames'[t][Depth(t) - 1] = h /\ Last(Front(frames[t])) = frames[t][Depth(t) - 1]
    BY UnwindPlaces
  <1>3. Depth(t) \in Nat \ {0, 1}
    BY <1>1, <1>2
  <1>4. frames \in [Threads -> Seq(Frames)] /\ frames[t] \in Seq(Frames)
    BY DEF FramesTypeOK
  <1>5. Front(frames[t]) \in Seq(Frames)
    BY <1>4 DEF Front
  <1>6. Front(Front(frames[t])) \in Seq(Frames)
    BY <1>5 DEF Front
  <1>7. h \in Frames => FramesTypeOK'
    BY <1>4, <1>6 DEF FramesTypeOK
  <1>8. Cuts(t, Top(t), h)
    BY <1>1, <1>2, <1>3 DEF Cuts
  <1>9. QED
    BY <1>2, <1>7, <1>8

-----------------------------------------------------------------------------
(* The types, and the contract with the budget. *)

\* A run is started by a body, a task is taken by a run that waits.
Carries(b, f) == b.at = IF f.at \in RunStages THEN "body" ELSE "help"
Nested == \A t \in Threads : \A d \in 2 .. Depth(t) : Carries(frames[t][d - 1], frames[t][d])

NType ==
  /\ FramesTypeOK
  /\ Nested
  /\ toStart \in [Threads \ Workers -> Seq(Runs)]
  /\ queue \subseteq Requests
  /\ hold \in [Threads -> Requests \cup {NoNode}]
  /\ icv \in [Threads -> Ceilings]
  /\ active \in [Runs -> BOOLEAN] /\ failed \in [Runs -> BOOLEAN]
  /\ completed \in [Runs -> Nat]
  /\ over \subseteq Runs

LEMMA InitNType == Init => NType
  <1> SUFFICES ASSUME Init PROVE NType
    OBVIOUS
  <1>1. \A t \in Threads : frames[t] = <<>> /\ Depth(t) = 0
    BY DEF Init, Depth
  <1>2. FramesTypeOK /\ Nested
    BY <1>1 DEF Init, FramesTypeOK, Nested
  <1>3. QED
    BY <1>2, NestedAssumption DEF Init, NType

\* What is new is a frame.
LEMMA NewRunFrame ==
  ASSUME NEW g \in Runs
  PROVE  RunFrame(g) \in Frames /\ RunFrame(g) \in RunFrames
  BY NestedAssumption DEF RunFrame, Frames, RunFrames

LEMMA NewNodeFrame ==
  ASSUME NEW i \in Requests
  PROVE  NodeFrame(i) \in Frames /\ NodeFrame(i) \in NodeFrames
  BY NestedAssumption, SMTT(60) DEF NodeFrame, Frames, NodeFrames

\* What execute() does with its frame.
LEMMA RunTurned ==
  ASSUME NEW f \in RunFrames, NEW a \in RunStages
  PROVE  /\ [f EXCEPT !.at = a] \in Frames
         /\ \A n \in Requests \cup {NoNode} : [f EXCEPT !.at = a, !.lent = n] \in Frames
         /\ \A S, T \in SUBSET Requests : [f EXCEPT !.todo = S, !.batch = T] \in Frames
         /\ \A S \in SUBSET Requests : [f EXCEPT !.todo = S] \in Frames
         /\ \A S \in SUBSET Requests : [f EXCEPT !.at = a, !.batch = S] \in Frames
  BY DEF RunFrames, Frames, RunStages

LEMMA NodeTurned ==
  ASSUME NEW f \in NodeFrames
  PROVE  /\ \A a \in NodeStages : a # "body" => [f EXCEPT !.at = a] \in Frames
         /\ \A n \in Requests \cup {NoNode}, c \in Ceilings :
              [f EXCEPT !.at = "body", !.prevHold = n, !.prevIcv = c] \in Frames
         /\ \A s \in Seq(Runs) : f \in Frames => [f EXCEPT !.bodies = s] \in Frames
  <1>1. ASSUME NEW a \in NodeStages, a # "body" PROVE [f EXCEPT !.at = a] \in Frames
    BY <1>1 DEF NodeFrames, Frames, NodeStages
  <1>2. ASSUME NEW n \in Requests \cup {NoNode}, NEW c \in Ceilings
        PROVE  [f EXCEPT !.at = "body", !.prevHold = n, !.prevIcv = c] \in Frames
    <2>1. c \in Nat
      BY BudgetAssumption
    <2>2. QED
      BY <2>1 DEF NodeFrames, Frames
  <1>3. ASSUME NEW s \in Seq(Runs), f \in Frames PROVE [f EXCEPT !.bodies = s] \in Frames
    <2>1. f.at = "body" => f.prevIcv \in Ceilings
      BY <1>3 DEF Frames, NodeFrames, RunFrames
    <2>2. QED
      BY <2>1 DEF NodeFrames, Frames
  <1>4. QED
    BY <1>1, <1>2, <1>3

\* The stacks stay nested when what is new is.
LEMMA NestedKept ==
  ASSUME FramesTypeOK, FramesTypeOK', Nested, NEW t \in Threads, NEW k, Kept(t, k),
         \A d \in 2 .. Depth(t)' : d > k => Carries(frames'[t][d - 1], frames'[t][d])
  PROVE  Nested'
  <1>1. Depth(t) \in Nat /\ Depth(t)' \in Nat /\ k \in Nat /\ k <= Depth(t)
    BY TopPlace DEF Depth, FramesTypeOK, Kept
  <1>2. ASSUME NEW d \in 2 .. Depth(t)' PROVE Carries(frames'[t][d - 1], frames'[t][d])
    <2>1. CASE d <= k
      <3>1. d \in 1 .. k /\ d - 1 \in 1 .. k /\ d \in 2 .. Depth(t)
        BY <1>1, <1>2, <2>1
      <3>2. frames'[t][d] = frames[t][d] /\ frames'[t][d - 1] = frames[t][d - 1]
        BY <3>1 DEF Kept
      <3>3. QED
        BY <3>1, <3>2 DEF Nested
    <2>2. QED
      BY <1>1, <2>1
  <1>3. ASSUME NEW u \in Threads, u # t, NEW d \in 2 .. Depth(u)' PROVE Carries(frames'[u][d - 1], frames'[u][d])
    <2>1. frames'[u] = frames[u] /\ Depth(u)' = Depth(u)
      BY <1>3 DEF Kept, Depth
    <2>2. QED
      BY <1>3, <2>1 DEF Nested
  <1>4. QED
    BY <1>2, <1>3 DEF Nested

LEMMA TurnNested ==
  ASSUME FramesTypeOK, FramesTypeOK', Nested, NEW t \in Threads, NEW f, NEW h, Turns(t, f, h),
         h.at \in RunStages <=> f.at \in RunStages
  PROVE  Nested'
  <1> DEFINE D == Depth(t)
  <1>1. /\ D \in Nat \ {0} /\ Kept(t, D - 1) /\ Depth(t)' = D /\ frames'[t][D] = h /\ frames[t][D] = f
    BY DEF Turns
  <1>2. ASSUME NEW d \in 2 .. D, d > D - 1 PROVE Carries(frames'[t][d - 1], frames'[t][d])
    <2>1. d = D /\ D - 1 \in 1 .. D - 1 /\ D \in 2 .. D
      BY <1>1, <1>2
    <2>2. frames'[t][D - 1] = frames[t][D - 1]
      BY <1>1, <2>1 DEF Kept
    <2>3. Carries(frames[t][D - 1], f)
      BY <1>1, <2>1 DEF Nested
    <2>4. QED
      BY <1>1, <2>1, <2>2, <2>3 DEF Carries
  <1>3. QED
    BY <1>1, <1>2, NestedKept

LEMMA PushNested ==
  ASSUME FramesTypeOK, FramesTypeOK', Nested, NEW t \in Threads, NEW h, Pushes(t, h),
         Depth(t) = 0 \/ Carries(frames[t][Depth(t)], h)
  PROVE  Nested'
  <1> DEFINE D == Depth(t)
  <1>1. D \in Nat /\ Kept(t, D) /\ Depth(t)' = D + 1 /\ frames'[t][D + 1] = h
    BY DEF Pushes
  <1>2. ASSUME NEW d \in 2 .. D + 1, d > D PROVE Carries(frames'[t][d - 1], frames'[t][d])
    <2>1. d = D + 1 /\ d - 1 = D /\ D \in 1 .. D
      BY <1>1, <1>2
    <2>2. frames'[t][D] = frames[t][D]
      BY <1>1, <2>1 DEF Kept
    <2>3. QED
      BY <1>1, <2>1, <2>2
  <1>3. QED
    BY <1>1, <1>2, NestedKept

LEMMA PopNested ==
  ASSUME FramesTypeOK, FramesTypeOK', Nested, NEW t \in Threads, NEW f, Pops(t, f)
  PROVE  Nested'
  <1>1. Depth(t) \in Nat \ {0} /\ Kept(t, Depth(t) - 1) /\ Depth(t)' = Depth(t) - 1
    BY DEF Pops
  <1>2. \A d \in 2 .. Depth(t)' : ~ (d > Depth(t) - 1)
    BY <1>1
  <1>3. QED
    BY <1>1, <1>2, NestedKept

LEMMA CallNested ==
  ASSUME FramesTypeOK, FramesTypeOK', Nested, NEW t \in Threads, NEW f, NEW h, NEW b, Calls(t, f, h, b),
         h.at \in RunStages <=> f.at \in RunStages, Carries(h, b)
  PROVE  Nested'
  <1> DEFINE D == Depth(t)
  <1>1. /\ D \in Nat \ {0} /\ Kept(t, D - 1) /\ Depth(t)' = D + 1
        /\ frames'[t][D] = h /\ frames[t][D] = f /\ frames'[t][D + 1] = b
    BY DEF Calls
  <1>2. ASSUME NEW d \in 2 .. D + 1, d > D - 1 PROVE Carries(frames'[t][d - 1], frames'[t][d])
    <2>1. CASE d = D
      <3>1. D - 1 \in 1 .. D - 1 /\ D \in 2 .. D
        BY <1>1, <1>2, <2>1
      <3>2. frames'[t][D - 1] = frames[t][D - 1]
        BY <1>1, <3>1 DEF Kept
      <3>3. Carries(frames[t][D - 1], f)
        BY <1>1, <3>1 DEF Nested
      <3>4. QED
        BY <1>1, <2>1, <3>2, <3>3 DEF Carries
    <2>2. CASE d = D + 1
      <3>1. d - 1 = D
        BY <1>1, <2>2
      <3>2. QED
        BY <1>1, <2>2, <3>1
    <2>3. QED
      BY <1>1, <1>2, <2>1, <2>2
  <1>3. QED
    BY <1>1, <1>2, NestedKept

LEMMA CutNested ==
  ASSUME FramesTypeOK, FramesTypeOK', Nested, NEW t \in Threads, NEW f, NEW h, Cuts(t, f, h),
         h.at = frames[t][Depth(t) - 1].at
  PROVE  Nested'
  <1> DEFINE D == Depth(t)
  <1>1. /\ D \in Nat \ {0, 1} /\ Kept(t, D - 2) /\ Depth(t)' = D - 1
        /\ frames'[t][D - 1] = h /\ frames[t][D] = f
    BY DEF Cuts
  <1>2. ASSUME NEW d \in 2 .. D - 1, d > D - 2 PROVE Carries(frames'[t][d - 1], frames'[t][d])
    <2>1. d = D - 1 /\ d - 1 \in 1 .. D - 2 /\ d \in 2 .. D
      BY <1>1, <1>2
    <2>2. frames'[t][d - 1] = frames[t][d - 1]
      BY <1>1, <2>1 DEF Kept
    <2>3. Carries(frames[t][d - 1], frames[t][d])
      BY <2>1 DEF Nested
    <2>4. QED
      BY <1>1, <2>1, <2>2, <2>3 DEF Carries
  <1>3. QED
    BY <1>1, <1>2, NestedKept

\* The steps of execute().
LEMMA RunStepType ==
  ASSUME NType, NEW t \in Threads,
         \/ StartTopRun(t) \/ LendWidth(t) \/ SyncWidth(t) \/ JudgePlan(t)
         \/ SeedUngated(t) \/ SubmitBatch(t)
         \/ \E i \in Requests : SeedGranted(t, i) \/ SeedParked(t, i)
  PROVE  NType'
  <1>1. CASE StartTopRun(t)
    <2>1. toStart[t] \in Seq(Runs) /\ toStart[t] # <<>>
      BY <1>1 DEF NType, StartTopRun
    <2>2. Head(toStart[t]) \in Runs /\ Tail(toStart[t]) \in Seq(Runs)
      BY <2>1
    <2>3. <<RunFrame(Head(toStart[t]))>> \in Seq(Frames)
      BY <2>2, NewRunFrame
    <2>4. FramesTypeOK'
      BY <1>1, <2>3 DEF NType, FramesTypeOK, StartTopRun
    <2>5. frames' = [frames EXCEPT ![t] = Append(@, RunFrame(Head(toStart[t])))] /\ Depth(t) = 0
      BY <1>1 DEF StartTopRun, Depth
    <2>6. Nested'
      BY <2>4, <2>5, AppendPushes, PushNested DEF NType
    <2>7. QED
      BY <1>1, <2>2, <2>4, <2>6 DEF NType, StartTopRun
  <1>2. CASE LendWidth(t)
    <2>1. Top(t) \in RunFrames
      BY <1>2, AtPlace DEF NType, LendWidth, RunStages
    <2>2. [Top(t) EXCEPT !.at = "sync", !.lent = hold[t]] \in Frames
      BY <2>1, RunTurned DEF NType, RunStages
    <2>3. FramesTypeOK'
      BY <1>2, <2>2, GotoTurns DEF NType, LendWidth
    <2>4. Turns(t, Top(t), [Top(t) EXCEPT !.at = "sync", !.lent = hold[t]]) /\ Top(t).at \in RunStages
      BY <1>2, GotoTurns, AtPlace DEF NType, LendWidth, RunStages
    <2>5. Nested'
      BY <2>1, <2>3, <2>4, TurnNested DEF NType, RunFrames, RunStages
    <2>6. QED
      BY <1>2, <2>3, <2>5 DEF NType, LendWidth
  <1>3. CASE SyncWidth(t)
    <2>1. Top(t) \in RunFrames
      BY <1>3, AtPlace DEF NType, SyncWidth, RunStages
    <2>2. [Top(t) EXCEPT !.at = "plan"] \in Frames
      BY <2>1, RunTurned DEF RunStages
    <2>3. FramesTypeOK'
      BY <1>3, <2>2, GotoTurns DEF NType, SyncWidth
    <2>4. Turns(t, Top(t), [Top(t) EXCEPT !.at = "plan"]) /\ Top(t).at \in RunStages
      BY <1>3, GotoTurns, AtPlace DEF NType, SyncWidth, RunStages
    <2>5. Nested'
      BY <2>1, <2>3, <2>4, TurnNested DEF NType, RunFrames, RunStages
    <2>6. QED
      BY <1>3, <2>3, <2>5 DEF NType, SyncWidth
  <1>4. CASE JudgePlan(t)
    <2>1. Top(t) \in RunFrames /\ Top(t).run \in Runs
      BY <1>4, AtPlace, SMTT(60) DEF NType, JudgePlan, RunStages, RunFrames
    <2>2. [Top(t) EXCEPT !.at = "seed"] \in Frames
      BY <2>1, RunTurned DEF RunStages
    <2>3. FramesTypeOK'
      BY <1>4, <2>2, GotoTurns DEF NType, JudgePlan
    <2>4. active' \in [Runs -> BOOLEAN]
      BY <1>4, <2>1 DEF NType, JudgePlan, AnyWide
    <2>5. Turns(t, Top(t), [Top(t) EXCEPT !.at = "seed"]) /\ Top(t).at \in RunStages
      BY <1>4, GotoTurns, AtPlace DEF NType, JudgePlan, RunStages
    <2>6. Nested'
      BY <2>1, <2>3, <2>5, TurnNested DEF NType, RunFrames, RunStages
    <2>7. QED
      BY <1>4, <2>3, <2>4, <2>6 DEF NType, JudgePlan
  <1>5. CASE SeedUngated(t)
    <2>1. Top(t) \in RunFrames /\ Top(t).todo \in SUBSET Requests
      BY <1>5, AtPlace, SMTT(60) DEF NType, SeedUngated, RunStages, RunFrames
    <2>2. [Top(t) EXCEPT !.todo = {}, !.batch = Top(t).todo] \in Frames
      BY <2>1, RunTurned DEF RunStages
    <2>3. FramesTypeOK'
      BY <1>5, <2>2, GotoTurns DEF NType, SeedUngated
    <2>4. Turns(t, Top(t), [Top(t) EXCEPT !.todo = {}, !.batch = Top(t).todo]) /\ Top(t).at \in RunStages
      BY <1>5, GotoTurns, AtPlace DEF NType, SeedUngated, RunStages
    <2>5. Nested'
      BY <2>1, <2>3, <2>4, TurnNested DEF NType, RunFrames, RunStages
    <2>6. QED
      BY <1>5, <2>3, <2>5 DEF NType, SeedUngated
  <1>6. CASE SubmitBatch(t)
    <2>1. Top(t) \in RunFrames /\ Top(t).batch \in SUBSET Requests
      BY <1>6, AtPlace DEF NType, SubmitBatch, RunStages, RunFrames
    <2>2. [Top(t) EXCEPT !.at = "help", !.batch = {}] \in Frames
      BY <2>1, RunTurned DEF RunStages
    <2>3. FramesTypeOK'
      BY <1>6, <2>2, GotoTurns DEF NType, SubmitBatch
    <2>4. Turns(t, Top(t), [Top(t) EXCEPT !.at = "help", !.batch = {}]) /\ Top(t).at \in RunStages
      BY <1>6, GotoTurns, AtPlace DEF NType, SubmitBatch, RunStages
    <2>5. Nested'
      BY <2>1, <2>3, <2>4, TurnNested DEF NType, RunFrames, RunStages
    <2>6. QED
      BY <1>6, <2>1, <2>3, <2>5 DEF NType, SubmitBatch
  <1>7. ASSUME NEW i \in Requests, SeedGranted(t, i) \/ SeedParked(t, i) PROVE NType'
    <2>1. At(t, "seed")
      BY <1>7 DEF SeedGranted, SeedParked, NextToSeed
    <2>2. Top(t) \in RunFrames /\ Top(t).batch \in SUBSET Requests /\ Top(t).todo \in SUBSET Requests
      BY <2>1, AtPlace DEF NType, RunStages, RunFrames
    <2>3. CASE SeedGranted(t, i)
      <3>1. [Top(t) EXCEPT !.todo = @ \ {i}, !.batch = @ \cup {i}] \in Frames
        BY <2>2, RunTurned DEF RunStages
      <3>2. FramesTypeOK'
        BY <2>1, <2>3, <3>1, GotoTurns DEF NType, SeedGranted
      <3>3. Turns(t, Top(t), [Top(t) EXCEPT !.todo = @ \ {i}, !.batch = @ \cup {i}]) /\ Top(t).at \in RunStages
        BY <2>1, <2>3, GotoTurns, AtPlace DEF NType, SeedGranted, RunStages
      <3>4. Nested'
        BY <2>2, <3>2, <3>3, TurnNested DEF NType, RunFrames
      <3>5. QED
        BY <2>3, <3>2, <3>4, ZenonT(60) DEF NType, SeedGranted
    <2>4. CASE SeedParked(t, i)
      <3>1. [Top(t) EXCEPT !.todo = @ \ {i}] \in Frames
        BY <2>2, RunTurned DEF RunStages
      <3>2. FramesTypeOK'
        BY <2>1, <2>4, <3>1, GotoTurns DEF NType, SeedParked
      <3>3. Turns(t, Top(t), [Top(t) EXCEPT !.todo = @ \ {i}]) /\ Top(t).at \in RunStages
        BY <2>1, <2>4, GotoTurns, AtPlace DEF NType, SeedParked, RunStages
      <3>4. Nested'
        BY <2>2, <3>2, <3>3, TurnNested DEF NType, RunFrames
      <3>5. QED
        BY <2>4, <3>2, <3>4 DEF NType, SeedParked
    <2>5. QED
      BY <1>7, <2>3, <2>4
  <1>8. QED
    BY <1>1, <1>2, <1>3, <1>4, <1>5, <1>6, <1>7

\* The return of execute() to the frame below it.
LEMMA EndRunStack ==
  ASSUME NType, NEW t \in Threads, EndRun(t), NEW f, f = Top(t)
  PROVE  /\ f \in RunFrames /\ f.at = "help" /\ f = frames[t][Depth(t)] /\ FramesTypeOK'
         /\ \/ Pops(t, f) /\ UNCHANGED failed
            \/ LET b == frames[t][Depth(t) - 1] IN
               /\ Cuts(t, f, [b EXCEPT !.bodies = <<>>]) /\ failed[f.run]
               /\ b \in NodeFrames /\ b.at = "body"
               /\ failed' = [failed EXCEPT ![RunOf(b.node)] = TRUE]
  <1>1. At(t, "help") /\ frames[t] # <<>> /\ Unwind(t, f.run)
    BY DEF EndRun, At
  <1>2. f \in RunFrames /\ f.at = "help" /\ f = frames[t][Depth(t)]
    BY <1>1, AtPlace DEF NType, RunStages
  <1>3. CASE Front(frames[t]) = <<>> \/ ~ failed[f.run]
    <2>1. frames' = [frames EXCEPT ![t] = Front(frames[t])] /\ UNCHANGED failed
      BY <1>1, <1>3 DEF Unwind
    <2>2. Pops(t, f) /\ FramesTypeOK'
      BY <1>1, <2>1, GotoPops DEF NType
    <2>3. QED
      BY <1>2, <2>1, <2>2
  <1>4. CASE ~ (Front(frames[t]) = <<>> \/ ~ failed[f.run])
    <2> DEFINE b == Last(Front(frames[t]))
               h == [b EXCEPT !.bodies = <<>>]
    <2>1. /\ frames' = [frames EXCEPT ![t] = Append(Front(Front(@)), h)]
          /\ failed' = [failed EXCEPT ![RunOf(b.node)] = TRUE]
      BY <1>1, <1>4 DEF Unwind
    <2>2. Cuts(t, f, h) /\ b = frames[t][Depth(t) - 1] /\ (h \in Frames => FramesTypeOK')
      BY <1>1, <1>4, <2>1, UnwindCuts DEF NType
    <2>3. b = frames[t][Depth(t) - 1]
      BY <2>2
    <2>4. /\ b \in Frames /\ b \in NodeFrames /\ b.at = "body"
      <3>1. Depth(t) \in 2 .. Depth(t) /\ Depth(t) - 1 \in 1 .. Depth(t)
        BY <2>2, TopPlace DEF Cuts, NType
      <3>2. b.at = "body"
        BY <1>2, <2>3, <3>1 DEF NType, Nested, Carries, RunStages
      <3>3. b \in NodeFrames
        BY <2>3, <3>1, <3>2, Kinds DEF NType, RunStages
      <3>4. b \in Frames
        BY <2>3, <3>1 DEF NType, FramesTypeOK, Depth
      <3>5. QED
        BY <3>2, <3>3, <3>4
    <2>5. h \in Frames
      <3>1. <<>> \in Seq(Runs)
        OBVIOUS
      <3>2. QED
        BY <2>4, <3>1, NodeTurned
    <2>6. QED
      BY <1>2, <1>4, <2>1, <2>2, <2>3, <2>4, <2>5
  <1>5. QED
    BY <1>3, <1>4

LEMMA EndRunType ==
  ASSUME NType, NEW t \in Threads, EndRun(t)
  PROVE  NType'
  <1>1. PICK f : f = Top(t)
    OBVIOUS
  <1>2. f \in RunFrames /\ f.at = "help" /\ FramesTypeOK'
    BY <1>1, EndRunStack
  <1>3. Nested' /\ failed' \in [Runs -> BOOLEAN]
    <2>1. CASE Pops(t, f) /\ UNCHANGED failed
      BY <1>2, <2>1, PopNested DEF NType
    <2>2. CASE ~ (Pops(t, f) /\ UNCHANGED failed)
      <3>1. PICK b : b = frames[t][Depth(t) - 1]
        OBVIOUS
      <3>2. /\ Cuts(t, f, [b EXCEPT !.bodies = <<>>]) /\ b \in NodeFrames
            /\ failed' = [failed EXCEPT ![RunOf(b.node)] = TRUE]
        BY <1>1, <2>2, <3>1, EndRunStack
      <3>3. [b EXCEPT !.bodies = <<>>].at = b.at
        BY <3>2 DEF NodeFrames
      <3>4. QED
        BY <1>2, <3>1, <3>2, <3>3, CutNested DEF NType
    <2>3. QED
      BY <2>1, <2>2
  <1>4. over' \in SUBSET Runs /\ hold' \in [Threads -> Requests \cup {NoNode}]
    BY <1>1, <1>2 DEF NType, EndRun, RunFrames
  <1>5. QED
    BY <1>2, <1>3, <1>4 DEF NType, EndRun

\* A task is taken by an idle worker, or by a run that waits.
LEMMA TakeTaskStack ==
  ASSUME NType, NEW t \in Threads, TakeTask(t)
  PROVE  \E i \in queue :
           /\ i \in Requests /\ Pushes(t, NodeFrame(i)) /\ queue' = queue \ {i}
           /\ FramesTypeOK' /\ Nested'
  <1>1. PICK i \in queue : queue' = queue \ {i} /\ frames' = [frames EXCEPT ![t] = Append(@, NodeFrame(i))]
    BY DEF TakeTask
  <1>2. i \in Requests /\ NodeFrame(i) \in Frames
    BY NewNodeFrame DEF NType
  <1>3. Pushes(t, NodeFrame(i)) /\ FramesTypeOK'
    BY <1>1, <1>2, AppendPushes DEF NType
  <1>4. Depth(t) = 0 \/ frames[t][Depth(t)].at = "help"
    <2>1. CASE frames[t] = <<>>
      BY <2>1 DEF Depth
    <2>2. CASE At(t, "help")
      BY <2>2, AtPlace DEF NType
    <2>3. QED
      BY <2>1, <2>2 DEF TakeTask
  <1>5. NodeFrame(i).at \notin RunStages
    BY DEF NodeFrame, RunStages
  <1>6. Nested'
    BY <1>3, <1>4, <1>5, PushNested DEF NType, Carries
  <1>7. QED
    BY <1>1, <1>2, <1>3, <1>6

\* The steps of run_node() and complete().
LEMMA NodeStepType ==
  ASSUME NType, NEW t \in Threads,
         TakeTask(t) \/ EnterNode(t) \/ NestedRun(t) \/ LeaveNode(t) \/ Complete(t) \/ CountCompleted(t)
  PROVE  NType'
  <1>1. CASE TakeTask(t)
    <2>1. FramesTypeOK' /\ Nested' /\ queue' \subseteq Requests
      BY <1>1, TakeTaskStack DEF NType
    <2>2. QED
      BY <1>1, <2>1 DEF NType, TakeTask
  <1>2. CASE EnterNode(t)
    <2>1. At(t, "start") /\ Top(t) \in NodeFrames /\ Top(t).at = "start" /\ Top(t).node \in Requests
      BY <1>2, AtPlace DEF NType, EnterNode, NodeStages, NodeFrames
    <2>2. PICK h : /\ h = IF failed[RunOf(Top(t).node)] THEN [Top(t) EXCEPT !.at = "complete"]
                          ELSE [Top(t) EXCEPT !.at = "body", !.prevHold = hold[t], !.prevIcv = icv[t]]
      OBVIOUS
    <2>3. h \in Frames /\ h.at \notin RunStages
      <3>1. hold[t] \in Requests \cup {NoNode} /\ icv[t] \in Ceilings
        BY DEF NType
      <3>2. QED
        BY <2>1, <2>2, <3>1, NodeTurned DEF NodeStages, NodeFrames, RunStages
    <2>4. Goto(t, <<h>>)
      BY <1>2, <2>2 DEF EnterNode
    <2>5. Turns(t, Top(t), h) /\ FramesTypeOK'
      BY <2>1, <2>3, <2>4, GotoTurns DEF NType
    <2>6. Nested'
      BY <2>1, <2>3, <2>5, TurnNested DEF NType, RunStages
    <2>7. hold' \in [Threads -> Requests \cup {NoNode}]
      BY <1>2, <2>1 DEF NType, EnterNode
    <2>8. icv' \in [Threads -> Ceilings]
      <3>1. ThreadWidth[Top(t).node] \in Ceilings \cup {0}
        BY <2>1, NestedAssumption
      <3>2. ThreadWidth[Top(t).node] > 0 => ThreadWidth[Top(t).node] \in Ceilings
        BY <3>1
      <3>3. \/ icv' = icv
            \/ ThreadWidth[Top(t).node] > 0 /\ icv' = [icv EXCEPT ![t] = ThreadWidth[Top(t).node]]
        BY <1>2 DEF EnterNode
      <3>4. QED
        BY <3>2, <3>3 DEF NType
    <2>9. QED
      BY <1>2, <2>5, <2>6, <2>7, <2>8 DEF NType, EnterNode
  <1>3. CASE NestedRun(t)
    <2>1. /\ At(t, "body") /\ Top(t) \in NodeFrames /\ Top(t) \in Frames /\ Top(t).at = "body"
          /\ Top(t).bodies \in Seq(Runs) /\ Top(t).bodies # <<>>
      <3>1. At(t, "body") /\ Top(t).bodies # <<>> /\ FramesTypeOK
        BY <1>3 DEF NType, NestedRun
      <3>2. Top(t) \in NodeFrames /\ Top(t).at = "body" /\ Depth(t) \in 1 .. Depth(t) /\ Top(t) = frames[t][Depth(t)]
        BY <3>1, AtPlace DEF NodeStages
      <3>3. frames[t] \in Seq(Frames)
        BY <3>1 DEF FramesTypeOK
      <3>4. Top(t) \in Frames
        BY <3>2, <3>3 DEF Depth
      <3>5. Top(t).bodies \in Seq(Runs)
        BY <3>2 DEF NodeFrames
      <3>6. QED
        BY <3>1, <3>2, <3>4, <3>5
    <2>2. PICK h : h = [Top(t) EXCEPT !.bodies = Tail(Top(t).bodies)]
      OBVIOUS
    <2>3. Head(Top(t).bodies) \in Runs /\ Tail(Top(t).bodies) \in Seq(Runs)
      BY <2>1
    <2>4. h \in Frames /\ h.at = "body"
      BY <2>1, <2>2, <2>3, NodeTurned DEF NodeFrames
    <2>5. RunFrame(Head(Top(t).bodies)) \in Frames /\ RunFrame(Head(Top(t).bodies)).at = "enter"
      BY <2>3, NewRunFrame DEF RunFrame
    <2>6. Goto(t, <<h, RunFrame(Head(Top(t).bodies))>>)
      BY <1>3, <2>2 DEF NestedRun
    <2>7. Calls(t, Top(t), h, RunFrame(Head(Top(t).bodies))) /\ FramesTypeOK'
      BY <2>1, <2>4, <2>5, <2>6, GotoCalls DEF NType
    <2>8. Nested'
      BY <2>1, <2>4, <2>5, <2>7, CallNested DEF NType, Carries, RunStages
    <2>9. QED
      BY <1>3, <2>7, <2>8 DEF NType, NestedRun
  <1>4. CASE LeaveNode(t) \/ Complete(t)
    <2>1. PICK a \in {"complete", "count"} : Goto(t, <<[Top(t) EXCEPT !.at = a]>>)
      BY <1>4 DEF LeaveNode, Complete
    <2>2. PICK b \in {"body", "complete"} : At(t, b)
      BY <1>4 DEF LeaveNode, Complete
    <2>3. Top(t) \in NodeFrames /\ Top(t) \in Frames /\ Top(t).at = b
      BY <2>2, AtPlace DEF NType, NodeStages, FramesTypeOK, Depth
    <2>4. [Top(t) EXCEPT !.at = a] \in Frames /\ [Top(t) EXCEPT !.at = a].at = a
      BY <2>3, NodeTurned DEF NodeStages, NodeFrames
    <2>5. Turns(t, Top(t), [Top(t) EXCEPT !.at = a]) /\ FramesTypeOK'
      BY <2>1, <2>2, <2>4, GotoTurns DEF NType
    <2>6. Nested'
      BY <2>3, <2>4, <2>5, TurnNested DEF NType, RunStages
    <2>7. CASE Complete(t)
      BY <2>5, <2>6, <2>7 DEF NType, Complete
    <2>8. CASE LeaveNode(t)
      <3>1. Top(t).prevIcv \in Ceilings /\ Top(t).prevHold \in Requests \cup {NoNode}
        <4>1. Top(t).at = "body"
          BY <2>8, AtPlace DEF LeaveNode, NType
        <4>2. QED
          BY <2>3, <4>1 DEF Frames, NodeFrames, RunFrames
      <3>2. failed' \in [Runs -> BOOLEAN]
        BY <2>8 DEF NType, LeaveNode
      <3>3. QED
        BY <2>5, <2>6, <2>8, <3>1, <3>2 DEF NType, LeaveNode
    <2>9. QED
      BY <1>4, <2>7, <2>8
  <1>5. CASE CountCompleted(t)
    <2>1. At(t, "count") /\ Goto(t, <<>>)
      BY <1>5 DEF CountCompleted
    <2>2. Pops(t, Top(t)) /\ FramesTypeOK'
      BY <2>1, GotoPops DEF NType
    <2>3. Nested'
      BY <2>2, PopNested DEF NType
    <2>4. completed' \in [Runs -> Nat]
      <3>1. PICK g : g = RunOf(Top(t).node)
        OBVIOUS
      <3>2. completed' = [completed EXCEPT ![g] = completed[g] + 1]
        BY <1>5, <3>1 DEF CountCompleted
      <3>3. CASE g \in Runs
        BY <3>2, <3>3 DEF NType
      <3>4. CASE g \notin Runs
        BY <3>2, <3>4 DEF NType
      <3>5. QED
        BY <3>3, <3>4
    <2>5. QED
      BY <1>5, <2>2, <2>3, <2>4 DEF NType, CountCompleted
  <1>6. QED
    BY <1>1, <1>2, <1>3, <1>4, <1>5

\* The budget's own steps leave the stacks alone.
LEMMA BudgetStepType ==
  ASSUME NType, TypeOK, NEW t \in Threads, DrainBudget(t) \/ ResumeParked(t)
  PROVE  NType'
  <1>1. frames' = frames /\ toStart' = toStart /\ hold' = hold /\ icv' = icv /\ active' = active
        /\ completed' = completed /\ failed' = failed /\ over' = over
    BY DEF DrainBudget, ResumeParked, nestVars
  <1>2. queue' \subseteq Requests
    <2>1. CASE DrainBudget(t)
      BY <2>1 DEF DrainBudget, nestVars, NType
    <2>2. CASE ResumeParked(t)
      BY <2>2 DEF ResumeParked, Resume, NType, TypeOK
    <2>3. QED
      BY <2>1, <2>2
  <1>3. QED
    BY <1>1, <1>2 DEF NType, FramesTypeOK, Nested, Depth

LEMMA NextNType == NType /\ TypeOK /\ [NestNext]_vars => NType'
  <1> SUFFICES ASSUME NType, TypeOK, [NestNext]_vars PROVE NType'
    OBVIOUS
  <1>1. CASE UNCHANGED vars
    BY <1>1 DEF vars, nestVars, NType, FramesTypeOK, Nested, Depth
  <1>2. ASSUME NEW t \in Threads, Step(t) \/ TakeTask(t) PROVE NType'
    BY <1>2, RunStepType, EndRunType, NodeStepType, BudgetStepType DEF Step
  <1>3. QED
    BY <1>1, <1>2 DEF NestNext, Done

\* What a thread takes for the size of the machine is a reading the budget allows.
LEMMA MachineSeen ==
  ASSUME NType, NEW t \in Threads
  PROVE  MachineSeenBy(t) \in MachineWidths(t)
  BY DEF NType, MachineSeenBy, MachineWidths

\* Every step of the executor is a call the budget's contract allows, or none.
LEMMA NextContract == NType /\ [NestNext]_vars => [Next]_budgetVars
  <1> SUFFICES ASSUME NType, [NestNext]_vars PROVE [Next]_budgetVars
    OBVIOUS
  <1>1. CASE UNCHANGED vars
    BY <1>1 DEF vars
  <1>2. ASSUME NEW t \in Threads, Step(t) \/ TakeTask(t) PROVE [Next]_budgetVars
    <2>1. CASE LendWidth(t)
      <3>1. hold[t] # NoNode => hold[t] \in Requests
        BY DEF NType
      <3>2. QED
        BY <2>1, <3>1 DEF LendWidth, Next
    <2>2. CASE SyncWidth(t)
      BY <2>2, MachineSeen DEF SyncWidth, Next
    <2>3. ASSUME NEW i \in Requests, SeedGranted(t, i) \/ SeedParked(t, i) PROVE [Next]_budgetVars
      <3>1. Acquire(t, i, MachineSeenBy(t))
        BY <2>3 DEF SeedGranted, SeedParked, Acquire
      <3>2. MachineSeenBy(t) \in MachineWidths(t)
        BY MachineSeen
      <3>3. QED
        BY <3>1, <3>2 DEF Next
    <2>4. CASE EndRun(t)
      <3>1. Top(t) \in RunFrames
        BY <2>4, EndRunStack
      <3>2. Top(t).lent # NoNode => Top(t).lent \in Requests
        BY <3>1 DEF RunFrames
      <3>3. QED
        BY <2>4, <3>2 DEF EndRun, Next
    <2>5. CASE DrainBudget(t)
      BY <2>5 DEF DrainBudget, Next
    <2>6. CASE ResumeParked(t)
      BY <2>6 DEF ResumeParked, Next
    <2>7. CASE Complete(t)
      <3>1. Top(t).node \in Requests
        BY <2>7, AtPlace DEF NType, Complete, NodeStages, NodeFrames
      <3>2. QED
        BY <2>7, <3>1 DEF Complete, Next
    <2>8. CASE \/ StartTopRun(t) \/ JudgePlan(t) \/ SeedUngated(t) \/ SubmitBatch(t) \/ TakeTask(t)
               \/ EnterNode(t) \/ NestedRun(t) \/ LeaveNode(t) \/ CountCompleted(t)
      BY <2>8 DEF StartTopRun, JudgePlan, SeedUngated, SubmitBatch, TakeTask, EnterNode, NestedRun,
                  LeaveNode, CountCompleted
    <2>9. QED
      BY <1>2, <2>1, <2>2, <2>3, <2>4, <2>5, <2>6, <2>7, <2>8 DEF Step
  <1>3. QED
    BY <1>1, <1>2 DEF NestNext, Done

\* The executor with its nested runs implements the client that the budget is
\* verified with: widths are asked for once, lent and taken back in pairs, and
\* handed back once, so every theorem about the budget holds under it.
THEOREM KeepsTheContract == NestSpec => Spec
  <1>1. Init => NType /\ IInv /\ BudgetInit
    BY InitNType, InitIInv DEF Init
  <1>2. NType /\ IInv /\ [NestNext]_vars => (NType /\ IInv)' /\ [Next]_budgetVars
    BY NextNType, NextContract, NextIInv DEF IInv
  <1>3. QED
    BY <1>1, <1>2, PTL DEF NestSpec, Spec

-----------------------------------------------------------------------------
(* The account of runs and nodes.  st[i] is the stage of node i and sp[i]    *)
(* the place of its frame, rs[g] the stage of run g and rp[g] the place of   *)
(* its frame.  The state does not have them: the invariant asserts that they *)
(* exist, and that the state agrees with them.                               *)

LooseStages == {"idle", "todo", "batch", "budget", "queued"}
Stages == LooseStages \cup NodeStages \cup {"done"}

AccountTyped(st, sp, rs, rp) ==
  /\ st \in [Requests -> Stages] /\ rs \in [Runs -> RunStages \cup {"unborn", "over"}]
  /\ DOMAIN sp = Requests /\ sp = [i \in Requests |-> sp[i]]
  /\ DOMAIN rp = Runs /\ rp = [g \in Runs |-> rp[g]]

\* Whose frame there is at a place of a stack.
PlacedAt(f, u, d, st, sp, rs, rp) ==
  /\ f.at \in RunStages => rs[f.run] = f.at /\ rp[f.run] = <<u, d>>
  /\ f.at \in NodeStages => st[f.node] = f.at /\ sp[f.node] = <<u, d>>

\* A frame is where the account has it, and what the account has a frame for has one.
Placed(st, sp, rs, rp) ==
  /\ \A u \in Threads : \A d \in 1 .. Depth(u) : PlacedAt(frames[u][d], u, d, st, sp, rs, rp)
  /\ \A g \in Runs : rs[g] \in RunStages =>
       \E u \in Threads : \E d \in 1 .. Depth(u) : frames[u][d].at \in RunStages /\ frames[u][d].run = g
  /\ \A i \in Requests : st[i] \in NodeStages =>
       \E u \in Threads : \E d \in 1 .. Depth(u) : frames[u][d].at \in NodeStages /\ frames[u][d].node = i

\* A node moves in a run that goes on, and is done when the run is over.
Members(st, rs) ==
  \A i \in Requests :
    /\ st[i] # "idle" => RunOf(i) \in Runs /\ i \in NodesOf[RunOf(i)] /\ rs[RunOf(i)] # "unborn"
    /\ st[i] \notin {"idle", "done"} => rs[RunOf(i)] \in RunStages

\* Before it is seeded a run has all its nodes still to do.
EarlyStages == {"enter", "sync", "plan"}
Early(st, rs) == \A g \in Runs : rs[g] \in EarlyStages => \A i \in NodesOf[g] : st[i] = "todo"

\* The frame of a run knows its nodes to do and those in its batch.
SeedingAt(f, st) ==
  f.at \in RunStages =>
    /\ f.todo = {i \in NodesOf[f.run] : st[i] = "todo"}
    /\ f.batch = {i \in NodesOf[f.run] : st[i] = "batch"}
    /\ f.at = "seed" /\ ~ active[f.run] => f.todo = {} \/ f.batch = {}
Seeding(st) == \A u \in Threads : \A d \in 1 .. Depth(u) : SeedingAt(frames[u][d], st)

InQueue(st) == queue = {i \in Requests : st[i] = "queued"}

Counted(st) == \A g \in Runs : completed[g] = Cardinality({i \in NodesOf[g] : st[i] = "done"})

\* Lists of runs that are not started yet, each of them once.
Has(s, g) == \E k \in 1 .. Len(s) : s[k] = g
Distinct(s) == \A j, k \in 1 .. Len(s) : s[j] = s[k] => j = k
Pending(s, whole, rs) == Distinct(s) /\ \A g \in Runs : Has(s, g) => Has(whole, g) /\ rs[g] = "unborn"

Unstarted(st, rs) ==
  /\ \A t \in Threads \ Workers : Pending(toStart[t], TopRuns[t], rs)
  /\ \A u \in Threads : \A d \in 1 .. Depth(u) :
       frames[u][d].at \in NodeStages => Pending(frames[u][d].bodies, BodyRuns[frames[u][d].node], rs)
  /\ \A i \in Requests : st[i] \in LooseStages => Pending(BodyRuns[i], BodyRuns[i], rs)

RunAccount(st, sp, rs, rp) ==
  /\ AccountTyped(st, sp, rs, rp) /\ Placed(st, sp, rs, rp) /\ Members(st, rs) /\ Early(st, rs)
  /\ Seeding(st) /\ InQueue(st) /\ Counted(st) /\ Unstarted(st, rs)

-----------------------------------------------------------------------------
(* Facts about the constants and the lists. *)

\* A node is of one run.
LEMMA OwnRun ==
  ASSUME NEW g \in Runs, NEW i \in NodesOf[g]
  PROVE  RunOf(i) = g /\ i \in Requests
  <1>1. \A h \in Runs : i \in NodesOf[h] => h = g
    BY NestedAssumption
  <1>2. QED
    BY <1>1, NestedAssumption DEF RunOf

\* A list of runs of which none is started is Pending, and so is its rest when its
\* head is.
LEMMA PendingTail ==
  ASSUME NEW s \in Seq(Runs), s # <<>>, NEW w, NEW rs, NEW rs2,
         Pending(s, w, rs), \A g \in Runs : g # Head(s) => rs2[g] = rs[g]
  PROVE  /\ Pending(Tail(s), w, rs2) /\ Has(s, Head(s)) /\ Has(w, Head(s))
         /\ Head(s) \in Runs /\ Tail(s) \in Seq(Runs) /\ rs[Head(s)] = "unborn"
  <1>1. PICK n \in Nat : n = Len(s) /\ n >= 1
    OBVIOUS
  <1>2. /\ Head(s) \in Runs /\ Head(s) = s[1] /\ Tail(s) \in Seq(Runs) /\ Len(Tail(s)) = n - 1
        /\ \A k \in 1 .. n - 1 : Tail(s)[k] = s[k + 1]
    BY <1>1
  <1>3. Has(s, Head(s))
    BY <1>1, <1>2 DEF Has
  <1>4. Has(w, Head(s)) /\ rs[Head(s)] = "unborn" /\ Distinct(s)
    BY <1>2, <1>3 DEF Pending
  <1>5. ASSUME NEW j \in 1 .. Len(Tail(s)), NEW k \in 1 .. Len(Tail(s)), Tail(s)[j] = Tail(s)[k] PROVE j = k
    <2>1. j + 1 \in 1 .. Len(s) /\ k + 1 \in 1 .. Len(s) /\ s[j + 1] = s[k + 1]
      BY <1>1, <1>2, <1>5
    <2>2. j + 1 = k + 1
      BY <1>4, <2>1 DEF Distinct
    <2>3. QED
      BY <1>1, <1>2, <2>2
  <1>6. ASSUME NEW g \in Runs, Has(Tail(s), g) PROVE Has(w, g) /\ rs2[g] = "unborn"
    <2>1. PICK k \in 1 .. n - 1 : s[k + 1] = g
      BY <1>1, <1>2, <1>6 DEF Has
    <2>2. k + 1 \in 1 .. Len(s) /\ 1 \in 1 .. Len(s) /\ k + 1 # 1
      BY <1>1, <2>1
    <2>3. g # Head(s)
      BY <1>2, <1>4, <2>1, <2>2 DEF Distinct
    <2>4. Has(s, g)
      BY <2>1, <2>2 DEF Has
    <2>5. QED
      BY <2>3, <2>4 DEF Pending
  <1>7. QED
    BY <1>2, <1>3, <1>4, <1>5, <1>6 DEF Pending, Distinct

\* A run that is started and not in a list leaves the list pending.
LEMMA PendingOther ==
  ASSUME NEW s, NEW w, NEW rs, NEW rs2, NEW b, Pending(s, w, rs), ~ Has(w, b) \/ rs[b] # "unborn",
         \A g \in Runs : g # b => rs2[g] = rs[g]
  PROVE  Pending(s, w, rs2)
  BY DEF Pending

\* Emptying a list starts nothing.
LEMMA PendingNone ==
  ASSUME NEW w, NEW rs
  PROVE  Pending(<<>>, w, rs)
  BY DEF Pending, Distinct, Has

\* A run is in one list only.
LEMMA OneList ==
  /\ \A t, u \in Threads \ Workers : \A g \in Runs : Has(TopRuns[t], g) /\ Has(TopRuns[u], g) => t = u
  /\ \A i, j \in Requests : \A g \in Runs : Has(BodyRuns[i], g) /\ Has(BodyRuns[j], g) => i = j
  /\ \A t \in Threads \ Workers : \A i \in Requests : \A g \in Runs : ~ (Has(TopRuns[t], g) /\ Has(BodyRuns[i], g))
  <1>1. \A s \in Seq(Runs) : \A g \in Runs : Has(s, g) => g \in Range(s)
    BY DEF Has, Range
  <1>2. /\ \A t \in Threads \ Workers : TopRuns[t] \in Seq(Runs)
        /\ \A i \in Requests : BodyRuns[i] \in Seq(Runs)
    BY NestedAssumption
  <1>3. StartedOnce
    BY NestedAssumption
  <1>4. \A t, u \in Threads \ Workers : \A g \in Runs : Has(TopRuns[t], g) /\ Has(TopRuns[u], g) => t = u
    BY <1>1, <1>2, <1>3 DEF StartedOnce
  <1>5. \A i, j \in Requests : \A g \in Runs : Has(BodyRuns[i], g) /\ Has(BodyRuns[j], g) => i = j
    BY <1>1, <1>2, <1>3 DEF StartedOnce
  <1>6. \A t \in Threads \ Workers : \A i \in Requests : \A g \in Runs : ~ (Has(TopRuns[t], g) /\ Has(BodyRuns[i], g))
    BY <1>1, <1>2, <1>3 DEF StartedOnce
  <1>7. QED
    BY <1>4, <1>5, <1>6

\* At first every list is pending.
LEMMA PendingInit ==
  ASSUME NEW rs, \A g \in Runs : rs[g] = "unborn"
  PROVE  /\ \A t \in Threads \ Workers : Pending(TopRuns[t], TopRuns[t], rs)
         /\ \A i \in Requests : Pending(BodyRuns[i], BodyRuns[i], rs)
  <1>1. \A s \in Seq(Runs) : IsInjective(s) => Distinct(s)
    BY DEF IsInjective, Distinct
  <1>2. /\ \A t \in Threads \ Workers : TopRuns[t] \in Seq(Runs) /\ IsInjective(TopRuns[t])
        /\ \A i \in Requests : BodyRuns[i] \in Seq(Runs) /\ IsInjective(BodyRuns[i])
    BY NestedAssumption DEF StartedOnce
  <1>3. QED
    BY <1>1, <1>2 DEF Pending

LEMMA InitAccounted ==
  ASSUME Init
  PROVE  \E st, sp, rs, rp : RunAccount(st, sp, rs, rp) /\ \A i \in Requests : st[i] = "idle"
  <1>1. PICK st : st = [i \in Requests |-> "idle"]
    OBVIOUS
  <1>2. PICK sp : sp = [i \in Requests |-> 0]
    OBVIOUS
  <1>3. PICK rs : rs = [g \in Runs |-> "unborn"]
    OBVIOUS
  <1>4. PICK rp : rp = [g \in Runs |-> 0]
    OBVIOUS
  <1>5. AccountTyped(st, sp, rs, rp)
    BY <1>1, <1>2, <1>3, <1>4 DEF AccountTyped, Stages, LooseStages
  <1>6. \A t \in Threads : Depth(t) = 0
    BY DEF Init, Depth
  <1>7. Placed(st, sp, rs, rp) /\ Members(st, rs) /\ Early(st, rs) /\ Seeding(st)
    BY <1>1, <1>3, <1>6 DEF Placed, Members, Early, Seeding, RunStages, NodeStages, EarlyStages
  <1>8. InQueue(st)
    BY <1>1 DEF Init, InQueue
  <1>9. Counted(st)
    <2>1. ASSUME NEW g \in Runs PROVE {i \in NodesOf[g] : st[i] = "done"} = {} /\ completed[g] = 0
      BY <1>1, NestedAssumption DEF Init
    <2>2. QED
      BY <2>1, FS_EmptySet DEF Counted
  <1>10. Unstarted(st, rs)
    <2>1. \A g \in Runs : rs[g] = "unborn"
      BY <1>3
    <2>2. \A t \in Threads \ Workers : toStart[t] = TopRuns[t]
      BY DEF Init
    <2>3. QED
      BY <1>6, <2>1, <2>2, PendingInit DEF Unstarted
  <1>11. RunAccount(st, sp, rs, rp) /\ \A i \in Requests : st[i] = "idle"
    BY <1>1, <1>5, <1>7, <1>8, <1>9, <1>10 DEF RunAccount
  <1>12. QED
    BY <1>11

-----------------------------------------------------------------------------
(* What a step that keeps the frames up to depth k has to show. *)

Above(q, t, k) == \E d \in Nat : d > k /\ q = <<t, d>>

\* The account of what has a frame that is kept does not change.
NodesStill(t, k, st, sp, st2, sp2) ==
  \A i \in Requests : st[i] \in NodeStages /\ ~ Above(sp[i], t, k) => st2[i] = st[i] /\ sp2[i] = sp[i]
RunsStill(t, k, rs, rp, rs2, rp2) ==
  \A g \in Runs : rs[g] \in RunStages /\ ~ Above(rp[g], t, k) => rs2[g] = rs[g] /\ rp2[g] = rp[g]

\* What has a frame by the new account had one, which is kept, or has a new one.
NodesFound(t, k, st, sp, st2) ==
  \A i \in Requests : st2[i] \in NodeStages =>
    \/ st[i] \in NodeStages /\ ~ Above(sp[i], t, k)
    \/ \E d \in 1 .. Depth(t)' : d > k /\ frames'[t][d].at \in NodeStages /\ frames'[t][d].node = i
RunsFound(t, k, rs, rp, rs2) ==
  \A g \in Runs : rs2[g] \in RunStages =>
    \/ rs[g] \in RunStages /\ ~ Above(rp[g], t, k)
    \/ \E d \in 1 .. Depth(t)' : d > k /\ frames'[t][d].at \in RunStages /\ frames'[t][d].run = g

NewPlaced(t, k, st, sp, rs, rp) ==
  \A d \in 1 .. Depth(t)' : d > k => PlacedAt(frames'[t][d], t, d, st, sp, rs, rp)

\* A frame that is kept is not above k.
LEMMA KeptPlace ==
  ASSUME NType, NEW st, NEW sp, NEW rs, NEW rp, Placed(st, sp, rs, rp),
         NEW t \in Threads, NEW k \in Nat, NEW u \in Threads, NEW d \in 1 .. Depth(u), u # t \/ d <= k,
         NEW f, f = frames[u][d]
  PROVE  /\ f.at \in NodeStages => /\ f.node \in Requests /\ st[f.node] = f.at /\ sp[f.node] = <<u, d>>
                                   /\ ~ Above(sp[f.node], t, k)
         /\ f.at \in RunStages => /\ f.run \in Runs /\ rs[f.run] = f.at /\ rp[f.run] = <<u, d>>
                                  /\ ~ Above(rp[f.run], t, k)
  <1>1. PlacedAt(f, u, d, st, sp, rs, rp)
    BY DEF Placed
  <1>2. ~ Above(<<u, d>>, t, k)
    <2>1. ASSUME NEW e \in Nat, e > k, <<u, d>> = <<t, e>> PROVE FALSE
      <3>1. u = t /\ d = e
        BY <2>1
      <3>2. QED
        BY <2>1, <3>1
    <2>2. QED
      BY <2>1 DEF Above
  <1>3. f.at \in NodeStages => f.node \in Requests
    BY Kinds DEF NType, NodeFrames
  <1>4. f.at \in RunStages => f.run \in Runs
    BY Kinds DEF NType, RunFrames
  <1>5. QED
    BY <1>1, <1>2, <1>3, <1>4 DEF PlacedAt

\* What the account has above k has a frame there.
LEMMA AboveIs ==
  ASSUME NType, NEW st, NEW sp, NEW rs, NEW rp, Placed(st, sp, rs, rp), NEW t \in Threads, NEW k \in Nat
  PROVE  /\ \A i \in Requests : st[i] \in NodeStages /\ Above(sp[i], t, k) =>
              \E d \in 1 .. Depth(t) : d > k /\ frames[t][d].at \in NodeStages /\ frames[t][d].node = i
         /\ \A g \in Runs : rs[g] \in RunStages /\ Above(rp[g], t, k) =>
              \E d \in 1 .. Depth(t) : d > k /\ frames[t][d].at \in RunStages /\ frames[t][d].run = g
  <1>1. ASSUME NEW i \in Requests, st[i] \in NodeStages, Above(sp[i], t, k)
        PROVE  \E d \in 1 .. Depth(t) : d > k /\ frames[t][d].at \in NodeStages /\ frames[t][d].node = i
    <2>1. PICK u \in Threads : \E d \in 1 .. Depth(u) : frames[u][d].at \in NodeStages /\ frames[u][d].node = i
      BY <1>1 DEF Placed
    <2>2. PICK d \in 1 .. Depth(u) : frames[u][d].at \in NodeStages /\ frames[u][d].node = i
      BY <2>1
    <2>3. sp[i] = <<u, d>>
      BY <2>2 DEF Placed, PlacedAt
    <2>4. u = t /\ d > k
      BY <1>1, <2>3 DEF Above
    <2>5. QED
      BY <2>2, <2>4
  <1>2. ASSUME NEW g \in Runs, rs[g] \in RunStages, Above(rp[g], t, k)
        PROVE  \E d \in 1 .. Depth(t) : d > k /\ frames[t][d].at \in RunStages /\ frames[t][d].run = g
    <2>1. PICK u \in Threads : \E d \in 1 .. Depth(u) : frames[u][d].at \in RunStages /\ frames[u][d].run = g
      BY <1>2 DEF Placed
    <2>2. PICK d \in 1 .. Depth(u) : frames[u][d].at \in RunStages /\ frames[u][d].run = g
      BY <2>1
    <2>3. rp[g] = <<u, d>>
      BY <2>2 DEF Placed, PlacedAt
    <2>4. u = t /\ d > k
      BY <1>2, <2>3 DEF Above
    <2>5. QED
      BY <2>2, <2>4
  <1>3. QED
    BY <1>1, <1>2

LEMMA PlacedKept ==
  ASSUME NType, FramesTypeOK', NEW st, NEW sp, NEW rs, NEW rp, Placed(st, sp, rs, rp),
         NEW st2, NEW sp2, NEW rs2, NEW rp2, NEW t \in Threads, NEW k \in Nat, Kept(t, k),
         NodesStill(t, k, st, sp, st2, sp2), RunsStill(t, k, rs, rp, rs2, rp2),
         NodesFound(t, k, st, sp, st2), RunsFound(t, k, rs, rp, rs2), NewPlaced(t, k, st2, sp2, rs2, rp2)
  PROVE  Placed(st2, sp2, rs2, rp2)'
  <1>0. \A u \in Threads : Depth(u) \in Nat /\ Depth(u)' \in Nat
    BY DEF NType, FramesTypeOK, Depth
  <1>1. ASSUME NEW u \in Threads, NEW d \in 1 .. Depth(u)', u # t \/ d <= k
        PROVE  d \in 1 .. Depth(u) /\ frames'[u][d] = frames[u][d]
    BY <1>0, <1>1 DEF Kept, Depth
  <1>2. ASSUME NEW u \in Threads, NEW d \in 1 .. Depth(u), u # t \/ d <= k
        PROVE  d \in 1 .. Depth(u)' /\ frames'[u][d] = frames[u][d]
    BY <1>0, <1>2 DEF Kept, Depth
  <1>3. ASSUME NEW u \in Threads, NEW d \in 1 .. Depth(u)' PROVE PlacedAt(frames'[u][d], u, d, st2, sp2, rs2, rp2)
    <2>1. CASE u # t \/ d <= k
      <3> DEFINE f == frames[u][d]
      <3>2. d \in 1 .. Depth(u) /\ frames'[u][d] = f
        BY <1>1, <2>1
      <3>3. /\ f.at \in NodeStages => /\ f.node \in Requests /\ st[f.node] = f.at /\ sp[f.node] = <<u, d>>
                                      /\ ~ Above(sp[f.node], t, k)
            /\ f.at \in RunStages => /\ f.run \in Runs /\ rs[f.run] = f.at /\ rp[f.run] = <<u, d>>
                                     /\ ~ Above(rp[f.run], t, k)
        BY <2>1, <3>2, KeptPlace
      <3> HIDE DEF f
      <3>4. QED
        BY <3>2, <3>3 DEF PlacedAt, NodesStill, RunsStill
    <2>2. CASE u = t /\ ~ (d <= k)
      <3>1. d > k
        BY <1>0, <2>2
      <3>2. QED
        BY <2>2, <3>1 DEF NewPlaced
    <2>3. QED
      BY <2>1, <2>2
  <1>4. ASSUME NEW i \in Requests, st2[i] \in NodeStages
        PROVE  \E u \in Threads : \E d \in 1 .. Depth(u)' : frames'[u][d].at \in NodeStages /\ frames'[u][d].node = i
    <2>1. CASE st[i] \in NodeStages /\ ~ Above(sp[i], t, k)
      <3>0. PICK u \in Threads : \E d \in 1 .. Depth(u) : frames[u][d].at \in NodeStages /\ frames[u][d].node = i
        BY <2>1 DEF Placed
      <3>1. PICK d \in 1 .. Depth(u) : frames[u][d].at \in NodeStages /\ frames[u][d].node = i
        BY <3>0
      <3>2. sp[i] = <<u, d>>
        BY <3>1 DEF Placed, PlacedAt
      <3>3. u # t \/ d <= k
        BY <1>0, <2>1, <3>2 DEF Above
      <3>4. d \in 1 .. Depth(u)' /\ frames'[u][d] = frames[u][d]
        BY <1>2, <3>3
      <3>5. QED
        BY <3>1, <3>4
    <2>2. CASE ~ (st[i] \in NodeStages /\ ~ Above(sp[i], t, k))
      BY <1>4, <2>2 DEF NodesFound
    <2>3. QED
      BY <2>1, <2>2
  <1>5. ASSUME NEW g \in Runs, rs2[g] \in RunStages
        PROVE  \E u \in Threads : \E d \in 1 .. Depth(u)' : frames'[u][d].at \in RunStages /\ frames'[u][d].run = g
    <2>1. CASE rs[g] \in RunStages /\ ~ Above(rp[g], t, k)
      <3>0. PICK u \in Threads : \E d \in 1 .. Depth(u) : frames[u][d].at \in RunStages /\ frames[u][d].run = g
        BY <2>1 DEF Placed
      <3>1. PICK d \in 1 .. Depth(u) : frames[u][d].at \in RunStages /\ frames[u][d].run = g
        BY <3>0
      <3>2. rp[g] = <<u, d>>
        BY <3>1 DEF Placed, PlacedAt
      <3>3. u # t \/ d <= k
        BY <1>0, <2>1, <3>2 DEF Above
      <3>4. d \in 1 .. Depth(u)' /\ frames'[u][d] = frames[u][d]
        BY <1>2, <3>3
      <3>5. QED
        BY <3>1, <3>4
    <2>2. CASE ~ (rs[g] \in RunStages /\ ~ Above(rp[g], t, k))
      BY <1>5, <2>2 DEF RunsFound
    <2>3. QED
      BY <2>1, <2>2
  <1>6. QED
    BY <1>3, <1>4, <1>5 DEF Placed

\* The nodes a kept frame of a run speaks of are where they were, and its plan holds.
SeedingStill(t, k, st, rs, rp, st2) ==
  \A g \in Runs : rs[g] \in RunStages /\ ~ Above(rp[g], t, k) =>
    /\ active'[g] = active[g]
    /\ \A i \in NodesOf[g] : (st2[i] = "todo" <=> st[i] = "todo") /\ (st2[i] = "batch" <=> st[i] = "batch")
NewSeeding(t, k, st2) == \A d \in 1 .. Depth(t)' : d > k => SeedingAt(frames[t][d], st2)'

LEMMA SeedingKept ==
  ASSUME NType, FramesTypeOK', NEW st, NEW sp, NEW rs, NEW rp, Placed(st, sp, rs, rp), Seeding(st),
         NEW st2, NEW t \in Threads, NEW k \in Nat, Kept(t, k),
         SeedingStill(t, k, st, rs, rp, st2), NewSeeding(t, k, st2)
  PROVE  Seeding(st2)'
  <1>0. \A u \in Threads : Depth(u) \in Nat /\ Depth(u)' \in Nat
    BY DEF NType, FramesTypeOK, Depth
  <1>1. ASSUME NEW u \in Threads, NEW d \in 1 .. Depth(u)' PROVE SeedingAt(frames[u][d], st2)'
    <2>1. CASE u # t \/ d <= k
      <3>1. d \in 1 .. Depth(u) /\ frames'[u][d] = frames[u][d]
        BY <1>0, <2>1 DEF Kept, Depth
      <3> DEFINE f == frames[u][d]
      <3>2. f.at \in RunStages => /\ f.run \in Runs /\ rs[f.run] = f.at /\ rp[f.run] = <<u, d>>
                                  /\ ~ Above(rp[f.run], t, k)
        BY <2>1, <3>1, KeptPlace
      <3>3. SeedingAt(f, st)
        BY <3>1 DEF Seeding
      <3> HIDE DEF f
      <3>4. f.at \in RunStages =>
              /\ active'[f.run] = active[f.run]
              /\ {i \in NodesOf[f.run] : st2[i] = "todo"} = {i \in NodesOf[f.run] : st[i] = "todo"}
              /\ {i \in NodesOf[f.run] : st2[i] = "batch"} = {i \in NodesOf[f.run] : st[i] = "batch"}
        BY <3>2 DEF SeedingStill
      <3>5. f.at \in RunStages =>
              /\ f.todo = {i \in NodesOf[f.run] : st2[i] = "todo"}
              /\ f.batch = {i \in NodesOf[f.run] : st2[i] = "batch"}
              /\ f.at = "seed" /\ ~ active'[f.run] => f.todo = {} \/ f.batch = {}
        BY <3>3, <3>4 DEF SeedingAt
      <3>6. frames'[u][d] = f
        BY <3>1 DEF f
      <3>7. QED
        BY <3>5, <3>6 DEF SeedingAt
    <2>2. CASE u = t /\ ~ (d <= k)
      <3>1. d > k /\ d \in 1 .. Depth(t)'
        BY <1>0, <2>2
      <3>2. QED
        BY <2>2, <3>1 DEF NewSeeding
    <2>3. QED
      BY <2>1, <2>2
  <1>2. QED
    BY <1>1 DEF Seeding

\* No run is started, and no list grows.
LEMMA UnstartedKept ==
  ASSUME NType, FramesTypeOK', NEW st, NEW rs, Unstarted(st, rs), NEW st2, NEW rs2,
         NEW t \in Threads, NEW k \in Nat, Kept(t, k), toStart' = toStart,
         \A g \in Runs : rs[g] = "unborn" => rs2[g] = "unborn",
         \A i \in Requests : st2[i] \in LooseStages => st[i] \in LooseStages,
         \A d \in 1 .. Depth(t)' : d > k /\ frames'[t][d].at \in NodeStages =>
           Pending(frames'[t][d].bodies, BodyRuns[frames'[t][d].node], rs)
  PROVE  Unstarted(st2, rs2)'
  <1>0. \A u \in Threads : Depth(u) \in Nat /\ Depth(u)' \in Nat
    BY DEF NType, FramesTypeOK, Depth
  <1>1. \A s, w : Pending(s, w, rs) => Pending(s, w, rs2)
    BY DEF Pending
  <1>2. ASSUME NEW u \in Threads, NEW d \in 1 .. Depth(u)', frames'[u][d].at \in NodeStages
        PROVE  Pending(frames'[u][d].bodies, BodyRuns[frames'[u][d].node], rs2)
    <2>1. CASE u # t \/ d <= k
      <3>1. d \in 1 .. Depth(u) /\ frames'[u][d] = frames[u][d]
        BY <1>0, <2>1 DEF Kept, Depth
      <3>2. Pending(frames[u][d].bodies, BodyRuns[frames[u][d].node], rs)
        BY <1>2, <3>1 DEF Unstarted
      <3>3. QED
        BY <1>1, <3>1, <3>2
    <2>2. CASE u = t /\ ~ (d <= k)
      <3>1. d > k
        BY <1>0, <2>2
      <3>2. QED
        BY <1>1, <1>2, <2>2, <3>1
    <2>3. QED
      BY <2>1, <2>2
  <1>3. QED
    BY <1>1, <1>2 DEF Unstarted

LEMMA CountedKept ==
  ASSUME NEW st, NEW st2, Counted(st), UNCHANGED completed,
         \A i \in Requests : st2[i] = "done" <=> st[i] = "done"
  PROVE  Counted(st2)'
  <1>1. ASSUME NEW g \in Runs
        PROVE  {i \in NodesOf[g] : st2[i] = "done"} = {i \in NodesOf[g] : st[i] = "done"}
    BY NestedAssumption
  <1>2. QED
    BY <1>1 DEF Counted

\* A step of a run that goes on: the nodes in M go to stage s, the others stay.
RunMoves(t, f, h, M, s, st, st2, rs, rs2) ==
  /\ Turns(t, f, h) /\ f \in RunFrames /\ h \in RunFrames /\ h.run = f.run
  /\ M \subseteq NodesOf[f.run] /\ s \in {"batch", "queued", "budget"}
  /\ \A i \in M : st[i] \in {"todo", "batch"}
  /\ M # {} => h.at \notin EarlyStages
  /\ h.at \in EarlyStages => f.at \in EarlyStages
  /\ st2 = [i \in Requests |-> IF i \in M THEN s ELSE st[i]]
  /\ rs2 = [rs EXCEPT ![f.run] = h.at]

LEMMA RunMovesKeep ==
  ASSUME NType, FramesTypeOK', NEW st, NEW sp, NEW rs, NEW rp, RunAccount(st, sp, rs, rp),
         NEW t \in Threads, NEW f, NEW h, NEW M, NEW s, NEW st2, NEW rs2,
         RunMoves(t, f, h, M, s, st, st2, rs, rs2),
         \A g \in Runs : g # f.run => active'[g] = active[g],
         SeedingAt(h, st2)',
         UNCHANGED <<toStart, completed>>
  PROVE  /\ AccountTyped(st2, sp, rs2, rp) /\ Placed(st2, sp, rs2, rp)' /\ Members(st2, rs2)
         /\ Early(st2, rs2) /\ Seeding(st2)' /\ Counted(st2)' /\ Unstarted(st2, rs2)'
  <1> DEFINE D == Depth(t)
             g == f.run
  <1>1. /\ D \in Nat \ {0} /\ D - 1 \in Nat /\ Kept(t, D - 1) /\ Depth(t)' = D
        /\ frames'[t][D] = h /\ frames[t][D] = f
    BY DEF RunMoves, Turns
  <1>2. g \in Runs /\ f.at \in RunStages /\ h.at \in RunStages /\ h.run = g
    BY DEF RunMoves, RunFrames, RunStages
  <1>3. rs[g] = f.at /\ rp[g] = <<t, D>>
    <2>1. D \in 1 .. Depth(t)
      BY <1>1
    <2>2. QED
      BY <1>1, <1>2, <2>1 DEF RunAccount, Placed, PlacedAt
  <1>4. AccountTyped(st2, sp, rs2, rp)
    BY <1>2 DEF RunAccount, AccountTyped, RunMoves, Stages, LooseStages
  <1>5. /\ \A i \in Requests : st2[i] = IF i \in M THEN s ELSE st[i]
        /\ \A e \in Runs : rs2[e] = IF e = g THEN h.at ELSE rs[e]
        /\ M \subseteq Requests
    BY <1>2, NestedAssumption DEF RunAccount, AccountTyped, RunMoves
  <1>6. /\ \A i \in M : st[i] \in {"todo", "batch"} /\ RunOf(i) = g /\ i \in NodesOf[g]
        /\ s \in {"batch", "queued", "budget"}
    BY <1>2, OwnRun DEF RunMoves
  <1>7. Above(rp[g], t, D - 1)
    BY <1>1, <1>3 DEF Above
  <1>8. ASSUME NEW d \in 1 .. Depth(t)', d > D - 1 PROVE d = D
    BY <1>1, <1>8
  <1>19. \A d \in 1 .. Depth(t) : d > D - 1 => d = D
    BY <1>1
  <1>9. D \in 1 .. Depth(t)' /\ D > D - 1
    BY <1>1
  <1> HIDE DEF D, g
  <1>10. \A i \in Requests : /\ st[i] \in NodeStages <=> st2[i] \in NodeStages
                             /\ st[i] \in NodeStages => st2[i] = st[i]
                             /\ st2[i] = "done" <=> st[i] = "done"
                             /\ st2[i] = "idle" <=> st[i] = "idle"
                             /\ st2[i] \in LooseStages => st[i] \in LooseStages
    BY <1>5, <1>6 DEF NodeStages, LooseStages
  <1>11. \A e \in Runs : /\ rs[e] \in RunStages <=> rs2[e] \in RunStages
                         /\ rs[e] = "unborn" <=> rs2[e] = "unborn"
    BY <1>2, <1>3, <1>5 DEF RunStages
  <1>12. Placed(st2, sp, rs2, rp)'
    <2>1. NodesStill(t, D - 1, st, sp, st2, sp)
      BY <1>10 DEF NodesStill
    <2>2. RunsStill(t, D - 1, rs, rp, rs2, rp)
      BY <1>5, <1>7 DEF RunsStill
    <2>3. NodesFound(t, D - 1, st, sp, st2)
      <3>1. \A i \in Requests : st[i] \in NodeStages => ~ Above(sp[i], t, D - 1)
        BY <1>1, <1>2, <1>19, AboveIs DEF RunAccount, RunStages, NodeStages
      <3>2. QED
        BY <1>10, <3>1 DEF NodesFound
    <2>4. RunsFound(t, D - 1, rs, rp, rs2)
      <3>1. \A e \in Runs : rs[e] \in RunStages /\ e # g => ~ Above(rp[e], t, D - 1)
        BY <1>1, <1>19, AboveIs DEF RunAccount, g
      <3>2. frames'[t][D].at \in RunStages /\ frames'[t][D].run = g
        BY <1>1, <1>2
      <3>3. QED
        BY <1>9, <1>11, <3>1, <3>2 DEF RunsFound
    <2>5. NewPlaced(t, D - 1, st2, sp, rs2, rp)
      <3>1. PlacedAt(h, t, D, st2, sp, rs2, rp)
        BY <1>2, <1>3, <1>5 DEF PlacedAt, RunStages, NodeStages
      <3>2. QED
        BY <1>1, <1>8, <3>1 DEF NewPlaced
    <2>6. QED
      BY <1>1, <2>1, <2>2, <2>3, <2>4, <2>5, PlacedKept DEF RunAccount
  <1>13. Members(st2, rs2)
    BY <1>2, <1>3, <1>5, <1>6, <1>10, <1>11 DEF RunAccount, Members
  <1>14. Early(st2, rs2)
    <2>1. ASSUME NEW e \in Runs, rs2[e] \in EarlyStages, NEW i \in NodesOf[e] PROVE st2[i] = "todo"
      <3>1. RunOf(i) = e /\ i \in Requests
        BY OwnRun
      <3>2. rs[e] \in EarlyStages
        BY <1>3, <1>5, <2>1 DEF RunMoves, g
      <3>3. i \notin M
        <4>1. CASE e = g
          BY <1>5, <2>1, <4>1 DEF RunMoves
        <4>2. CASE e # g
          BY <1>6, <3>1, <4>2
        <4>3. QED
          BY <4>1, <4>2
      <3>4. QED
        BY <1>5, <3>1, <3>2, <3>3 DEF RunAccount, Early
    <2>2. QED
      BY <2>1 DEF Early
  <1>15. Seeding(st2)'
    <2>1. SeedingStill(t, D - 1, st, rs, rp, st2)
      <3>1. ASSUME NEW e \in Runs, e # g, NEW i \in NodesOf[e] PROVE st2[i] = st[i]
        <4>1. RunOf(i) = e /\ i \in Requests
          BY OwnRun
        <4>2. QED
          BY <1>5, <1>6, <3>1, <4>1
      <3>2. QED
        BY <1>7, <3>1 DEF SeedingStill, g
    <2>2. NewSeeding(t, D - 1, st2)
      <3>1. ASSUME NEW d \in 1 .. Depth(t)', d > D - 1 PROVE SeedingAt(frames[t][d], st2)'
        <4>1. frames'[t][d] = h
          BY <1>1, <1>8, <3>1
        <4>2. QED
          BY <4>1 DEF SeedingAt
      <3>2. QED
        BY <3>1 DEF NewSeeding
    <2>3. QED
      BY <1>1, <2>1, <2>2, SeedingKept DEF RunAccount
  <1>16. Counted(st2)'
    BY <1>10, CountedKept DEF RunAccount
  <1>17. Unstarted(st2, rs2)'
    <2>1. \A d \in 1 .. Depth(t)' : d > D - 1 => frames'[t][d].at \notin NodeStages
      BY <1>1, <1>2, <1>8 DEF RunStages, NodeStages
    <2>2. QED
      BY <1>1, <1>10, <1>11, <2>1, UnstartedKept DEF RunAccount
  <1>18. QED
    BY <1>4, <1>12, <1>13, <1>14, <1>15, <1>16, <1>17

\* A step of a node that stays where it is.
NodeMoves(t, f, h, st, st2) ==
  /\ Turns(t, f, h) /\ f \in NodeFrames /\ h \in NodeFrames
  /\ h.node = f.node /\ h.bodies = f.bodies
  /\ st2 = [st EXCEPT ![f.node] = h.at]

LEMMA NodeMovesKeep ==
  ASSUME NType, FramesTypeOK', NEW st, NEW sp, NEW rs, NEW rp, RunAccount(st, sp, rs, rp),
         NEW t \in Threads, NEW f, NEW h, NEW st2, NodeMoves(t, f, h, st, st2),
         UNCHANGED <<toStart, completed, active, queue>>
  PROVE  RunAccount(st2, sp, rs, rp)'
  <1> DEFINE D == Depth(t)
             i == f.node
  <1>1. /\ D \in Nat \ {0} /\ D - 1 \in Nat /\ Kept(t, D - 1) /\ Depth(t)' = D
        /\ frames'[t][D] = h /\ frames[t][D] = f /\ D \in 1 .. Depth(t)
    BY DEF NodeMoves, Turns
  <1>2. i \in Requests /\ f.at \in NodeStages /\ h.at \in NodeStages /\ h.node = i /\ h.bodies = f.bodies
    BY DEF NodeMoves, NodeFrames, NodeStages
  <1>3. st[i] = f.at /\ sp[i] = <<t, D>>
    BY <1>1, <1>2 DEF RunAccount, Placed, PlacedAt
  <1>4. AccountTyped(st2, sp, rs, rp)
    BY <1>2 DEF RunAccount, AccountTyped, NodeMoves, Stages
  <1>5. \A j \in Requests : st2[j] = IF j = i THEN h.at ELSE st[j]
    BY <1>2 DEF RunAccount, AccountTyped, NodeMoves
  <1>6. Above(sp[i], t, D - 1)
    BY <1>1, <1>3 DEF Above
  <1>7. ASSUME NEW d \in 1 .. Depth(t)', d > D - 1 PROVE d = D
    BY <1>1, <1>7
  <1>8. \A d \in 1 .. Depth(t) : d > D - 1 => d = D
    BY <1>1
  <1>9. D \in 1 .. Depth(t)' /\ D > D - 1
    BY <1>1
  <1> HIDE DEF D, i
  <1>10. \A j \in Requests : /\ st[j] \in NodeStages <=> st2[j] \in NodeStages
                             /\ \A s \in LooseStages \cup {"done"} : st2[j] = s <=> st[j] = s
    BY <1>2, <1>3, <1>5 DEF NodeStages, LooseStages
  <1>11. Placed(st2, sp, rs, rp)'
    <2>1. NodesStill(t, D - 1, st, sp, st2, sp)
      BY <1>5, <1>6 DEF NodesStill
    <2>2. RunsStill(t, D - 1, rs, rp, rs, rp)
      BY DEF RunsStill
    <2>3. NodesFound(t, D - 1, st, sp, st2)
      <3>1. \A j \in Requests : st[j] \in NodeStages /\ j # i => ~ Above(sp[j], t, D - 1)
        BY <1>1, <1>8, AboveIs DEF RunAccount, i
      <3>2. frames'[t][D].at \in NodeStages /\ frames'[t][D].node = i
        BY <1>1, <1>2
      <3>3. QED
        BY <1>9, <1>10, <3>1, <3>2 DEF NodesFound
    <2>4. RunsFound(t, D - 1, rs, rp, rs)
      <3>1. \A e \in Runs : rs[e] \in RunStages => ~ Above(rp[e], t, D - 1)
        BY <1>1, <1>2, <1>8, AboveIs DEF RunAccount, RunStages, NodeStages
      <3>2. QED
        BY <3>1 DEF RunsFound
    <2>5. NewPlaced(t, D - 1, st2, sp, rs, rp)
      <3>1. PlacedAt(h, t, D, st2, sp, rs, rp)
        BY <1>2, <1>3, <1>5 DEF PlacedAt, RunStages, NodeStages
      <3>2. QED
        BY <1>1, <1>7, <3>1 DEF NewPlaced
    <2>6. QED
      BY <1>1, <2>1, <2>2, <2>3, <2>4, <2>5, PlacedKept DEF RunAccount
  <1>12. Members(st2, rs)
    <2>1. "idle" \in LooseStages
      BY DEF LooseStages
    <2>2. QED
      BY <1>10, <2>1 DEF RunAccount, Members
  <1>13. Early(st2, rs)
    <2>1. \A e \in Runs : \A j \in NodesOf[e] : j \in Requests
      BY NestedAssumption
    <2>2. "todo" \in LooseStages
      BY DEF LooseStages
    <2>3. QED
      BY <1>10, <2>1, <2>2 DEF RunAccount, Early
  <1>14. Seeding(st2)'
    <2>1. SeedingStill(t, D - 1, st, rs, rp, st2)
      <3>1. \A e \in Runs : \A j \in NodesOf[e] : j \in Requests
        BY NestedAssumption
      <3>2. "todo" \in LooseStages /\ "batch" \in LooseStages
        BY DEF LooseStages
      <3>3. QED
        BY <1>10, <3>1, <3>2 DEF SeedingStill
    <2>2. NewSeeding(t, D - 1, st2)
      <3>1. ASSUME NEW d \in 1 .. Depth(t)', d > D - 1 PROVE SeedingAt(frames[t][d], st2)'
        <4>1. frames'[t][d].at \notin RunStages
          BY <1>1, <1>2, <1>7, <3>1 DEF RunStages, NodeStages
        <4>2. QED
          BY <4>1 DEF SeedingAt
      <3>2. QED
        BY <3>1 DEF NewSeeding
    <2>3. QED
      BY <1>1, <2>1, <2>2, SeedingKept DEF RunAccount
  <1>15. InQueue(st2)'
    <2>1. "queued" \in LooseStages
      BY DEF LooseStages
    <2>2. QED
      BY <1>10, <2>1 DEF RunAccount, InQueue
  <1>16. Counted(st2)'
    BY <1>10, CountedKept DEF RunAccount
  <1>17. Unstarted(st2, rs)'
    <2>1. Pending(f.bodies, BodyRuns[f.node], rs)
      BY <1>1, <1>2 DEF RunAccount, Unstarted
    <2>2. \A d \in 1 .. Depth(t)' : d > D - 1 /\ frames'[t][d].at \in NodeStages =>
             Pending(frames'[t][d].bodies, BodyRuns[frames'[t][d].node], rs)
      BY <1>1, <1>2, <1>7, <2>1 DEF i
    <2>3. \A j \in Requests : st2[j] \in LooseStages => st[j] \in LooseStages
      BY <1>10
    <2>4. QED
      BY <1>1, <2>2, <2>3, UnstartedKept DEF RunAccount
  <1>18. QED
    BY <1>4, <1>11, <1>12, <1>13, <1>14, <1>15, <1>16, <1>17
    DEF RunAccount, AccountTyped, Members, Early

\* A node of the queue gets a frame.
LEMMA TakeKeeps ==
  ASSUME NType, FramesTypeOK', NEW st, NEW sp, NEW rs, NEW rp, RunAccount(st, sp, rs, rp),
         NEW t \in Threads, NEW i \in queue, Pushes(t, NodeFrame(i)), queue' = queue \ {i},
         NEW st2, st2 = [st EXCEPT ![i] = "start"],
         NEW sp2, sp2 = [sp EXCEPT ![i] = <<t, Depth(t) + 1>>],
         UNCHANGED <<toStart, completed, active>>
  PROVE  RunAccount(st2, sp2, rs, rp)'
  <1> DEFINE D == Depth(t)
             h == NodeFrame(i)
  <1>1. /\ D \in Nat /\ Kept(t, D) /\ Depth(t)' = D + 1 /\ frames'[t][D + 1] = h
    BY DEF Pushes
  <1>2. i \in Requests /\ st[i] = "queued" /\ h.at = "start" /\ h.node = i /\ h.bodies = BodyRuns[i]
    BY DEF RunAccount, InQueue, NodeFrame
  <1>3. h.at \in NodeStages /\ h.at \notin RunStages
    BY <1>2 DEF NodeStages, RunStages
  <1>4. AccountTyped(st2, sp2, rs, rp)
    BY <1>2 DEF RunAccount, AccountTyped, Stages, NodeStages
  <1>5. /\ \A j \in Requests : st2[j] = IF j = i THEN "start" ELSE st[j]
        /\ \A j \in Requests : j # i => sp2[j] = sp[j]
        /\ sp2[i] = <<t, D + 1>>
    BY <1>2 DEF RunAccount, AccountTyped
  <1>6. ASSUME NEW d \in 1 .. Depth(t)', d > D PROVE d = D + 1
    BY <1>1, <1>6
  <1>7. /\ \A d \in 1 .. Depth(t) : ~ (d > D)
        /\ D + 1 \in 1 .. Depth(t)' /\ D + 1 > D
    BY <1>1
  <1> HIDE DEF D, h
  <1>8. /\ \A j \in Requests : st[j] \in NodeStages => j # i /\ ~ Above(sp[j], t, D)
        /\ \A e \in Runs : rs[e] \in RunStages => ~ Above(rp[e], t, D)
    BY <1>1, <1>2, <1>7, AboveIs DEF RunAccount, NodeStages
  <1>9. Placed(st2, sp2, rs, rp)'
    <2>1. NodesStill(t, D, st, sp, st2, sp2)
      BY <1>5, <1>8 DEF NodesStill
    <2>2. RunsStill(t, D, rs, rp, rs, rp)
      BY DEF RunsStill
    <2>3. NodesFound(t, D, st, sp, st2)
      BY <1>1, <1>2, <1>3, <1>5, <1>7, <1>8 DEF NodesFound
    <2>4. RunsFound(t, D, rs, rp, rs)
      BY <1>8 DEF RunsFound
    <2>5. NewPlaced(t, D, st2, sp2, rs, rp)
      <3>1. PlacedAt(h, t, D + 1, st2, sp2, rs, rp)
        BY <1>2, <1>3, <1>5 DEF PlacedAt
      <3>2. QED
        BY <1>1, <1>6, <3>1 DEF NewPlaced
    <2>6. QED
      BY <1>1, <2>1, <2>2, <2>3, <2>4, <2>5, PlacedKept DEF RunAccount
  <1>10. Members(st2, rs)
    BY <1>2, <1>5 DEF RunAccount, Members
  <1>11. \A e \in Runs : \A j \in NodesOf[e] : j \in Requests
    BY NestedAssumption
  <1>12. Early(st2, rs)
    BY <1>2, <1>5, <1>11 DEF RunAccount, Early
  <1>13. Seeding(st2)'
    <2>1. SeedingStill(t, D, st, rs, rp, st2)
      BY <1>2, <1>5, <1>11 DEF SeedingStill
    <2>2. NewSeeding(t, D, st2)
      <3>1. ASSUME NEW d \in 1 .. Depth(t)', d > D PROVE SeedingAt(frames[t][d], st2)'
        <4>1. frames'[t][d].at \notin RunStages
          BY <1>1, <1>3, <1>6, <3>1
        <4>2. QED
          BY <4>1 DEF SeedingAt
      <3>2. QED
        BY <3>1 DEF NewSeeding
    <2>3. QED
      BY <1>1, <2>1, <2>2, SeedingKept DEF RunAccount
  <1>14. InQueue(st2)'
    BY <1>2, <1>5 DEF RunAccount, InQueue
  <1>15. Counted(st2)'
    <2>1. \A j \in Requests : st2[j] = "done" <=> st[j] = "done"
      BY <1>2, <1>5
    <2>2. QED
      BY <2>1, CountedKept DEF RunAccount
  <1>16. Unstarted(st2, rs)'
    <2>1. Pending(BodyRuns[i], BodyRuns[i], rs)
      BY <1>2 DEF RunAccount, Unstarted, LooseStages
    <2>2. \A d \in 1 .. Depth(t)' : d > D /\ frames'[t][d].at \in NodeStages =>
             Pending(frames'[t][d].bodies, BodyRuns[frames'[t][d].node], rs)
      BY <1>1, <1>2, <1>6, <2>1
    <2>3. \A j \in Requests : st2[j] \in LooseStages => st[j] \in LooseStages
      BY <1>5 DEF LooseStages
    <2>4. QED
      BY <1>1, <2>2, <2>3, UnstartedKept DEF RunAccount
  <1>17. QED
    BY <1>4, <1>9, <1>10, <1>12, <1>13, <1>14, <1>15, <1>16
    DEF RunAccount, AccountTyped, Members, Early

\* A node is counted, and its frame is gone.
LEMMA CountKeeps ==
  ASSUME NType, FramesTypeOK', NEW st, NEW sp, NEW rs, NEW rp, RunAccount(st, sp, rs, rp),
         NEW t \in Threads, NEW f \in NodeFrames, Pops(t, f), f.at = "count",
         NEW st2, st2 = [st EXCEPT ![f.node] = "done"],
         completed' = [completed EXCEPT ![RunOf(f.node)] = @ + 1],
         UNCHANGED <<toStart, active, queue>>
  PROVE  RunAccount(st2, sp, rs, rp)'
  <1> DEFINE D == Depth(t)
             i == f.node
  <1>1. /\ D \in Nat \ {0} /\ D - 1 \in Nat /\ Kept(t, D - 1) /\ Depth(t)' = D - 1
        /\ frames[t][D] = f /\ D \in 1 .. Depth(t)
    BY DEF Pops
  <1>2. i \in Requests /\ f.at \in NodeStages /\ f.at \notin RunStages
    BY DEF NodeFrames, NodeStages, RunStages
  <1>3. st[i] = "count" /\ sp[i] = <<t, D>>
    BY <1>1, <1>2, SMTT(60) DEF RunAccount, Placed, PlacedAt
  <1>4. AccountTyped(st2, sp, rs, rp)
    BY <1>2 DEF RunAccount, AccountTyped, Stages
  <1>5. \A j \in Requests : st2[j] = IF j = i THEN "done" ELSE st[j]
    BY <1>2 DEF RunAccount, AccountTyped
  <1>6. Above(sp[i], t, D - 1)
    BY <1>1, <1>3 DEF Above
  <1>7. /\ \A d \in 1 .. Depth(t) : d > D - 1 => d = D
        /\ \A d \in 1 .. Depth(t)' : ~ (d > D - 1)
    BY <1>1
  <1>8. \A j \in Requests : j # i => st2[j] = st[j]
    BY <1>5
  <1> HIDE DEF D, i
  <1>9. /\ \A j \in Requests : st[j] \in NodeStages /\ j # i => ~ Above(sp[j], t, D - 1)
        /\ \A e \in Runs : rs[e] \in RunStages => ~ Above(rp[e], t, D - 1)
    BY <1>1, <1>2, <1>7, AboveIs DEF RunAccount, i
  <1>10. Placed(st2, sp, rs, rp)'
    <2>1. NodesStill(t, D - 1, st, sp, st2, sp)
      BY <1>5, <1>6 DEF NodesStill
    <2>2. RunsStill(t, D - 1, rs, rp, rs, rp)
      BY DEF RunsStill
    <2>3. NodesFound(t, D - 1, st, sp, st2)
      BY <1>5, <1>9 DEF NodesFound, NodeStages
    <2>4. RunsFound(t, D - 1, rs, rp, rs)
      BY <1>9 DEF RunsFound
    <2>5. NewPlaced(t, D - 1, st2, sp, rs, rp)
      BY <1>7 DEF NewPlaced
    <2>6. QED
      BY <1>1, <2>1, <2>2, <2>3, <2>4, <2>5, PlacedKept DEF RunAccount
  <1>11. Members(st2, rs)
    BY <1>3, <1>5 DEF RunAccount, Members
  <1>12. \A e \in Runs : \A j \in NodesOf[e] : j \in Requests
    BY NestedAssumption
  <1>13. \A j \in Requests : \A s \in LooseStages : st2[j] = s <=> st[j] = s
    BY <1>3, <1>5 DEF LooseStages
  <1>14. Early(st2, rs)
    BY <1>12, <1>13 DEF RunAccount, Early, LooseStages
  <1>15. Seeding(st2)'
    <2>1. SeedingStill(t, D - 1, st, rs, rp, st2)
      BY <1>12, <1>13 DEF SeedingStill, LooseStages
    <2>2. NewSeeding(t, D - 1, st2)
      BY <1>7 DEF NewSeeding
    <2>3. QED
      BY <1>1, <2>1, <2>2, SeedingKept DEF RunAccount
  <1>16. InQueue(st2)'
    BY <1>13 DEF RunAccount, InQueue, LooseStages
  <1>17. Counted(st2)'
    <2>1. PICK g : g = RunOf(i)
      OBVIOUS
    <2>2. g \in Runs /\ i \in NodesOf[g]
      BY <1>2, <1>3, <2>1 DEF RunAccount, Members, i
    <2>3. /\ completed'[g] = completed[g] + 1
          /\ \A e \in Runs : e # g => completed'[e] = completed[e]
      BY <2>1, <2>2 DEF NType, i
    <2>4. ASSUME NEW e \in Runs, e # g PROVE completed'[e] = Cardinality({j \in NodesOf[e] : st2[j] = "done"})
      <3>1. \A j \in NodesOf[e] : j # i /\ j \in Requests
        BY <2>1, <2>4, OwnRun
      <3>2. {j \in NodesOf[e] : st2[j] = "done"} = {j \in NodesOf[e] : st[j] = "done"}
        BY <1>8, <3>1
      <3>3. QED
        BY <2>3, <2>4, <3>2 DEF RunAccount, Counted
    <2>5. completed'[g] = Cardinality({j \in NodesOf[g] : st2[j] = "done"})
      <3> DEFINE S == {j \in NodesOf[g] : st[j] = "done"}
      <3>1. i \notin S /\ S \in SUBSET NodesOf[g]
        BY <1>3
      <3>2. IsFiniteSet(S)
        BY <2>2, <3>1, NestedAssumption, FS_Subset
      <3>3. {j \in NodesOf[g] : st2[j] = "done"} = S \cup {i}
        BY <1>2, <1>5, <1>12, <2>2
      <3>4. completed[g] = Cardinality(S)
        BY <2>2 DEF RunAccount, Counted
      <3> HIDE DEF S
      <3>5. Cardinality(S \cup {i}) = Cardinality(S) + 1
        BY <3>1, <3>2, FS_AddElement
      <3>6. QED
        BY <2>3, <3>3, <3>4, <3>5
    <2>6. QED
      BY <2>4, <2>5 DEF Counted
  <1>18. Unstarted(st2, rs)'
    <2>1. \A j \in Requests : st2[j] \in LooseStages => st[j] \in LooseStages
      BY <1>5 DEF LooseStages
    <2>2. QED
      BY <1>1, <1>7, <2>1, UnstartedKept DEF RunAccount
  <1>19. QED
    BY <1>4, <1>10, <1>11, <1>14, <1>15, <1>16, <1>17, <1>18
    DEF RunAccount, AccountTyped, Members, Early

\* A request of the budget is resumed: its task joins the queue.
LEMMA ResumeKeeps ==
  ASSUME NType, NEW st, NEW sp, NEW rs, NEW rp, RunAccount(st, sp, rs, rp),
         NEW r \in Requests, st[r] = "budget", queue' = queue \cup {r},
         NEW st2, st2 = [st EXCEPT ![r] = "queued"],
         UNCHANGED <<frames, toStart, active, completed>>
  PROVE  RunAccount(st2, sp, rs, rp)'
  <1>1. \A j \in Requests : st2[j] = IF j = r THEN "queued" ELSE st[j]
    BY DEF RunAccount, AccountTyped
  <1>2. /\ \A j \in Requests : st[j] \in NodeStages \/ st2[j] \in NodeStages => st2[j] = st[j]
        /\ \A j \in Requests : st2[j] \in LooseStages => st[j] \in LooseStages
        /\ \A j \in Requests : \A s \in {"todo", "batch", "done", "idle"} : st2[j] = s <=> st[j] = s
    BY <1>1 DEF NodeStages, LooseStages
  <1>3. \A e \in Runs : \A j \in NodesOf[e] : j \in Requests
    BY NestedAssumption
  <1>4. /\ \A u \in Threads : Depth(u)' = Depth(u)
        /\ \A u \in Threads : \A d \in 1 .. Depth(u) : frames[u][d].at \in NodeStages => frames[u][d].node \in Requests
        /\ \A u \in Threads : \A d \in 1 .. Depth(u) : frames[u][d].at \in RunStages => frames[u][d].run \in Runs
    <2>1. ASSUME NEW u \in Threads, NEW d \in 1 .. Depth(u)
          PROVE  /\ frames[u][d].at \in NodeStages => frames[u][d].node \in Requests
                 /\ frames[u][d].at \in RunStages => frames[u][d].run \in Runs
      <3> DEFINE f == frames[u][d]
      <3>1. /\ (f.at \in RunStages /\ f \in RunFrames) \/ (f.at \in NodeStages /\ f \in NodeFrames)
            /\ f.at \in RunStages <=> f.at \notin NodeStages
        BY Kinds DEF NType
      <3> HIDE DEF f
      <3>2. /\ f.at \in NodeStages => f.node \in Requests
            /\ f.at \in RunStages => f.run \in Runs
        BY <3>1 DEF NodeFrames, RunFrames
      <3>3. QED
        BY <3>2 DEF f
    <2>2. QED
      BY <2>1 DEF Depth
  <1>5. AccountTyped(st2, sp, rs, rp)
    BY DEF RunAccount, AccountTyped, Stages, LooseStages
  <1>6. Placed(st2, sp, rs, rp)'
    <2>1. ASSUME NEW u \in Threads, NEW d \in 1 .. Depth(u) PROVE PlacedAt(frames[u][d], u, d, st2, sp, rs, rp)
      <3>1. PlacedAt(frames[u][d], u, d, st, sp, rs, rp)
        BY DEF RunAccount, Placed
      <3>2. frames[u][d].at \in NodeStages => frames[u][d].node \in Requests
        BY <1>4
      <3>3. QED
        BY <1>2, <3>1, <3>2 DEF PlacedAt
    <2>2. \A j \in Requests : st2[j] \in NodeStages => st[j] \in NodeStages
      BY <1>2
    <2>3. Placed(st, sp, rs, rp)
      BY DEF RunAccount
    <2>4. \A u \in Threads : \A d \in 1 .. Depth(u)' : PlacedAt(frames[u][d], u, d, st2, sp, rs, rp)'
      BY <1>4, <2>1, ZenonT(60) DEF PlacedAt
    <2>5. \A j \in Requests : st2[j] \in NodeStages =>
            \E u \in Threads : \E d \in 1 .. Depth(u)' : frames'[u][d].at \in NodeStages /\ frames'[u][d].node = j
      <3>1. ASSUME NEW j \in Requests, st2[j] \in NodeStages
            PROVE  \E u \in Threads : \E d \in 1 .. Depth(u)' : frames'[u][d].at \in NodeStages /\ frames'[u][d].node = j
        <4>1. \E u \in Threads : \E d \in 1 .. Depth(u) : frames[u][d].at \in NodeStages /\ frames[u][d].node = j
          BY <2>2, <2>3, <3>1 DEF Placed
        <4>2. QED
          BY <1>4, <4>1
      <3>2. QED
        BY <3>1
    <2>6. \A g \in Runs : rs[g] \in RunStages =>
            \E u \in Threads : \E d \in 1 .. Depth(u)' : frames'[u][d].at \in RunStages /\ frames'[u][d].run = g
      BY <1>4, <2>3 DEF Placed
    <2>7. QED
      BY <2>4, <2>5, <2>6 DEF Placed
  <1>7. Members(st2, rs)
    BY <1>1 DEF RunAccount, Members
  <1>8. Early(st2, rs)
    BY <1>2, <1>3 DEF RunAccount, Early
  <1>9. Seeding(st2)'
    <2>1. ASSUME NEW g \in Runs
          PROVE  /\ {i \in NodesOf[g] : st2[i] = "todo"} = {i \in NodesOf[g] : st[i] = "todo"}
                 /\ {i \in NodesOf[g] : st2[i] = "batch"} = {i \in NodesOf[g] : st[i] = "batch"}
      BY <1>2, <1>3
    <2>2. ASSUME NEW u \in Threads, NEW d \in 1 .. Depth(u) PROVE SeedingAt(frames[u][d], st2)'
      BY <1>4, <2>1 DEF RunAccount, Seeding, SeedingAt
    <2>3. QED
      BY <1>4, <2>2 DEF Seeding
  <1>10. InQueue(st2)'
    BY <1>1 DEF RunAccount, InQueue
  <1>11. Counted(st2)'
    BY <1>2, CountedKept DEF RunAccount
  <1>12. Unstarted(st2, rs)'
    BY <1>2, <1>4 DEF RunAccount, Unstarted
  <1>13. QED
    BY <1>5, <1>6, <1>7, <1>8, <1>9, <1>10, <1>11, <1>12 DEF RunAccount, AccountTyped, Members, Early

\* Steps that touch neither stacks nor queue.
LEMMA StillKeeps ==
  ASSUME NEW st, NEW sp, NEW rs, NEW rp, RunAccount(st, sp, rs, rp),
         UNCHANGED <<frames, toStart, active, completed, queue>>
  PROVE  RunAccount(st, sp, rs, rp)'
  BY DEF RunAccount, AccountTyped, Placed, Members, Early, Seeding, SeedingAt, InQueue, Counted, Unstarted, Depth

\* A run is started: its frame comes on top of what is kept and of the node that
\* starts it.
Born(t, k, b) ==
  /\ Kept(t, k) /\ Depth(t)' \in Nat /\ Depth(t)' > k /\ frames'[t][Depth(t)'] = RunFrame(b)
  /\ \A d \in 1 .. Depth(t)' : d > k /\ d # Depth(t)' =>
       /\ d \in 1 .. Depth(t) /\ frames'[t][d].at \in NodeStages
       /\ frames'[t][d].at = frames[t][d].at /\ frames'[t][d].node = frames[t][d].node
  /\ \A d \in 1 .. Depth(t) : d > k => d \in 1 .. Depth(t)' /\ d # Depth(t)'

LEMMA BirthKeeps ==
  ASSUME NType, FramesTypeOK', NEW st, NEW sp, NEW rs, NEW rp, RunAccount(st, sp, rs, rp),
         NEW t \in Threads, NEW k \in Nat, NEW b \in Runs, rs[b] = "unborn", Born(t, k, b),
         NEW st2, st2 = [i \in Requests |-> IF i \in NodesOf[b] THEN "todo" ELSE st[i]],
         NEW rs2, rs2 = [rs EXCEPT ![b] = "enter"],
         NEW rp2, rp2 = [rp EXCEPT ![b] = <<t, Depth(t)'>>],
         Unstarted(st2, rs2)',
         UNCHANGED <<active, completed, queue>>
  PROVE  RunAccount(st2, sp, rs2, rp2)'
  <1> DEFINE h == RunFrame(b)
  <1>1. PICK e \in Nat : e = Depth(t)'
    BY DEF Born
  <1>2. /\ Kept(t, k) /\ e > k /\ frames'[t][e] = h /\ e \in 1 .. Depth(t)'
        /\ \A d \in 1 .. Depth(t)' : d > k /\ d # e =>
             /\ d \in 1 .. Depth(t) /\ frames'[t][d].at \in NodeStages
             /\ frames'[t][d].at = frames[t][d].at /\ frames'[t][d].node = frames[t][d].node
        /\ \A d \in 1 .. Depth(t) : d > k => d \in 1 .. Depth(t)' /\ d # e
    BY <1>1 DEF Born
  <1>3. h.at = "enter" /\ h.run = b /\ h.todo = NodesOf[b] /\ h.batch = {}
    BY DEF RunFrame
  <1>4. h.at \in RunStages /\ h.at \notin NodeStages
    BY <1>3 DEF RunStages, NodeStages
  <1>5. AccountTyped(st2, sp, rs2, rp2)
    BY NestedAssumption DEF RunAccount, AccountTyped, Stages, LooseStages, RunStages
  <1>6. /\ \A i \in Requests : st2[i] = IF i \in NodesOf[b] THEN "todo" ELSE st[i]
        /\ \A g \in Runs : rs2[g] = IF g = b THEN "enter" ELSE rs[g]
        /\ \A g \in Runs : g # b => rp2[g] = rp[g]
        /\ rp2[b] = <<t, e>>
    BY <1>1 DEF RunAccount, AccountTyped
  <1>7. ASSUME NEW i \in NodesOf[b] PROVE st[i] = "idle" /\ RunOf(i) = b /\ i \in Requests
    BY OwnRun DEF RunAccount, Members
  <1>8. \A i \in Requests : /\ st[i] \in NodeStages \/ st2[i] \in NodeStages => st2[i] = st[i]
                            /\ st2[i] = "done" <=> st[i] = "done"
                            /\ st2[i] = "queued" <=> st[i] = "queued"
    BY <1>6, <1>7 DEF NodeStages
  <1>9. rs[b] \notin RunStages
    BY DEF RunStages
  <1> HIDE DEF h
  <1>10. Placed(st2, sp, rs2, rp2)'
    <2>1. NodesStill(t, k, st, sp, st2, sp)
      BY <1>8 DEF NodesStill
    <2>2. RunsStill(t, k, rs, rp, rs2, rp2)
      BY <1>6, <1>9 DEF RunsStill
    <2>3. NodesFound(t, k, st, sp, st2)
      <3>1. ASSUME NEW i \in Requests, st2[i] \in NodeStages, Above(sp[i], t, k)
            PROVE  \E d \in 1 .. Depth(t)' : d > k /\ frames'[t][d].at \in NodeStages /\ frames'[t][d].node = i
        <4>1. st[i] \in NodeStages
          BY <1>8, <3>1
        <4>2. PICK d \in 1 .. Depth(t) : d > k /\ frames[t][d].at \in NodeStages /\ frames[t][d].node = i
          BY <3>1, <4>1, AboveIs DEF RunAccount
        <4>3. d \in 1 .. Depth(t)' /\ d # e
          BY <1>2, <4>2
        <4>4. QED
          BY <1>2, <4>2, <4>3
      <3>2. QED
        BY <1>8, <3>1 DEF NodesFound
    <2>4. RunsFound(t, k, rs, rp, rs2)
      <3>1. ASSUME NEW g \in Runs, rs[g] \in RunStages PROVE ~ Above(rp[g], t, k)
        <4>1. \A d \in 1 .. Depth(t) : d > k => frames[t][d].at \notin RunStages
          BY <1>2 DEF RunStages, NodeStages
        <4>2. QED
          BY <3>1, <4>1, AboveIs DEF RunAccount
      <3>2. frames'[t][e].at \in RunStages /\ frames'[t][e].run = b
        BY <1>2, <1>3, <1>4
      <3>3. QED
        BY <1>2, <1>6, <3>1, <3>2 DEF RunsFound
    <2>5. NewPlaced(t, k, st2, sp, rs2, rp2)
      <3>1. PlacedAt(h, t, e, st2, sp, rs2, rp2)
        BY <1>3, <1>4, <1>6 DEF PlacedAt
      <3>2. ASSUME NEW d \in 1 .. Depth(t)', d > k, d # e PROVE PlacedAt(frames'[t][d], t, d, st2, sp, rs2, rp2)
        <4>1. PlacedAt(frames[t][d], t, d, st, sp, rs, rp) /\ d \in 1 .. Depth(t)
          BY <1>2, <3>2 DEF RunAccount, Placed
        <4>2. frames[t][d].at \in NodeStages => frames[t][d].node \in Requests
          BY <4>1, KeptPlace DEF RunAccount
        <4>3. frames'[t][d].at \notin RunStages
          BY <1>2, <3>2 DEF RunStages, NodeStages
        <4>4. QED
          BY <1>2, <1>8, <3>2, <4>1, <4>2, <4>3 DEF PlacedAt
      <3>3. QED
        BY <1>2, <3>1, <3>2 DEF NewPlaced
    <2>6. QED
      BY <1>2, <2>1, <2>2, <2>3, <2>4, <2>5, PlacedKept DEF RunAccount
  <1>11. Members(st2, rs2)
    <2>1. "enter" \in RunStages /\ "enter" # "unborn"
      BY DEF RunStages
    <2>2. ASSUME NEW i \in Requests, i \in NodesOf[b]
          PROVE  /\ RunOf(i) \in Runs /\ i \in NodesOf[RunOf(i)] /\ rs2[RunOf(i)] # "unborn"
                 /\ rs2[RunOf(i)] \in RunStages
      BY <1>6, <1>7, <2>1, <2>2
    <2>3. ASSUME NEW i \in Requests, i \notin NodesOf[b], st2[i] # "idle"
          PROVE  /\ RunOf(i) \in Runs /\ i \in NodesOf[RunOf(i)] /\ rs2[RunOf(i)] # "unborn"
                 /\ st2[i] # "done" => rs2[RunOf(i)] \in RunStages
      BY <1>6, <2>1, <2>3 DEF RunAccount, Members
    <2>4. QED
      BY <2>2, <2>3 DEF Members
  <1>12. \A g \in Runs : \A i \in NodesOf[g] : RunOf(i) = g /\ i \in Requests
    BY OwnRun
  <1>13. Early(st2, rs2)
    BY <1>6, <1>12 DEF RunAccount, Early
  <1>14. Seeding(st2)'
    <2>1. SeedingStill(t, k, st, rs, rp, st2)
      <3>1. ASSUME NEW g \in Runs, rs[g] \in RunStages, NEW i \in NodesOf[g] PROVE st2[i] = st[i]
        <4>1. g # b
          BY <1>9, <3>1
        <4>2. i \notin NodesOf[b]
          BY <1>12, <3>1, <4>1
        <4>3. QED
          BY <1>6, <1>12, <4>2
      <3>2. QED
        BY <3>1 DEF SeedingStill
    <2>2. NewSeeding(t, k, st2)
      <3>1. ASSUME NEW d \in 1 .. Depth(t)', d > k PROVE SeedingAt(frames[t][d], st2)'
        <4>1. CASE d = e
          <5>1. {i \in NodesOf[b] : st2[i] = "todo"} = NodesOf[b] /\ {i \in NodesOf[b] : st2[i] = "batch"} = {}
            BY <1>6, <1>7
          <5>2. frames'[t][d] = h
            BY <1>2, <4>1
          <5>3. QED
            BY <1>3, <5>1, <5>2 DEF SeedingAt
        <4>2. CASE d # e
          <5>1. frames'[t][d].at \notin RunStages
            BY <1>2, <3>1, <4>2 DEF RunStages, NodeStages
          <5>2. QED
            BY <5>1 DEF SeedingAt
        <4>3. QED
          BY <4>1, <4>2
      <3>2. QED
        BY <3>1 DEF NewSeeding
    <2>3. QED
      BY <1>2, <2>1, <2>2, SeedingKept DEF RunAccount
  <1>15. InQueue(st2)'
    BY <1>8 DEF RunAccount, InQueue
  <1>16. Counted(st2)'
    <2>1. \A i \in Requests : st2[i] = "done" <=> st[i] = "done"
      BY <1>8
    <2>2. QED
      BY <2>1, CountedKept DEF RunAccount
  <1>17. QED
    BY <1>5, <1>10, <1>11, <1>13, <1>14, <1>15, <1>16 DEF RunAccount, AccountTyped, Members, Early

\* The frame of a run that ends is left, and the node below it goes on or is cut short.
Ended(t, k, f) ==
  /\ Kept(t, k) /\ Depth(t) \in Nat /\ f = frames[t][Depth(t)]
  /\ \A d \in 1 .. Depth(t)' : d > k =>
       /\ d \in 1 .. Depth(t) /\ frames'[t][d].at \in NodeStages
       /\ frames'[t][d].at = frames[t][d].at /\ frames'[t][d].node = frames[t][d].node
       /\ frames'[t][d].bodies = <<>>
  /\ \A d \in 1 .. Depth(t) : d > k => d = Depth(t) \/ d \in 1 .. Depth(t)'
  /\ Depth(t) \in 1 .. Depth(t) /\ Depth(t) > k

LEMMA EndKeeps ==
  ASSUME NType, FramesTypeOK', NEW st, NEW sp, NEW rs, NEW rp, RunAccount(st, sp, rs, rp),
         NEW t \in Threads, NEW k \in Nat, NEW f \in RunFrames, Ended(t, k, f),
         completed[f.run] = Cardinality(NodesOf[f.run]),
         NEW rs2, rs2 = [rs EXCEPT ![f.run] = "over"],
         UNCHANGED <<toStart, active, completed, queue>>
  PROVE  RunAccount(st, sp, rs2, rp)'
  <1> DEFINE D == Depth(t)
             g == f.run
  <1>1. /\ D \in Nat /\ Kept(t, k) /\ frames[t][D] = f /\ D \in 1 .. Depth(t) /\ D > k
        /\ \A d \in 1 .. Depth(t)' : d > k =>
             /\ d \in 1 .. Depth(t) /\ frames'[t][d].at \in NodeStages
             /\ frames'[t][d].at = frames[t][d].at /\ frames'[t][d].node = frames[t][d].node
             /\ frames'[t][d].bodies = <<>>
        /\ \A d \in 1 .. Depth(t) : d > k => d = D \/ d \in 1 .. Depth(t)'
    BY DEF Ended
  <1>2. g \in Runs /\ f.at \in RunStages /\ f.at \notin NodeStages
    BY DEF RunFrames, RunStages, NodeStages
  <1>3. rs[g] = f.at /\ rp[g] = <<t, D>>
    BY <1>1, <1>2, ZenonT(60) DEF RunAccount, Placed, PlacedAt
  <1>4. AccountTyped(st, sp, rs2, rp)
    BY DEF RunAccount, AccountTyped
  <1>5. \A e \in Runs : rs2[e] = IF e = g THEN "over" ELSE rs[e]
    BY DEF RunAccount, AccountTyped
  <1>6. Above(rp[g], t, k)
    BY <1>1, <1>3 DEF Above
  <1>7. ASSUME NEW i \in NodesOf[g] PROVE st[i] = "done"
    <2> DEFINE S == {j \in NodesOf[g] : st[j] = "done"}
    <2>1. S \subseteq NodesOf[g] /\ Cardinality(S) = Cardinality(NodesOf[g]) /\ IsFiniteSet(NodesOf[g])
      BY <1>2, NestedAssumption DEF RunAccount, Counted
    <2>2. S = NodesOf[g]
      BY <2>1, FS_Subset
    <2>3. QED
      BY <2>2
  <1>8. \A e \in Runs : \A i \in NodesOf[e] : RunOf(i) = e /\ i \in Requests
    BY OwnRun
  <1> HIDE DEF D, g
  <1>9. "over" \notin RunStages /\ "over" \notin EarlyStages /\ "over" # "unborn" /\ "unborn" \notin RunStages
    BY DEF RunStages, EarlyStages
  <1>10. Placed(st, sp, rs2, rp)'
    <2>1. NodesStill(t, k, st, sp, st, sp)
      BY DEF NodesStill
    <2>2. RunsStill(t, k, rs, rp, rs2, rp)
      BY <1>5, <1>6 DEF RunsStill
    <2>3. NodesFound(t, k, st, sp, st)
      <3>1. ASSUME NEW i \in Requests, st[i] \in NodeStages, Above(sp[i], t, k)
            PROVE  \E d \in 1 .. Depth(t)' : d > k /\ frames'[t][d].at \in NodeStages /\ frames'[t][d].node = i
        <4>1. PICK d \in 1 .. Depth(t) : d > k /\ frames[t][d].at \in NodeStages /\ frames[t][d].node = i
          BY <3>1, AboveIs DEF RunAccount
        <4>2. d # D
          BY <1>1, <1>2, <4>1
        <4>3. d \in 1 .. Depth(t)'
          BY <1>1, <4>1, <4>2
        <4>4. QED
          BY <1>1, <4>1, <4>3
      <3>2. QED
        BY <3>1 DEF NodesFound
    <2>4. RunsFound(t, k, rs, rp, rs2)
      <3>1. ASSUME NEW e \in Runs, rs[e] \in RunStages, e # g PROVE ~ Above(rp[e], t, k)
        <4>1. ASSUME NEW d \in 1 .. Depth(t), d > k, frames[t][d].at \in RunStages PROVE frames[t][d].run = g
          <5>1. CASE d = D
            BY <1>1, <5>1 DEF g
          <5>2. CASE d \in 1 .. Depth(t)'
            BY <1>1, <4>1, <5>2 DEF RunStages, NodeStages
          <5>3. QED
            BY <1>1, <4>1, <5>1, <5>2
        <4>2. QED
          BY <3>1, <4>1, AboveIs DEF RunAccount
      <3>2. QED
        BY <1>5, <1>9, <3>1 DEF RunsFound
    <2>5. NewPlaced(t, k, st, sp, rs2, rp)
      <3>1. ASSUME NEW d \in 1 .. Depth(t)', d > k PROVE PlacedAt(frames'[t][d], t, d, st, sp, rs2, rp)
        <4>1. PlacedAt(frames[t][d], t, d, st, sp, rs, rp) /\ d \in 1 .. Depth(t)
          BY <1>1, <3>1 DEF RunAccount, Placed
        <4>2. frames'[t][d].at \notin RunStages
          BY <1>1, <3>1 DEF RunStages, NodeStages
        <4>3. QED
          BY <1>1, <3>1, <4>1, <4>2 DEF PlacedAt
      <3>2. QED
        BY <3>1 DEF NewPlaced
    <2>6. QED
      BY <1>1, <2>1, <2>2, <2>3, <2>4, <2>5, PlacedKept DEF RunAccount
  <1>11. Members(st, rs2)
    <2>1. ASSUME NEW i \in Requests, st[i] # "idle"
          PROVE  /\ RunOf(i) \in Runs /\ i \in NodesOf[RunOf(i)] /\ rs2[RunOf(i)] # "unborn"
                 /\ st[i] # "done" => rs2[RunOf(i)] \in RunStages
      BY <1>5, <1>7, <1>9, <2>1 DEF RunAccount, Members
    <2>2. QED
      BY <2>1 DEF Members
  <1>12. Early(st, rs2)
    BY <1>5, <1>9 DEF RunAccount, Early
  <1>13. Seeding(st)'
    <2>1. SeedingStill(t, k, st, rs, rp, st)
      BY DEF SeedingStill
    <2>2. NewSeeding(t, k, st)
      <3>1. ASSUME NEW d \in 1 .. Depth(t)', d > k PROVE SeedingAt(frames[t][d], st)'
        <4>1. frames'[t][d].at \notin RunStages
          BY <1>1, <3>1 DEF RunStages, NodeStages
        <4>2. QED
          BY <4>1 DEF SeedingAt
      <3>2. QED
        BY <3>1 DEF NewSeeding
    <2>3. QED
      BY <1>1, <2>1, <2>2, SeedingKept DEF RunAccount
  <1>14. InQueue(st)' /\ Counted(st)'
    BY DEF RunAccount, InQueue, Counted
  <1>15. Unstarted(st, rs2)'
    <2>1. \A d \in 1 .. Depth(t)' : d > k /\ frames'[t][d].at \in NodeStages =>
             Pending(frames'[t][d].bodies, BodyRuns[frames'[t][d].node], rs)
      BY <1>1, PendingNone
    <2>2. \A e \in Runs : rs[e] = "unborn" => rs2[e] = "unborn"
      BY <1>2, <1>3, <1>5, <1>9
    <2>3. \A j \in Requests : st[j] \in LooseStages => st[j] \in LooseStages
      OBVIOUS
    <2>4. toStart' = toStart /\ Unstarted(st, rs)
      BY DEF RunAccount
    <2>5. Kept(t, k)
      BY <1>1
    <2> HIDE DEF Ended
    <2>6. ASSUME NEW r2, \A e \in Runs : rs[e] = "unborn" => r2[e] = "unborn" PROVE Unstarted(st, r2)'
      <3>1. PICK s2 : s2 = st
        OBVIOUS
      <3>2. \A j \in Requests : s2[j] \in LooseStages => st[j] \in LooseStages
        BY <3>1
      <3>3. Unstarted(s2, r2)'
        BY <2>1, <2>4, <2>5, <2>6, <3>2, UnstartedKept
      <3>4. QED
        BY <3>1, <3>3
    <2>7. QED
      BY <2>2, <2>6
  <1>16. QED
    BY <1>4, <1>10, <1>11, <1>12, <1>13, <1>14, <1>15 DEF RunAccount, AccountTyped, Members, Early

-----------------------------------------------------------------------------
(* Widths and scopes. *)

Gated(i) == active[RunOf(i)]

\* Where the budget may have the request of a node at each stage of the node.
AllowedPhases(s, gated) ==
  IF s \in {"idle", "todo"} THEN {"idle"}
  ELSE IF s = "budget" THEN IF gated THEN {"parked", "drained"} ELSE {}
  ELSE IF ~ gated THEN {"idle"}
  ELSE IF s \in {"batch", "queued", "start"} THEN {"held"}
  ELSE IF s = "body" THEN {"held", "resumed", "lent"}
  ELSE IF s = "complete" THEN {"held", "resumed"}
  ELSE {"returned"}

PhasesFit(st) == \A i \in Requests : phase[i] \in AllowedPhases(st[i], Gated(i))

\* The node whose width its body computes on.
Computing(f) == IF f.at = "body" /\ Gated(f.node) THEN f.node ELSE NoNode

\* What a run at depth d finds held, and lends.
HeldUnder(u, d) == IF d > 1 THEN Computing(frames[u][d - 1]) ELSE NoNode

\* What thread u holds now: what its body computes on, until a nested run lends it.
HeldNow(u) ==
  IF Depth(u) = 0 THEN NoNode
  ELSE IF frames[u][Depth(u)].at = "enter" THEN HeldUnder(u, Depth(u))
  ELSE IF frames[u][Depth(u)].at = "body" THEN Computing(frames[u][Depth(u)])
  ELSE NoNode

\* The ceiling inside a body, inside a run at depth d, and as a node at depth d
\* finds it.
BodyIcv(f) ==
  IF f.at = "body" /\ Gated(f.node) /\ ThreadWidth[f.node] > 0 THEN ThreadWidth[f.node] ELSE f.prevIcv
RunIcv(u, d) == IF d > 1 THEN BodyIcv(frames[u][d - 1]) ELSE Ceiling[u]
NodeIcv(u, d) == IF d > 1 THEN RunIcv(u, d - 1) ELSE Ceiling[u]
IcvNow(u) ==
  IF Depth(u) = 0 THEN Ceiling[u]
  ELSE IF frames[u][Depth(u)].at \in RunStages THEN RunIcv(u, Depth(u))
  ELSE IF frames[u][Depth(u)].at = "body" THEN BodyIcv(frames[u][Depth(u)])
  ELSE NodeIcv(u, Depth(u))

\* The node at depth d has a nested run on top of it that took its width.
Lends(u, d) == d < Depth(u) /\ frames[u][d + 1].at # "enter"

\* What the scopes of a frame have to restore, and whether its width is charged.
LentAt(u, d) == frames[u][d].at \in RunStages \ {"enter"} => frames[u][d].lent = HeldUnder(u, d)
FoundAt(u, d) ==
  frames[u][d].at = "body" => frames[u][d].prevHold = NoNode /\ frames[u][d].prevIcv = NodeIcv(u, d)
ChargedAt(u, d) ==
  frames[u][d].at = "body" /\ Gated(frames[u][d].node) =>
    phase[frames[u][d].node] \in IF Lends(u, d) THEN {"lent"} ELSE {"held", "resumed"}

Scopes(u) ==
  /\ hold[u] = HeldNow(u) /\ icv[u] = IcvNow(u)
  /\ \A d \in 1 .. Depth(u) : LentAt(u, d) /\ FoundAt(u, d) /\ ChargedAt(u, d)

\* Plans are judged before a node of the run moves.
GatesStill(st) ==
  \A i \in Requests : st[i] \notin {"idle", "todo"} => (active'[RunOf(i)] <=> active[RunOf(i)])

\* The phase of node i is the only one that changes, and i is in no body below
\* depth k of t, nor in one of another thread.
OnlyPhase(i, t, k, st, sp) ==
  /\ \A j \in Requests : j # i => phase'[j] = phase[j]
  /\ i \in Requests /\ st[i] = "body" => \E d \in Nat : d >= k /\ sp[i] = <<t, d>>

\* The node of a body is at its place.
LEMMA BodyPlace ==
  ASSUME NType, NEW st, NEW sp, NEW rs, NEW rp, Placed(st, sp, rs, rp),
         NEW u \in Threads, NEW d \in 1 .. Depth(u), frames[u][d].at = "body"
  PROVE  /\ frames[u][d].node \in Requests /\ frames[u][d] \in NodeFrames
         /\ st[frames[u][d].node] = "body" /\ sp[frames[u][d].node] = <<u, d>>
  <1>1. frames[u][d] \in NodeFrames
    BY Kinds DEF NType, RunStages, NodeStages
  <1>2. PlacedAt(frames[u][d], u, d, st, sp, rs, rp)
    BY DEF Placed
  <1>3. QED
    BY <1>1, <1>2 DEF NodeFrames, PlacedAt, NodeStages

\* What is held and what the ceilings are below a depth is settled there.
LEMMA UnderKept ==
  ASSUME NEW u \in Threads, NEW k \in Nat,
         \A d \in 1 .. k : frames'[u][d] = frames[u][d],
         \A d \in 1 .. k : frames[u][d].at = "body" =>
           (active'[RunOf(frames[u][d].node)] <=> active[RunOf(frames[u][d].node)])
  PROVE  /\ \A d \in 1 .. k : Computing(frames[u][d])' = Computing(frames[u][d])
                              /\ BodyIcv(frames[u][d])' = BodyIcv(frames[u][d])
         /\ \A d \in 1 .. k + 1 : /\ HeldUnder(u, d)' = HeldUnder(u, d)
                                  /\ RunIcv(u, d)' = RunIcv(u, d) /\ NodeIcv(u, d)' = NodeIcv(u, d)
  <1>1. ASSUME NEW d \in 1 .. k
        PROVE  /\ Computing(frames[u][d])' = Computing(frames[u][d])
               /\ BodyIcv(frames[u][d])' = BodyIcv(frames[u][d])
    <2>1. frames'[u][d] = frames[u][d]
      OBVIOUS
    <2>2. frames[u][d].at = "body" =>
            (active'[RunOf(frames[u][d].node)] <=> active[RunOf(frames[u][d].node)])
      OBVIOUS
    <2>3. QED
      BY <2>1, <2>2 DEF Computing, BodyIcv, Gated
  <1>2. ASSUME NEW d \in 1 .. k + 1
        PROVE  HeldUnder(u, d)' = HeldUnder(u, d) /\ RunIcv(u, d)' = RunIcv(u, d)
    <2>1. d > 1 => d - 1 \in 1 .. k
      OBVIOUS
    <2>2. QED
      BY <1>1, <2>1 DEF HeldUnder, RunIcv
  <1>3. ASSUME NEW d \in 1 .. k + 1 PROVE NodeIcv(u, d)' = NodeIcv(u, d)
    <2>1. d > 1 => d - 1 \in 1 .. k + 1
      OBVIOUS
    <2>2. QED
      BY <1>2, <2>1 DEF NodeIcv
  <1>4. QED
    BY <1>1, <1>2, <1>3

\* The scopes of the frames below depth k stand.
BelowStand(u, k) ==
  /\ \A d \in 1 .. k : LentAt(u, d)' /\ FoundAt(u, d)'
  /\ \A d \in 1 .. k - 1 : ChargedAt(u, d)'
  /\ \A d \in 1 .. k + 1 : /\ HeldUnder(u, d)' = HeldUnder(u, d)
                           /\ RunIcv(u, d)' = RunIcv(u, d) /\ NodeIcv(u, d)' = NodeIcv(u, d)
  /\ \A d \in 1 .. k : Computing(frames[u][d])' = Computing(frames[u][d])
                       /\ BodyIcv(frames[u][d])' = BodyIcv(frames[u][d])

LEMMA BelowKept ==
  ASSUME NType, NEW st, NEW sp, NEW rs, NEW rp, Placed(st, sp, rs, rp), GatesStill(st),
         NEW u \in Threads, Scopes(u), NEW k \in 0 .. Depth(u), k <= Depth(u)', Depth(u)' \in Nat,
         \A d \in 1 .. k : frames'[u][d] = frames[u][d],
         \A d \in 1 .. k - 1 : frames[u][d].at = "body" => phase'[frames[u][d].node] = phase[frames[u][d].node]
  PROVE  BelowStand(u, k)
  <1>0. Depth(u) \in Nat /\ k \in Nat
    BY TopPlace DEF NType
  <1>1. ASSUME NEW d \in 1 .. k, frames[u][d].at = "body"
        PROVE  active'[RunOf(frames[u][d].node)] <=> active[RunOf(frames[u][d].node)]
    <2>1. d \in 1 .. Depth(u)
      BY <1>0
    <2>2. frames[u][d].node \in Requests /\ st[frames[u][d].node] = "body"
      BY <1>1, <2>1, BodyPlace
    <2>3. QED
      BY <2>2 DEF GatesStill
  <1>2. /\ \A d \in 1 .. k : Computing(frames[u][d])' = Computing(frames[u][d])
                             /\ BodyIcv(frames[u][d])' = BodyIcv(frames[u][d])
        /\ \A d \in 1 .. k + 1 : /\ HeldUnder(u, d)' = HeldUnder(u, d)
                                 /\ RunIcv(u, d)' = RunIcv(u, d) /\ NodeIcv(u, d)' = NodeIcv(u, d)
    BY <1>0, <1>1, UnderKept
  <1>3. ASSUME NEW d \in 1 .. k PROVE LentAt(u, d)' /\ FoundAt(u, d)'
    <2>1. d \in 1 .. Depth(u) /\ d \in 1 .. k + 1 /\ frames'[u][d] = frames[u][d]
      BY <1>0
    <2>2. LentAt(u, d) /\ FoundAt(u, d)
      BY <2>1 DEF Scopes
    <2>3. HeldUnder(u, d)' = HeldUnder(u, d) /\ NodeIcv(u, d)' = NodeIcv(u, d)
      BY <1>2, <2>1
    <2>4. QED
      BY <2>1, <2>2, <2>3 DEF LentAt, FoundAt
  <1>4. ASSUME NEW d \in 1 .. k - 1 PROVE ChargedAt(u, d)'
    <2>1. /\ d \in 1 .. Depth(u) /\ d \in 1 .. k /\ frames'[u][d] = frames[u][d]
          /\ d + 1 \in 1 .. k /\ frames'[u][d + 1] = frames[u][d + 1] /\ d < Depth(u) /\ d < Depth(u)'
      BY <1>0
    <2>2. ChargedAt(u, d)
      BY <2>1 DEF Scopes
    <2>3. Lends(u, d)' <=> Lends(u, d)
      BY <2>1 DEF Lends
    <2>4. frames[u][d].at = "body" => phase'[frames[u][d].node] = phase[frames[u][d].node]
      OBVIOUS
    <2>5. frames[u][d].at = "body" => (Gated(frames[u][d].node)' <=> Gated(frames[u][d].node))
      BY <1>1, <2>1 DEF Gated
    <2>6. QED
      BY <2>1, <2>2, <2>3, <2>4, <2>5 DEF ChargedAt, Gated
  <1>5. QED
    BY <1>2, <1>3, <1>4 DEF BelowStand

\* A step of one thread leaves the scopes of the others alone, and its own below
\* what it keeps.
LEMMA ScopesKept ==
  ASSUME NType, FramesTypeOK', NEW st, NEW sp, NEW rs, NEW rp, Placed(st, sp, rs, rp), GatesStill(st),
         \A u \in Threads : Scopes(u),
         NEW t \in Threads, NEW k \in Nat, Kept(t, k), NEW i, OnlyPhase(i, t, k, st, sp),
         \A u \in Threads \ {t} : hold'[u] = hold[u] /\ icv'[u] = icv[u]
  PROVE  BelowStand(t, k) /\ \A u \in Threads \ {t} : Scopes(u)'
  <1>0. \A u \in Threads : Depth(u) \in Nat /\ Depth(u)' \in Nat
    BY DEF NType, FramesTypeOK, Depth
  <1>1. ASSUME NEW u \in Threads, NEW d \in 1 .. Depth(u), u # t \/ d < k, frames[u][d].at = "body"
        PROVE  phase'[frames[u][d].node] = phase[frames[u][d].node]
    <2>1. /\ frames[u][d].node \in Requests
          /\ st[frames[u][d].node] = "body" /\ sp[frames[u][d].node] = <<u, d>>
      BY <1>1, BodyPlace
    <2>2. frames[u][d].node # i
      <3>1. ASSUME NEW e \in Nat, e >= k, <<u, d>> = <<t, e>> PROVE FALSE
        <4>1. u = t /\ d = e
          BY <3>1
        <4>2. QED
          BY <1>1, <3>1, <4>1
      <3>2. QED
        BY <2>1, <3>1 DEF OnlyPhase
    <2>3. QED
      BY <2>1, <2>2 DEF OnlyPhase
  <1>2. BelowStand(t, k)
    <2>1. k \in 0 .. Depth(t) /\ k <= Depth(t)' /\ \A d \in 1 .. k : frames'[t][d] = frames[t][d]
      BY DEF Kept
    <2>2. ASSUME NEW d \in 1 .. k - 1, frames[t][d].at = "body"
          PROVE  phase'[frames[t][d].node] = phase[frames[t][d].node]
      <3>1. d \in 1 .. Depth(t) /\ d < k
        BY <1>0, <2>1
      <3>2. QED
        BY <1>1, <2>2, <3>1
    <2>3. QED
      BY <1>0, <2>1, <2>2, BelowKept
  <1>3. ASSUME NEW u \in Threads \ {t} PROVE Scopes(u)'
    <2>1. frames'[u] = frames[u] /\ u # t
      BY DEF Kept
    <2>2. Depth(u)' = Depth(u)
      BY <2>1 DEF Depth
    <2>3. PICK n \in Nat : n = Depth(u)
      BY <1>0
    <2>4. BelowStand(u, n)
      <3>1. n \in 0 .. Depth(u) /\ n <= Depth(u)' /\ \A d \in 1 .. n : frames'[u][d] = frames[u][d]
        BY <2>1, <2>2, <2>3
      <3>2. ASSUME NEW d \in 1 .. n - 1, frames[u][d].at = "body"
            PROVE  phase'[frames[u][d].node] = phase[frames[u][d].node]
        <4>1. d \in 1 .. Depth(u)
          BY <2>3
        <4>2. QED
          BY <1>1, <2>1, <3>2, <4>1
      <3>3. QED
        BY <1>0, <3>1, <3>2, BelowKept
    <2>5. ASSUME n > 0 PROVE ChargedAt(u, n)'
      <3>1. n \in 1 .. Depth(u) /\ ChargedAt(u, n)
        BY <2>3, <2>5 DEF Scopes
      <3>2. ~ Lends(u, n) /\ ~ Lends(u, n)'
        BY <2>2, <2>3 DEF Lends
      <3>3. frames[u][n].at = "body" =>
              /\ phase'[frames[u][n].node] = phase[frames[u][n].node]
              /\ (Gated(frames[u][n].node)' <=> Gated(frames[u][n].node))
        BY <1>1, <2>1, <3>1, BodyPlace DEF GatesStill, Gated
      <3>4. QED
        BY <2>1, <3>1, <3>2, <3>3 DEF ChargedAt, Gated
    <2>6. HeldNow(u)' = HeldNow(u) /\ IcvNow(u)' = IcvNow(u)
      <3>1. CASE n = 0
        BY <2>2, <2>3, <3>1 DEF HeldNow, IcvNow
      <3>2. CASE n > 0
        <4>1. /\ Computing(frames[u][n])' = Computing(frames[u][n]) /\ BodyIcv(frames[u][n])' = BodyIcv(frames[u][n])
              /\ HeldUnder(u, n)' = HeldUnder(u, n) /\ RunIcv(u, n)' = RunIcv(u, n) /\ NodeIcv(u, n)' = NodeIcv(u, n)
          BY <2>4, <3>2 DEF BelowStand
        <4>2. frames'[u][n] = frames[u][n]
          BY <2>1
        <4>3. QED
          BY <2>2, <2>3, <3>2, <4>1, <4>2 DEF HeldNow, IcvNow
      <3>3. QED
        BY <2>3, <3>1, <3>2
    <2>7. \A d \in 1 .. Depth(u)' : LentAt(u, d)' /\ FoundAt(u, d)' /\ ChargedAt(u, d)'
      <3>1. ASSUME NEW d \in 1 .. Depth(u)' PROVE LentAt(u, d)' /\ FoundAt(u, d)' /\ ChargedAt(u, d)'
        <4>1. d \in 1 .. n /\ (d \in 1 .. n - 1 \/ (d = n /\ n > 0))
          BY <2>2, <2>3
        <4>2. QED
          BY <2>4, <2>5, <4>1 DEF BelowStand
      <3>2. QED
        BY <3>1
    <2>8. hold[u] = HeldNow(u) /\ icv[u] = IcvNow(u) /\ hold'[u] = hold[u] /\ icv'[u] = icv[u]
      BY DEF Scopes
    <2>9. QED
      BY <2>6, <2>7, <2>8 DEF Scopes
  <1>4. QED
    BY <1>2, <1>3

\* What a thread has to show for the frames it does not keep.
LEMMA OwnScopes ==
  ASSUME FramesTypeOK', NEW t \in Threads, NEW k \in Nat, BelowStand(t, k),
         k > 0 => ChargedAt(t, k)',
         \A d \in 1 .. Depth(t)' : d > k => LentAt(t, d)' /\ FoundAt(t, d)' /\ ChargedAt(t, d)',
         hold'[t] = HeldNow(t)', icv'[t] = IcvNow(t)'
  PROVE  Scopes(t)'
  <1>0. Depth(t)' \in Nat
    BY DEF FramesTypeOK, Depth
  <1>1. ASSUME NEW d \in 1 .. Depth(t)' PROVE LentAt(t, d)' /\ FoundAt(t, d)' /\ ChargedAt(t, d)'
    <2>1. CASE d > k
      BY <2>1
    <2>2. CASE d = k
      BY <1>0, <2>2 DEF BelowStand
    <2>3. CASE d < k
      <3>1. d \in 1 .. k /\ d \in 1 .. k - 1
        BY <1>0, <2>3
      <3>2. QED
        BY <3>1 DEF BelowStand
    <2>4. QED
      BY <1>0, <2>1, <2>2, <2>3
  <1>2. QED
    BY <1>1 DEF Scopes

\* A body of which neither the phase nor the gate moves stays charged as it was.
LEMMA ChargedKept ==
  ASSUME NType, NEW st, NEW sp, NEW rs, NEW rp, Placed(st, sp, rs, rp), GatesStill(st),
         NEW u \in Threads, Scopes(u), NEW d \in 1 .. Depth(u),
         frames'[u][d].at = frames[u][d].at, frames'[u][d].node = frames[u][d].node,
         Lends(u, d)' <=> Lends(u, d),
         frames[u][d].at = "body" => phase'[frames[u][d].node] = phase[frames[u][d].node]
  PROVE  ChargedAt(u, d)'
  <1>1. ChargedAt(u, d)
    BY DEF Scopes
  <1>2. frames[u][d].at = "body" => (Gated(frames[u][d].node)' <=> Gated(frames[u][d].node))
    BY BodyPlace DEF GatesStill, Gated
  <1>3. QED
    BY <1>1, <1>2 DEF ChargedAt, Gated

\* A run that turns a page past its BlockedScope touches no scope.
LEMMA RunTurnScopes ==
  ASSUME NType, FramesTypeOK', NEW st, NEW sp, NEW rs, NEW rp, Placed(st, sp, rs, rp), GatesStill(st),
         \A u \in Threads : Scopes(u),
         NEW t \in Threads, NEW f, NEW h, Turns(t, f, h), f.lent = h.lent,
         f.at \in RunStages \ {"enter"}, h.at \in RunStages \ {"enter"},
         NEW i, \A j \in Requests : j # i => phase'[j] = phase[j], i \in Requests => st[i] # "body",
         UNCHANGED <<hold, icv>>
  PROVE  \A u \in Threads : Scopes(u)'
  <1>1. PICK D \in Nat \ {0} : D = Depth(t)
    BY DEF Turns
  <1>2. PICK k \in Nat : k = D - 1
    OBVIOUS
  <1>3. /\ Kept(t, k) /\ Depth(t)' = D /\ frames'[t][D] = h /\ frames[t][D] = f
        /\ D = k + 1 /\ k \in Nat /\ D \in Nat /\ D > k /\ D \in 1 .. Depth(t) /\ D \in 1 .. k + 1
        /\ D = Depth(t) /\ D # 0
    BY <1>1, <1>2 DEF Turns
  <1>4. f.at # "body" /\ h.at # "body" /\ f.at # "enter" /\ h.at # "enter" /\ f.at \in RunStages /\ h.at \in RunStages
    BY DEF RunStages
  <1>5. OnlyPhase(i, t, k, st, sp)
    BY DEF OnlyPhase
  <1>6. BelowStand(t, k) /\ \A u \in Threads \ {t} : Scopes(u)'
    BY <1>3, <1>5, ScopesKept
  <1>7. /\ HeldUnder(t, D)' = HeldUnder(t, D) /\ RunIcv(t, D)' = RunIcv(t, D)
    BY <1>3, <1>6 DEF BelowStand
  <1>8. ASSUME k > 0 PROVE ChargedAt(t, k)'
    <2>1. k \in 1 .. Depth(t) /\ frames'[t][k] = frames[t][k] /\ k < Depth(t) /\ k < Depth(t)'
      BY <1>3, <1>8 DEF Kept
    <2>2. Lends(t, k) /\ Lends(t, k)'
      BY <1>3, <1>4, <2>1 DEF Lends
    <2>3. frames[t][k].at = "body" => phase'[frames[t][k].node] = phase[frames[t][k].node]
      BY <2>1, BodyPlace
    <2>4. QED
      BY <2>1, <2>2, <2>3, ChargedKept
  <1>9. LentAt(t, D)' /\ FoundAt(t, D)' /\ ChargedAt(t, D)'
    <2>1. LentAt(t, D)
      BY <1>3 DEF Scopes
    <2>2. QED
      BY <1>3, <1>4, <1>7, <2>1 DEF LentAt, FoundAt, ChargedAt
  <1>10. hold'[t] = HeldNow(t)' /\ icv'[t] = IcvNow(t)'
    <2>1. hold[t] = HeldNow(t) /\ icv[t] = IcvNow(t)
      BY DEF Scopes
    <2>2. HeldNow(t)' = HeldNow(t) /\ IcvNow(t)' = IcvNow(t)
      BY <1>3, <1>4, <1>7 DEF HeldNow, IcvNow
    <2>3. QED
      BY <2>1, <2>2
  <1>11. \A d \in 1 .. Depth(t)' : d > k => LentAt(t, d)' /\ FoundAt(t, d)' /\ ChargedAt(t, d)'
    <2>1. \A d \in 1 .. Depth(t)' : d > k => d = D
      BY <1>3
    <2>2. QED
      BY <1>9, <2>1
  <1>12. Scopes(t)'
    BY <1>3, <1>6, <1>8, <1>10, <1>11, OwnScopes
  <1>13. QED
    BY <1>6, <1>12

\* What the invariant says of the nodes, the runs and the scopes.
Settled(st, sp, rs, rp) ==
  RunAccount(st, sp, rs, rp) /\ PhasesFit(st) /\ \A u \in Threads : Scopes(u)
NestAccount == \E st, sp, rs, rp : Settled(st, sp, rs, rp)

\* One node at most changes its phase and its stage.
LEMMA PhasesKept ==
  ASSUME NEW st, PhasesFit(st), GatesStill(st), NEW st2, NEW i,
         \A j \in Requests : j # i => phase'[j] = phase[j] /\ st2[j] = st[j],
         i \in Requests => phase'[i] \in AllowedPhases(st2[i], Gated(i)')
  PROVE  PhasesFit(st2)'
  <1>1. ASSUME NEW j \in Requests, j # i PROVE phase'[j] \in AllowedPhases(st2[j], Gated(j)')
    <2>1. phase'[j] = phase[j] /\ st2[j] = st[j] /\ phase[j] \in AllowedPhases(st[j], Gated(j))
      BY <1>1 DEF PhasesFit
    <2>2. CASE st[j] \in {"idle", "todo"}
      BY <2>1, <2>2 DEF AllowedPhases
    <2>3. CASE st[j] \notin {"idle", "todo"}
      <3>1. Gated(j)' <=> Gated(j)
        BY <2>3 DEF GatesStill, Gated
      <3>2. QED
        BY <2>1, <2>3, <3>1 DEF AllowedPhases
    <2>4. QED
      BY <2>2, <2>3
  <1>2. QED
    BY <1>1 DEF PhasesFit, Gated

LEMMA RunMovesSettle ==
  ASSUME NType, FramesTypeOK', NEW st, NEW sp, NEW rs, NEW rp, Settled(st, sp, rs, rp),
         NEW t \in Threads, NEW f, NEW h, NEW M, NEW s, NEW st2, NEW rs2,
         RunMoves(t, f, h, M, s, st, st2, rs, rs2),
         \A g \in Runs : g # f.run => active'[g] = active[g],
         SeedingAt(h, st2)', InQueue(st2)', PhasesFit(st2)', GatesStill(st),
         f.lent = h.lent, f.at # "enter", h.at # "enter",
         NEW i, \A j \in Requests : j # i => phase'[j] = phase[j], i \in Requests => st[i] # "body",
         UNCHANGED <<toStart, completed, hold, icv>>
  PROVE  NestAccount'
  <1>1. RunAccount(st, sp, rs, rp) /\ (\A u \in Threads : Scopes(u)) /\ Placed(st, sp, rs, rp)
    BY DEF Settled, RunAccount
  <1>2. /\ AccountTyped(st2, sp, rs2, rp) /\ Placed(st2, sp, rs2, rp)' /\ Members(st2, rs2)
        /\ Early(st2, rs2) /\ Seeding(st2)' /\ Counted(st2)' /\ Unstarted(st2, rs2)'
    BY <1>1, RunMovesKeep
  <1>3. RunAccount(st2, sp, rs2, rp)'
    BY <1>2 DEF RunAccount, AccountTyped, Members, Early
  <1>4. f.at \in RunStages \ {"enter"} /\ h.at \in RunStages \ {"enter"} /\ Turns(t, f, h)
    BY DEF RunMoves, RunFrames, RunStages
  <1>5. \A u \in Threads : Scopes(u)'
    BY <1>1, <1>4, RunTurnScopes, SMTT(60)
  <1>6. QED
    BY <1>3, <1>5 DEF NestAccount, Settled

\* The frame a run has when it moves.
LEMMA RunAtWork ==
  ASSUME NType, NEW st, NEW sp, NEW rs, NEW rp, Settled(st, sp, rs, rp), NEW t \in Threads,
         NEW a \in RunStages, At(t, a)
  PROVE  /\ Top(t) \in RunFrames /\ Top(t).at = a /\ Top(t).run \in Runs /\ rs[Top(t).run] = a
         /\ Top(t).todo = {i \in NodesOf[Top(t).run] : st[i] = "todo"}
         /\ Top(t).batch = {i \in NodesOf[Top(t).run] : st[i] = "batch"}
         /\ a = "seed" /\ ~ active[Top(t).run] => Top(t).todo = {} \/ Top(t).batch = {}
         /\ \A i \in NodesOf[Top(t).run] : i \in Requests /\ RunOf(i) = Top(t).run
         /\ st = [i \in Requests |-> st[i]]
  <1>1. /\ Depth(t) \in 1 .. Depth(t) /\ Top(t) = frames[t][Depth(t)] /\ Top(t).at = a /\ Top(t) \in RunFrames
    BY AtPlace DEF NType
  <1>2. Top(t).run \in Runs
    BY <1>1 DEF RunFrames
  <1>3. PlacedAt(Top(t), t, Depth(t), st, sp, rs, rp) /\ SeedingAt(Top(t), st)
    BY <1>1 DEF Settled, RunAccount, Placed, Seeding
  <1>4. \A i \in NodesOf[Top(t).run] : i \in Requests /\ RunOf(i) = Top(t).run
    BY <1>2, OwnRun
  <1>5. st = [i \in Requests |-> st[i]]
    BY DEF Settled, RunAccount, AccountTyped
  <1>6. QED
    BY <1>1, <1>2, <1>3, <1>4, <1>5 DEF PlacedAt, SeedingAt

LEMMA SyncWidthSettles ==
  ASSUME NType, FramesTypeOK', NEW st, NEW sp, NEW rs, NEW rp, Settled(st, sp, rs, rp),
         NEW t \in Threads, SyncWidth(t)
  PROVE  NestAccount'
  <1>1. PICK f : f = Top(t)
    OBVIOUS
  <1>2. PICK h : h = [f EXCEPT !.at = "plan"]
    OBVIOUS
  <1>3. At(t, "sync") /\ Goto(t, <<h>>) /\ phase' = phase
        /\ UNCHANGED <<toStart, queue, hold, icv, active, completed>>
    BY <1>1, <1>2 DEF SyncWidth, SyncMachineWidth, budgetVars
  <1>4. /\ f \in RunFrames /\ f.at = "sync" /\ f.run \in Runs /\ rs[f.run] = "sync"
        /\ f.todo = {i \in NodesOf[f.run] : st[i] = "todo"} /\ f.batch = {i \in NodesOf[f.run] : st[i] = "batch"}
        /\ st = [i \in Requests |-> st[i]]
    BY <1>1, <1>3, RunAtWork DEF RunStages
  <1>5. /\ h \in RunFrames /\ h.at = "plan" /\ h.run = f.run /\ h.lent = f.lent
        /\ h.todo = f.todo /\ h.batch = f.batch
    BY <1>2, <1>4 DEF RunFrames
  <1>6. PICK rs2 : rs2 = [rs EXCEPT ![f.run] = h.at]
    OBVIOUS
  <1>7. Turns(t, f, h)
    BY <1>1, <1>3, GotoTurns DEF NType
  <1>8. RunMoves(t, f, h, {}, "batch", st, st, rs, rs2)
    BY <1>4, <1>5, <1>6, <1>7 DEF RunMoves, EarlyStages
  <1>9. GatesStill(st) /\ PhasesFit(st)' /\ InQueue(st)' /\ SeedingAt(h, st)'
    BY <1>3, <1>4, <1>5 DEF GatesStill, Settled, RunAccount, PhasesFit, InQueue, SeedingAt, Gated
  <1>10. /\ \A j \in Requests : j # NoNode => phase'[j] = phase[j]
         /\ NoNode \in Requests => st[NoNode] # "body"
         /\ \A g \in Runs : g # f.run => active'[g] = active[g]
    BY <1>3, NestedAssumption
  <1>11. QED
    BY <1>3, <1>4, <1>5, <1>8, <1>9, <1>10, RunMovesSettle

LEMMA JudgePlanSettles ==
  ASSUME NType, FramesTypeOK', NEW st, NEW sp, NEW rs, NEW rp, Settled(st, sp, rs, rp),
         NEW t \in Threads, JudgePlan(t)
  PROVE  NestAccount'
  <1>1. PICK f : f = Top(t)
    OBVIOUS
  <1>2. PICK h : h = [f EXCEPT !.at = "seed"]
    OBVIOUS
  <1>3. At(t, "plan") /\ Goto(t, <<h>>) /\ phase' = phase /\ UNCHANGED <<toStart, queue, hold, icv, completed>>
    BY <1>1, <1>2 DEF JudgePlan, budgetVars
  <1>4. /\ f \in RunFrames /\ f.at = "plan" /\ f.run \in Runs /\ rs[f.run] = "plan"
        /\ f.todo = {i \in NodesOf[f.run] : st[i] = "todo"} /\ f.batch = {i \in NodesOf[f.run] : st[i] = "batch"}
        /\ st = [i \in Requests |-> st[i]]
    BY <1>1, <1>3, RunAtWork DEF RunStages
  <1>5. /\ h \in RunFrames /\ h.at = "seed" /\ h.run = f.run /\ h.lent = f.lent
        /\ h.todo = f.todo /\ h.batch = f.batch
    BY <1>2, <1>4 DEF RunFrames
  <1>6. PICK rs2 : rs2 = [rs EXCEPT ![f.run] = h.at]
    OBVIOUS
  <1>7. Turns(t, f, h)
    BY <1>1, <1>3, GotoTurns DEF NType
  <1>8. RunMoves(t, f, h, {}, "batch", st, st, rs, rs2)
    BY <1>4, <1>5, <1>6, <1>7 DEF RunMoves, EarlyStages
  <1>9. \A i \in NodesOf[f.run] : st[i] = "todo"
    BY <1>4 DEF Settled, RunAccount, Early, EarlyStages
  <1>10. \A g : g # f.run => active'[g] = active[g]
    <2>1. PICK p : active' = [active EXCEPT ![f.run] = p]
      BY <1>1 DEF JudgePlan
    <2>2. QED
      BY <2>1 DEF NType
  <1>11. GatesStill(st)
    <2>1. ASSUME NEW i \in Requests, st[i] \notin {"idle", "todo"} PROVE RunOf(i) # f.run
      BY <1>9, <2>1 DEF Settled, RunAccount, Members
    <2>2. QED
      BY <1>10, <2>1 DEF GatesStill
  <1>12. f.batch = {}
    BY <1>4, <1>9
  <1>13. SeedingAt(h, st)' /\ InQueue(st)'
    BY <1>3, <1>4, <1>5, <1>12 DEF Settled, RunAccount, InQueue, SeedingAt
  <1>14. /\ \A j \in Requests : j # NoNode => phase'[j] = phase[j]
         /\ NoNode \in Requests => st[NoNode] # "body"
         /\ NoNode \notin Requests
    BY <1>3, NestedAssumption
  <1>15. PhasesFit(st)'
    BY <1>3, <1>11, <1>14, PhasesKept DEF Settled
  <1>16. QED
    BY <1>3, <1>4, <1>5, <1>8, <1>10, <1>11, <1>13, <1>14, <1>15, RunMovesSettle

LEMMA SeedUngatedSettles ==
  ASSUME NType, FramesTypeOK', NEW st, NEW sp, NEW rs, NEW rp, Settled(st, sp, rs, rp),
         NEW t \in Threads, SeedUngated(t)
  PROVE  NestAccount'
  <1>1. PICK f : f = Top(t)
    OBVIOUS
  <1>2. PICK h : h = [f EXCEPT !.todo = {}, !.batch = f.todo]
    OBVIOUS
  <1>3. /\ At(t, "seed") /\ Goto(t, <<h>>) /\ phase' = phase /\ ~ active[f.run] /\ f.todo # {}
        /\ UNCHANGED <<toStart, queue, hold, icv, active, completed>>
    BY <1>1, <1>2 DEF SeedUngated, budgetVars
  <1>4. /\ f \in RunFrames /\ f.at = "seed" /\ f.run \in Runs /\ rs[f.run] = "seed"
        /\ f.todo = {i \in NodesOf[f.run] : st[i] = "todo"} /\ f.batch = {i \in NodesOf[f.run] : st[i] = "batch"}
        /\ \A i \in NodesOf[f.run] : i \in Requests /\ RunOf(i) = f.run
        /\ ~ active[f.run] => f.todo = {} \/ f.batch = {}
    BY <1>1, <1>3, RunAtWork DEF RunStages
  <1>5. h \in RunFrames /\ h.at = "seed" /\ h.run = f.run /\ h.lent = f.lent /\ h.todo = {} /\ h.batch = f.todo
    BY <1>2, <1>4 DEF RunFrames
  <1>6. PICK rs2 : rs2 = [rs EXCEPT ![f.run] = h.at]
    OBVIOUS
  <1>7. PICK st2 : st2 = [i \in Requests |-> IF i \in f.todo THEN "batch" ELSE st[i]]
    OBVIOUS
  <1>8. Turns(t, f, h)
    BY <1>1, <1>3, GotoTurns DEF NType
  <1>9. RunMoves(t, f, h, f.todo, "batch", st, st2, rs, rs2)
    BY <1>4, <1>5, <1>6, <1>7, <1>8 DEF RunMoves, EarlyStages
  <1>10. f.batch = {}
    BY <1>3, <1>4
  <1>11. SeedingAt(h, st2)'
    <2>1. {i \in NodesOf[f.run] : st2[i] = "todo"} = {}
      BY <1>4, <1>7
    <2>2. {i \in NodesOf[f.run] : st2[i] = "batch"} = f.todo
      BY <1>4, <1>7, <1>10
    <2>3. QED
      BY <1>5, <2>1, <2>2 DEF SeedingAt
  <1>12. InQueue(st2)'
    <2>1. \A i \in Requests : st2[i] = "queued" <=> st[i] = "queued"
      BY <1>4, <1>7
    <2>2. QED
      BY <1>3, <2>1 DEF Settled, RunAccount, InQueue
  <1>13. GatesStill(st)
    BY <1>3 DEF GatesStill
  <1>14. PhasesFit(st2)'
    <2>1. ASSUME NEW i \in Requests PROVE phase[i] \in AllowedPhases(st2[i], active[RunOf(i)])
      <3>1. phase[i] \in AllowedPhases(st[i], active[RunOf(i)])
        BY DEF Settled, PhasesFit, Gated
      <3>2. CASE i \in f.todo
        <4>1. st[i] = "todo" /\ st2[i] = "batch" /\ ~ active[RunOf(i)]
          BY <1>3, <1>4, <1>7, <3>2
        <4>2. QED
          BY <3>1, <4>1 DEF AllowedPhases
      <3>3. CASE i \notin f.todo
        BY <1>7, <3>1, <3>3
      <3>4. QED
        BY <3>2, <3>3
    <2>2. QED
      BY <1>3, <2>1 DEF PhasesFit, Gated
  <1>15. /\ \A j \in Requests : j # NoNode => phase'[j] = phase[j]
         /\ NoNode \in Requests => st[NoNode] # "body"
         /\ \A g \in Runs : g # f.run => active'[g] = active[g]
    BY <1>3, NestedAssumption
  <1>16. QED
    BY <1>3, <1>4, <1>5, <1>9, <1>11, <1>12, <1>13, <1>14, <1>15, RunMovesSettle

LEMMA SubmitBatchSettles ==
  ASSUME NType, FramesTypeOK', NEW st, NEW sp, NEW rs, NEW rp, Settled(st, sp, rs, rp),
         NEW t \in Threads, SubmitBatch(t)
  PROVE  NestAccount'
  <1>1. PICK f : f = Top(t)
    OBVIOUS
  <1>2. PICK h : h = [f EXCEPT !.at = "help", !.batch = {}]
    OBVIOUS
  <1>3. /\ At(t, "seed") /\ Goto(t, <<h>>) /\ phase' = phase /\ f.todo = {} /\ queue' = queue \cup f.batch
        /\ UNCHANGED <<toStart, hold, icv, active, completed>>
    BY <1>1, <1>2 DEF SubmitBatch, budgetVars
  <1>4. /\ f \in RunFrames /\ f.at = "seed" /\ f.run \in Runs /\ rs[f.run] = "seed"
        /\ f.todo = {i \in NodesOf[f.run] : st[i] = "todo"} /\ f.batch = {i \in NodesOf[f.run] : st[i] = "batch"}
        /\ \A i \in NodesOf[f.run] : i \in Requests /\ RunOf(i) = f.run
    BY <1>1, <1>3, RunAtWork DEF RunStages
  <1>5. h \in RunFrames /\ h.at = "help" /\ h.run = f.run /\ h.lent = f.lent /\ h.todo = {} /\ h.batch = {}
    BY <1>2, <1>3, <1>4 DEF RunFrames
  <1>6. PICK rs2 : rs2 = [rs EXCEPT ![f.run] = h.at]
    OBVIOUS
  <1>7. PICK st2 : st2 = [i \in Requests |-> IF i \in f.batch THEN "queued" ELSE st[i]]
    OBVIOUS
  <1>8. Turns(t, f, h)
    BY <1>1, <1>3, GotoTurns DEF NType
  <1>9. RunMoves(t, f, h, f.batch, "queued", st, st2, rs, rs2)
    BY <1>4, <1>5, <1>6, <1>7, <1>8 DEF RunMoves, EarlyStages
  <1>11. SeedingAt(h, st2)'
    <2>1. {i \in NodesOf[f.run] : st2[i] = "todo"} = {}
      BY <1>3, <1>4, <1>7
    <2>2. {i \in NodesOf[f.run] : st2[i] = "batch"} = {}
      BY <1>4, <1>7
    <2>3. QED
      BY <1>5, <2>1, <2>2 DEF SeedingAt
  <1>12. InQueue(st2)'
    BY <1>3, <1>4, <1>7 DEF Settled, RunAccount, InQueue
  <1>13. GatesStill(st)
    BY <1>3 DEF GatesStill
  <1>14. PhasesFit(st2)'
    <2>1. ASSUME NEW i \in Requests PROVE phase[i] \in AllowedPhases(st2[i], active[RunOf(i)])
      <3>1. phase[i] \in AllowedPhases(st[i], active[RunOf(i)])
        BY DEF Settled, PhasesFit, Gated
      <3>2. CASE i \in f.batch
        BY <1>4, <1>7, <3>1, <3>2 DEF AllowedPhases
      <3>3. CASE i \notin f.batch
        BY <1>7, <3>1, <3>3
      <3>4. QED
        BY <3>2, <3>3
    <2>2. QED
      BY <1>3, <2>1 DEF PhasesFit, Gated
  <1>15. /\ \A j \in Requests : j # NoNode => phase'[j] = phase[j]
         /\ NoNode \in Requests => st[NoNode] # "body"
         /\ \A g \in Runs : g # f.run => active'[g] = active[g]
    BY <1>3, NestedAssumption
  <1>16. QED
    BY <1>3, <1>4, <1>5, <1>9, <1>11, <1>12, <1>13, <1>14, <1>15, RunMovesSettle

LEMMA SeedGatedSettles ==
  ASSUME NType, TypeOK, FramesTypeOK', NEW st, NEW sp, NEW rs, NEW rp, Settled(st, sp, rs, rp),
         NEW t \in Threads, NEW n \in Requests, SeedGranted(t, n) \/ SeedParked(t, n)
  PROVE  NestAccount'
  <1>1. PICK f : f = Top(t)
    OBVIOUS
  <1>2. PICK h : h = IF SeedGranted(t, n) THEN [f EXCEPT !.todo = @ \ {n}, !.batch = @ \cup {n}]
                     ELSE [f EXCEPT !.todo = @ \ {n}]
    OBVIOUS
  <1>3. PICK s : s = IF SeedGranted(t, n) THEN "batch" ELSE "budget"
    OBVIOUS
  <1>4. /\ At(t, "seed") /\ Goto(t, <<h>>) /\ active[f.run] /\ n \in f.todo
        /\ phase' = [phase EXCEPT ![n] = IF SeedGranted(t, n) THEN "held" ELSE "parked"]
        /\ UNCHANGED <<toStart, queue, hold, icv, active, completed>>
    BY <1>1, <1>2 DEF SeedGranted, SeedParked, AcquireGranted, AcquireParked, NextToSeed
  <1>5. /\ f \in RunFrames /\ f.at = "seed" /\ f.run \in Runs /\ rs[f.run] = "seed"
        /\ f.todo = {i \in NodesOf[f.run] : st[i] = "todo"} /\ f.batch = {i \in NodesOf[f.run] : st[i] = "batch"}
        /\ \A i \in NodesOf[f.run] : i \in Requests /\ RunOf(i) = f.run
    BY <1>1, <1>4, RunAtWork DEF RunStages
  <1>6. /\ h \in RunFrames /\ h.at = "seed" /\ h.run = f.run /\ h.lent = f.lent /\ h.todo = f.todo \ {n}
        /\ h.batch = IF s = "batch" THEN f.batch \cup {n} ELSE f.batch
    BY <1>2, <1>3, <1>5 DEF RunFrames
  <1>7. PICK rs2 : rs2 = [rs EXCEPT ![f.run] = h.at]
    OBVIOUS
  <1>8. PICK st2 : st2 = [i \in Requests |-> IF i \in {n} THEN s ELSE st[i]]
    OBVIOUS
  <1>9. Turns(t, f, h)
    BY <1>1, <1>4, GotoTurns DEF NType
  <1>10. n \in NodesOf[f.run] /\ st[n] = "todo" /\ s \in {"batch", "budget"} /\ RunOf(n) = f.run
    BY <1>3, <1>4, <1>5
  <1>11. RunMoves(t, f, h, {n}, s, st, st2, rs, rs2)
    BY <1>5, <1>6, <1>7, <1>8, <1>9, <1>10 DEF RunMoves, EarlyStages
  <1>12. SeedingAt(h, st2)'
    <2>1. {i \in NodesOf[f.run] : st2[i] = "todo"} = h.todo
      BY <1>5, <1>6, <1>8, <1>10
    <2>2. {i \in NodesOf[f.run] : st2[i] = "batch"} = h.batch
      BY <1>5, <1>6, <1>8, <1>10
    <2>3. active'[f.run]
      BY <1>4
    <2>4. QED
      BY <1>6, <2>1, <2>2, <2>3 DEF SeedingAt
  <1>13. InQueue(st2)'
    <2>1. \A i \in Requests : st2[i] = "queued" <=> st[i] = "queued"
      BY <1>8, <1>10
    <2>2. QED
      BY <1>4, <2>1 DEF Settled, RunAccount, InQueue
  <1>14. GatesStill(st)
    BY <1>4 DEF GatesStill
  <1>15. /\ \A j \in Requests : j # n => phase'[j] = phase[j] /\ st2[j] = st[j]
         /\ phase'[n] = IF s = "batch" THEN "held" ELSE "parked"
         /\ st2[n] = s /\ st[n] # "body"
    BY <1>3, <1>4, <1>8, <1>10 DEF TypeOK
  <1>16. PhasesFit(st2)'
    <2>1. Gated(n)'
      BY <1>4, <1>10 DEF Gated
    <2>2. phase'[n] \in AllowedPhases(st2[n], Gated(n)')
      BY <1>10, <1>15, <2>1 DEF AllowedPhases
    <2>3. QED
      BY <1>14, <1>15, <2>2, PhasesKept DEF Settled
  <1>17. \A g \in Runs : g # f.run => active'[g] = active[g]
    BY <1>4
  <1>18. QED
    BY <1>4, <1>5, <1>6, <1>11, <1>12, <1>13, <1>14, <1>15, <1>16, <1>17, RunMovesSettle

\* Where thread t is when its top frame is of a run.
LEMMA WhatIsHeld ==
  ASSUME NType, NEW st, NEW sp, NEW rs, NEW rp, Placed(st, sp, rs, rp),
         NEW t \in Threads, NEW d \in 1 .. Depth(t), HeldUnder(t, d) # NoNode
  PROVE  /\ d > 1 /\ d - 1 \in 1 .. Depth(t) /\ frames[t][d - 1].at = "body"
         /\ HeldUnder(t, d) = frames[t][d - 1].node /\ Gated(frames[t][d - 1].node)
         /\ HeldUnder(t, d) \in Requests /\ st[HeldUnder(t, d)] = "body" /\ sp[HeldUnder(t, d)] = <<t, d - 1>>
  <1>1. d > 1 /\ Computing(frames[t][d - 1]) # NoNode
    BY DEF HeldUnder
  <1>2. d - 1 \in 1 .. Depth(t)
    BY <1>1, TopPlace DEF NType
  <1>3. /\ frames[t][d - 1].at = "body" /\ Gated(frames[t][d - 1].node)
        /\ HeldUnder(t, d) = frames[t][d - 1].node
    BY <1>1 DEF Computing, HeldUnder
  <1>4. QED
    BY <1>1, <1>2, <1>3, BodyPlace

LEMMA LendWidthSettles ==
  ASSUME NType, TypeOK, FramesTypeOK', NEW st, NEW sp, NEW rs, NEW rp, Settled(st, sp, rs, rp),
         NEW t \in Threads, LendWidth(t)
  PROVE  NestAccount'
  <1>1. PICK f : f = Top(t)
    OBVIOUS
  <1>2. PICK i : i = hold[t]
    OBVIOUS
  <1>3. PICK h : h = [f EXCEPT !.at = "sync", !.lent = i]
    OBVIOUS
  <1>4. /\ At(t, "enter") /\ Goto(t, <<h>>) /\ hold' = [hold EXCEPT ![t] = NoNode]
        /\ i # NoNode => phase' = [phase EXCEPT ![i] = "lent"]
        /\ i = NoNode => phase' = phase
        /\ UNCHANGED <<toStart, queue, icv, active, completed>>
    BY <1>1, <1>2, <1>3 DEF LendWidth, Lend, Release, budgetVars
  <1>5. /\ f \in RunFrames /\ f.at = "enter" /\ f.run \in Runs /\ rs[f.run] = "enter"
        /\ f.todo = {j \in NodesOf[f.run] : st[j] = "todo"} /\ f.batch = {j \in NodesOf[f.run] : st[j] = "batch"}
        /\ st = [j \in Requests |-> st[j]]
    BY <1>1, <1>4, RunAtWork DEF RunStages
  <1>6. i \in Requests \cup {NoNode} /\ NoNode \notin Requests
    BY <1>2, NestedAssumption DEF NType
  <1>7. /\ h \in RunFrames /\ h.at = "sync" /\ h.run = f.run /\ h.lent = i
        /\ h.todo = f.todo /\ h.batch = f.batch
    BY <1>3, <1>5, <1>6 DEF RunFrames
  <1>8. PICK rs2 : rs2 = [rs EXCEPT ![f.run] = h.at]
    OBVIOUS
  <1>9. Turns(t, f, h)
    BY <1>1, <1>4, GotoTurns DEF NType
  <1>10. RunMoves(t, f, h, {}, "batch", st, st, rs, rs2)
    BY <1>5, <1>7, <1>8, <1>9 DEF RunMoves, EarlyStages
  <1>11. GatesStill(st) /\ InQueue(st)' /\ SeedingAt(h, st)'
    BY <1>4, <1>5, <1>7 DEF GatesStill, Settled, RunAccount, InQueue, SeedingAt
  <1>12. RunAccount(st, sp, rs2, rp)'
    <2>1. /\ AccountTyped(st, sp, rs2, rp) /\ Placed(st, sp, rs2, rp)' /\ Members(st, rs2)
          /\ Early(st, rs2) /\ Seeding(st)' /\ Counted(st)' /\ Unstarted(st, rs2)'
      BY <1>4, <1>10, <1>11, RunMovesKeep DEF Settled
    <2>2. QED
      BY <1>11, <2>1 DEF RunAccount, AccountTyped, Members, Early
  <1>13. PICK D \in Nat \ {0} : D = Depth(t)
    BY <1>9 DEF Turns
  <1>14. PICK k \in Nat : k = D - 1
    OBVIOUS
  <1>15. /\ Kept(t, k) /\ Depth(t)' = D /\ frames'[t][D] = h /\ frames[t][D] = f
         /\ D = k + 1 /\ D > k /\ D \in 1 .. Depth(t) /\ D \in 1 .. k + 1 /\ D = Depth(t) /\ D # 0
    BY <1>9, <1>13, <1>14 DEF Turns
  <1>16. i = HeldUnder(t, D) /\ icv[t] = RunIcv(t, D)
    <2>1. hold[t] = HeldNow(t) /\ icv[t] = IcvNow(t)
      BY DEF Settled, Scopes
    <2>2. QED
      BY <1>2, <1>5, <1>15, <2>1 DEF HeldNow, IcvNow, RunStages
  <1>17. i \in Requests => /\ k > 0 /\ k \in 1 .. Depth(t) /\ frames[t][k].at = "body" /\ frames[t][k].node = i
                           /\ Gated(i) /\ st[i] = "body" /\ sp[i] = <<t, k>>
    BY <1>6, <1>15, <1>16, WhatIsHeld DEF Settled, RunAccount
  <1>18. /\ \A j \in Requests : j # i => phase'[j] = phase[j]
         /\ i \in Requests => phase'[i] = "lent"
    BY <1>4, <1>6 DEF TypeOK
  <1>19. OnlyPhase(i, t, k, st, sp)
    BY <1>17, <1>18 DEF OnlyPhase
  <1>20. PhasesFit(st)'
    <2>1. i \in Requests => phase'[i] \in AllowedPhases(st[i], Gated(i)')
      BY <1>4, <1>17, <1>18 DEF AllowedPhases, Gated
    <2>2. QED
      BY <1>11, <1>18, <2>1, PhasesKept DEF Settled
  <1>21. BelowStand(t, k) /\ \A u \in Threads \ {t} : Scopes(u)'
    BY <1>4, <1>11, <1>15, <1>19, ScopesKept DEF Settled, RunAccount, NType
  <1>22. HeldUnder(t, D)' = HeldUnder(t, D) /\ RunIcv(t, D)' = RunIcv(t, D)
    BY <1>15, <1>21 DEF BelowStand
  <1>23. ASSUME k > 0 PROVE ChargedAt(t, k)'
    <2>1. k \in 1 .. Depth(t) /\ frames'[t][k] = frames[t][k] /\ k < Depth(t)'
      BY <1>15, <1>23 DEF Kept
    <2>2. Lends(t, k)'
      BY <1>7, <1>15, <2>1 DEF Lends
    <2>3. ASSUME frames'[t][k].at = "body", active'[RunOf(frames'[t][k].node)]
          PROVE  phase'[frames'[t][k].node] = "lent"
      <3>1. frames[t][k].at = "body" /\ Gated(frames[t][k].node) /\ frames[t][k].node \in Requests
        BY <1>4, <2>1, <2>3, BodyPlace DEF Gated, Settled, RunAccount
      <3>2. D > 1 /\ D - 1 = k
        BY <1>15, <1>23
      <3>3. i = frames[t][k].node
        BY <1>16, <3>1, <3>2 DEF HeldUnder, Computing
      <3>4. QED
        BY <1>18, <2>1, <3>1, <3>3
    <2>4. QED
      BY <2>2, <2>3 DEF ChargedAt, Gated
  <1>24. LentAt(t, D)' /\ FoundAt(t, D)' /\ ChargedAt(t, D)'
    BY <1>7, <1>15, <1>16, <1>22 DEF LentAt, FoundAt, ChargedAt
  <1>25. hold'[t] = HeldNow(t)' /\ icv'[t] = IcvNow(t)'
    <2>1. HeldNow(t)' = NoNode /\ IcvNow(t)' = RunIcv(t, D)
      BY <1>7, <1>15, <1>22 DEF HeldNow, IcvNow, RunStages
    <2>2. hold'[t] = NoNode /\ icv'[t] = icv[t]
      BY <1>4 DEF NType
    <2>3. QED
      BY <1>16, <2>1, <2>2
  <1>26. \A d \in 1 .. Depth(t)' : d > k => LentAt(t, d)' /\ FoundAt(t, d)' /\ ChargedAt(t, d)'
    <2>1. \A d \in 1 .. Depth(t)' : d > k => d = D
      BY <1>15
    <2>2. QED
      BY <1>24, <2>1
  <1>27. Scopes(t)'
    BY <1>15, <1>21, <1>23, <1>25, <1>26, OwnScopes
  <1>28. QED
    BY <1>12, <1>20, <1>21, <1>27 DEF NestAccount, Settled

\* A run leaves the list it was in, and was in no other.
LEMMA StartedOff ==
  ASSUME NEW st, NEW rs, Unstarted(st, rs), NEW st2, NEW rs2, NEW b \in Runs,
         \A g \in Runs : g # b => rs2[g] = rs[g],
         \A x \in Threads \ Workers :
           \/ toStart'[x] = toStart[x] /\ ~ Has(TopRuns[x], b)
           \/ Pending(toStart'[x], TopRuns[x], rs2),
         \A u \in Threads : \A d \in 1 .. Depth(u)' : frames'[u][d].at \in NodeStages =>
           \/ d \in 1 .. Depth(u) /\ frames'[u][d] = frames[u][d] /\ ~ Has(BodyRuns[frames[u][d].node], b)
           \/ Pending(frames'[u][d].bodies, BodyRuns[frames'[u][d].node], rs2),
         \A i \in Requests : st2[i] \in LooseStages => st[i] \in LooseStages /\ ~ Has(BodyRuns[i], b)
  PROVE  Unstarted(st2, rs2)'
  <1>1. \A s, w : Pending(s, w, rs) /\ ~ Has(w, b) => Pending(s, w, rs2)
    BY DEF Pending
  <1>2. ASSUME NEW x \in Threads \ Workers PROVE Pending(toStart'[x], TopRuns[x], rs2)
    BY <1>1 DEF Unstarted
  <1>3. ASSUME NEW u \in Threads, NEW d \in 1 .. Depth(u)', frames'[u][d].at \in NodeStages
        PROVE  Pending(frames'[u][d].bodies, BodyRuns[frames'[u][d].node], rs2)
    <2>1. CASE d \in 1 .. Depth(u) /\ frames'[u][d] = frames[u][d] /\ ~ Has(BodyRuns[frames[u][d].node], b)
      <3>1. Pending(frames[u][d].bodies, BodyRuns[frames[u][d].node], rs)
        BY <1>3, <2>1 DEF Unstarted
      <3>2. QED
        BY <1>1, <2>1, <3>1
    <2>2. QED
      BY <1>3, <2>1
  <1>4. ASSUME NEW i \in Requests, st2[i] \in LooseStages PROVE Pending(BodyRuns[i], BodyRuns[i], rs2)
    <2>1. st[i] \in LooseStages /\ ~ Has(BodyRuns[i], b)
      BY <1>4
    <2>2. Pending(BodyRuns[i], BodyRuns[i], rs)
      BY <2>1 DEF Unstarted
    <2>3. QED
      BY <1>1, <2>1, <2>2
  <1>5. QED
    BY <1>2, <1>3, <1>4 DEF Unstarted

\* The nodes of a run that starts were idle.
LEMMA BornPhases ==
  ASSUME NEW st, NEW sp, NEW rs, NEW rp, Settled(st, sp, rs, rp), NEW b \in Runs, rs[b] = "unborn",
         NEW st2, st2 = [i \in Requests |-> IF i \in NodesOf[b] THEN "todo" ELSE st[i]],
         phase' = phase, active' = active
  PROVE  /\ PhasesFit(st2)' /\ GatesStill(st)
         /\ \A i \in Requests : st2[i] \in LooseStages => st[i] \in LooseStages
  <1>1. ASSUME NEW i \in NodesOf[b] PROVE st[i] = "idle"
    BY <1>1, OwnRun DEF Settled, RunAccount, Members
  <1>2. ASSUME NEW i \in Requests PROVE phase[i] \in AllowedPhases(st2[i], active[RunOf(i)])
    <2>1. phase[i] \in AllowedPhases(st[i], active[RunOf(i)])
      BY DEF Settled, PhasesFit, Gated
    <2>2. CASE i \in NodesOf[b]
      BY <1>1, <2>1, <2>2 DEF AllowedPhases
    <2>3. CASE i \notin NodesOf[b]
      BY <2>1, <2>3
    <2>4. QED
      BY <2>2, <2>3
  <1>3. QED
    BY <1>1, <1>2 DEF PhasesFit, Gated, GatesStill, LooseStages

LEMMA StartTopRunSettles ==
  ASSUME NType, FramesTypeOK', NEW st, NEW sp, NEW rs, NEW rp, Settled(st, sp, rs, rp),
         NEW t \in Threads, StartTopRun(t)
  PROVE  NestAccount'
  <1>1. PICK b : b = Head(toStart[t])
    OBVIOUS
  <1>2. /\ t \in Threads \ Workers /\ frames[t] = <<>> /\ toStart[t] # <<>> /\ toStart[t] \in Seq(Runs)
        /\ frames' = [frames EXCEPT ![t] = <<RunFrame(b)>>]
        /\ toStart' = [toStart EXCEPT ![t] = Tail(@)] /\ phase' = phase
        /\ UNCHANGED <<active, completed, queue, hold, icv>>
    BY <1>1 DEF StartTopRun, budgetVars, NType
  <1>3. PICK st2 : st2 = [i \in Requests |-> IF i \in NodesOf[b] THEN "todo" ELSE st[i]]
    OBVIOUS
  <1>4. PICK rs2 : rs2 = [rs EXCEPT ![b] = "enter"]
    OBVIOUS
  <1>5. PICK rp2 : rp2 = [rp EXCEPT ![b] = <<t, Depth(t)'>>]
    OBVIOUS
  <1>6. /\ RunAccount(st, sp, rs, rp) /\ Placed(st, sp, rs, rp) /\ Unstarted(st, rs)
        /\ \A u \in Threads : Scopes(u)
    BY DEF Settled, RunAccount
  <1>7. \A g : g # b => rs2[g] = rs[g]
    BY <1>4, <1>6 DEF RunAccount, AccountTyped
  <1>8. /\ Pending(Tail(toStart[t]), TopRuns[t], rs2) /\ Has(TopRuns[t], b)
        /\ b \in Runs /\ rs[b] = "unborn"
    <2>1. Pending(toStart[t], TopRuns[t], rs)
      BY <1>2, <1>6 DEF Unstarted
    <2>2. \A g \in Runs : g # Head(toStart[t]) => rs2[g] = rs[g]
      BY <1>1, <1>7
    <2>3. /\ Pending(Tail(toStart[t]), TopRuns[t], rs2) /\ Has(TopRuns[t], Head(toStart[t]))
          /\ Head(toStart[t]) \in Runs /\ rs[Head(toStart[t])] = "unborn"
      BY <1>2, <2>1, <2>2, PendingTail
    <2>4. QED
      BY <1>1, <2>3
  <1>9. /\ Depth(t) = 0 /\ Depth(t)' = 1 /\ frames'[t][1] = RunFrame(b)
        /\ \A u \in Threads : u # t => frames'[u] = frames[u] /\ Depth(u)' = Depth(u)
        /\ Kept(t, 0)
    BY <1>2 DEF Depth, Kept, NType, FramesTypeOK
  <1>10. Born(t, 0, b)
    BY <1>9 DEF Born
  <1>11. PhasesFit(st2)' /\ GatesStill(st) /\ \A i \in Requests : st2[i] \in LooseStages => st[i] \in LooseStages
    BY <1>2, <1>3, <1>8, BornPhases
  <1>12. Unstarted(st2, rs2)'
    <2>1. \A x \in Threads \ Workers :
           \/ toStart'[x] = toStart[x] /\ ~ Has(TopRuns[x], b)
           \/ Pending(toStart'[x], TopRuns[x], rs2)
      BY <1>2, <1>8, OneList DEF NType
    <2>2. \A i \in Requests : ~ Has(BodyRuns[i], b)
      BY <1>2, <1>8, OneList
    <2>3. ASSUME NEW u \in Threads, NEW d \in 1 .. Depth(u)', frames'[u][d].at \in NodeStages
          PROVE  d \in 1 .. Depth(u) /\ frames'[u][d] = frames[u][d] /\ ~ Has(BodyRuns[frames[u][d].node], b)
      <3>1. u # t
        BY <1>9, <2>3 DEF RunFrame, NodeStages
      <3>2. d \in 1 .. Depth(u) /\ frames'[u][d] = frames[u][d]
        BY <1>9, <3>1
      <3>3. frames[u][d] \in NodeFrames
        BY <2>3, <3>2, Kinds DEF NType
      <3>4. QED
        BY <2>2, <3>2, <3>3 DEF NodeFrames
    <2>4. QED
      BY <1>6, <1>7, <1>8, <1>11, <2>1, <2>2, <2>3, StartedOff
  <1>13. RunAccount(st2, sp, rs2, rp2)'
    BY <1>2, <1>3, <1>4, <1>5, <1>6, <1>8, <1>10, <1>12, BirthKeeps
  <1>14. OnlyPhase(NoNode, t, 0, st, sp)
    BY <1>2, NestedAssumption DEF OnlyPhase
  <1>15. BelowStand(t, 0) /\ \A u \in Threads \ {t} : Scopes(u)'
    BY <1>2, <1>6, <1>9, <1>11, <1>14, ScopesKept
  <1>16. Scopes(t)'
    <2>1. frames'[t][1].at = "enter"
      BY <1>9 DEF RunFrame
    <2>2. HeldNow(t)' = NoNode /\ IcvNow(t)' = Ceiling[t]
      BY <1>9, <2>1 DEF HeldNow, IcvNow, HeldUnder, RunIcv, RunStages
    <2>3. hold[t] = NoNode /\ icv[t] = Ceiling[t]
      BY <1>6, <1>9 DEF Scopes, HeldNow, IcvNow
    <2>4. \A d \in 1 .. Depth(t)' : d = 1
      BY <1>9
    <2>5. LentAt(t, 1)' /\ FoundAt(t, 1)' /\ ChargedAt(t, 1)'
      BY <2>1 DEF LentAt, FoundAt, ChargedAt
    <2>6. QED
      BY <1>2, <2>2, <2>3, <2>4, <2>5 DEF Scopes
  <1>17. QED
    BY <1>11, <1>13, <1>15, <1>16 DEF NestAccount, Settled

\* The frame a node has when it moves.
LEMMA NodeAtWork ==
  ASSUME NType, NEW st, NEW sp, NEW rs, NEW rp, Settled(st, sp, rs, rp), NEW t \in Threads,
         NEW a \in NodeStages, At(t, a)
  PROVE  /\ Top(t) \in NodeFrames /\ Top(t).at = a /\ Top(t).node \in Requests
         /\ st[Top(t).node] = a /\ sp[Top(t).node] = <<t, Depth(t)>>
         /\ Top(t) = frames[t][Depth(t)] /\ Depth(t) \in 1 .. Depth(t) /\ Depth(t) \in Nat \ {0}
         /\ RunOf(Top(t).node) \in Runs
  <1>1. /\ Depth(t) \in 1 .. Depth(t) /\ Top(t) = frames[t][Depth(t)] /\ Top(t).at = a /\ Top(t) \in NodeFrames
        /\ Depth(t) \in Nat
    BY AtPlace, TopPlace DEF NType
  <1>2. PlacedAt(Top(t), t, Depth(t), st, sp, rs, rp)
    BY <1>1 DEF Settled, RunAccount, Placed
  <1>3. Top(t).node \in Requests /\ st[Top(t).node] = a /\ sp[Top(t).node] = <<t, Depth(t)>>
    BY <1>1, <1>2 DEF NodeFrames, PlacedAt
  <1>4. RunOf(Top(t).node) \in Runs
    BY <1>3 DEF Settled, RunAccount, Members, NodeStages
  <1>5. QED
    BY <1>1, <1>3, <1>4

LEMMA NestedRunSettles ==
  ASSUME NType, FramesTypeOK', NEW st, NEW sp, NEW rs, NEW rp, Settled(st, sp, rs, rp),
         NEW t \in Threads, NestedRun(t)
  PROVE  NestAccount'
  <1>1. PICK f : f = Top(t)
    OBVIOUS
  <1>2. PICK b : b = Head(f.bodies)
    OBVIOUS
  <1>3. PICK h : h = [f EXCEPT !.bodies = Tail(@)]
    OBVIOUS
  <1>4. /\ At(t, "body") /\ f.bodies # <<>> /\ Goto(t, <<h, RunFrame(b)>>) /\ phase' = phase
        /\ UNCHANGED <<toStart, active, completed, queue, hold, icv>>
    BY <1>1, <1>2, <1>3 DEF NestedRun, budgetVars
  <1>5. PICK n : n = f.node
    OBVIOUS
  <1>6. /\ f \in NodeFrames /\ f.at = "body" /\ n \in Requests /\ st[n] = "body" /\ sp[n] = <<t, Depth(t)>>
        /\ f.bodies \in Seq(Runs)
    <2>1. f \in NodeFrames /\ f.at = "body" /\ n \in Requests /\ st[n] = "body" /\ sp[n] = <<t, Depth(t)>>
      BY <1>1, <1>4, <1>5, NodeAtWork DEF NodeStages
    <2>2. QED
      BY <2>1 DEF NodeFrames
  <1>7. PICK st2 : st2 = [i \in Requests |-> IF i \in NodesOf[b] THEN "todo" ELSE st[i]]
    OBVIOUS
  <1>8. PICK rs2 : rs2 = [rs EXCEPT ![b] = "enter"]
    OBVIOUS
  <1>9. PICK rp2 : rp2 = [rp EXCEPT ![b] = <<t, Depth(t)'>>]
    OBVIOUS
  <1>10. /\ RunAccount(st, sp, rs, rp) /\ Placed(st, sp, rs, rp) /\ Unstarted(st, rs)
         /\ \A u \in Threads : Scopes(u)
    BY DEF Settled, RunAccount
  <1>11. \A g : g # b => rs2[g] = rs[g]
    BY <1>8, <1>10 DEF RunAccount, AccountTyped
  <1>12. Calls(t, f, h, RunFrame(b))
    BY <1>1, <1>4, GotoCalls DEF NType
  <1>13. PICK D \in Nat \ {0} : D = Depth(t)
    BY <1>12 DEF Calls
  <1>14. PICK k \in Nat : k = D - 1
    OBVIOUS
  <1>15. /\ Kept(t, k) /\ Depth(t)' = D + 1 /\ frames'[t][D] = h /\ frames'[t][D + 1] = RunFrame(b)
         /\ frames[t][D] = f /\ D = k + 1 /\ D > k /\ D \in 1 .. Depth(t) /\ D \in 1 .. k + 1 /\ D = Depth(t)
         /\ D \in Nat /\ D # 0
    BY <1>12, <1>13, <1>14 DEF Calls
  <1>16. /\ h.at = "body" /\ h.node = n /\ h.bodies = Tail(f.bodies)
         /\ h.prevHold = f.prevHold /\ h.prevIcv = f.prevIcv
         /\ RunFrame(b).at = "enter"
    BY <1>3, <1>5, <1>6 DEF NodeFrames, RunFrame
  <1>17. /\ Pending(h.bodies, BodyRuns[n], rs2) /\ Has(BodyRuns[n], b)
         /\ b \in Runs /\ rs[b] = "unborn"
    <2>1. f.at \in NodeStages
      BY <1>6 DEF NodeStages
    <2>2. Pending(f.bodies, BodyRuns[n], rs)
      BY <1>5, <1>10, <1>15, <2>1 DEF Unstarted
    <2>3. \A g \in Runs : g # Head(f.bodies) => rs2[g] = rs[g]
      BY <1>2, <1>11
    <2>4. /\ Pending(Tail(f.bodies), BodyRuns[n], rs2) /\ Has(BodyRuns[n], Head(f.bodies))
          /\ Head(f.bodies) \in Runs /\ rs[Head(f.bodies)] = "unborn"
      BY <1>4, <1>6, <2>2, <2>3, PendingTail, ZenonT(60)
    <2>5. QED
      BY <1>2, <1>16, <2>4
  <1>18. \A d \in 1 .. Depth(t)' : d > k => d = D \/ d = D + 1
    BY <1>15
  <1>19. Born(t, k, b)
    <2>1. Depth(t)' \in Nat /\ Depth(t)' > k /\ frames'[t][Depth(t)'] = RunFrame(b)
      BY <1>15
    <2>2. \A d \in 1 .. Depth(t)' : d > k /\ d # Depth(t)' => d = D
      BY <1>15, <1>18
    <2>3. \A d \in 1 .. Depth(t) : d > k => d \in 1 .. Depth(t)' /\ d # Depth(t)'
      BY <1>15
    <2>4. D \in 1 .. Depth(t) /\ frames'[t][D].at \in NodeStages
          /\ frames'[t][D].at = frames[t][D].at /\ frames'[t][D].node = frames[t][D].node
      BY <1>5, <1>6, <1>15, <1>16 DEF NodeStages
    <2>5. QED
      BY <1>15, <2>1, <2>2, <2>3, <2>4 DEF Born
  <1>20. PhasesFit(st2)' /\ GatesStill(st) /\ \A i \in Requests : st2[i] \in LooseStages => st[i] \in LooseStages
    BY <1>4, <1>7, <1>17, BornPhases
  <1>21. \A i \in Requests : i # n => ~ Has(BodyRuns[i], b)
    BY <1>6, <1>17, OneList
  <1>22. Unstarted(st2, rs2)'
    <2>1. \A x \in Threads \ Workers :
           \/ toStart'[x] = toStart[x] /\ ~ Has(TopRuns[x], b)
           \/ Pending(toStart'[x], TopRuns[x], rs2)
      BY <1>4, <1>6, <1>17, OneList
    <2>2. \A i \in Requests : st2[i] \in LooseStages => st[i] \in LooseStages /\ ~ Has(BodyRuns[i], b)
      BY <1>6, <1>20, <1>21 DEF LooseStages
    <2>3. ASSUME NEW u \in Threads, NEW d \in 1 .. Depth(u)', frames'[u][d].at \in NodeStages
          PROVE  \/ d \in 1 .. Depth(u) /\ frames'[u][d] = frames[u][d] /\ ~ Has(BodyRuns[frames[u][d].node], b)
                 \/ Pending(frames'[u][d].bodies, BodyRuns[frames'[u][d].node], rs2)
      <3>1. CASE u = t /\ d > k
        <4>1. d = D
          BY <1>15, <1>16, <1>18, <2>3, <3>1 DEF NodeStages
        <4>2. QED
          BY <1>15, <1>16, <1>17, <3>1, <4>1
      <3>2. CASE u # t \/ ~ (d > k)
        <4>1. d \in 1 .. Depth(u) /\ frames'[u][d] = frames[u][d] /\ d \in Nat
          <5>1. Depth(u) \in Nat /\ Depth(u)' \in Nat
            BY DEF NType, FramesTypeOK, Depth
          <5>2. QED
            BY <1>15, <3>2, <5>1 DEF Kept, Depth
        <4>2. PlacedAt(frames[u][d], u, d, st, sp, rs, rp)
          BY <1>10, <4>1 DEF Placed
        <4>3. sp[frames[u][d].node] = <<u, d>>
          BY <2>3, <4>1, <4>2 DEF PlacedAt
        <4>4. <<u, d>> # <<t, D>>
          <5>1. ASSUME <<u, d>> = <<t, D>> PROVE FALSE
            <6>1. u = t /\ d = D
              BY <5>1
            <6>2. QED
              BY <1>15, <3>2, <6>1
          <5>2. QED
            BY <5>1
        <4>5. frames[u][d].node # n
          BY <1>6, <1>15, <4>3, <4>4
        <4>6. frames[u][d] \in NodeFrames
          BY <2>3, <4>1, Kinds DEF NType
        <4>7. QED
          BY <1>21, <4>1, <4>5, <4>6 DEF NodeFrames
      <3>3. QED
        BY <3>1, <3>2
    <2>4. QED
      BY <1>10, <1>11, <1>17, <2>1, <2>2, <2>3, StartedOff
  <1>23. RunAccount(st2, sp, rs2, rp2)'
    BY <1>4, <1>7, <1>8, <1>9, <1>10, <1>17, <1>19, <1>22, BirthKeeps
  <1>24. OnlyPhase(NoNode, t, k, st, sp)
    BY <1>4, NestedAssumption DEF OnlyPhase
  <1>25. BelowStand(t, k) /\ \A u \in Threads \ {t} : Scopes(u)'
    BY <1>4, <1>10, <1>15, <1>20, <1>24, ScopesKept
  <1>26. NodeIcv(t, D)' = NodeIcv(t, D)
    BY <1>15, <1>25 DEF BelowStand
  <1>27. Computing(h)' = Computing(f) /\ BodyIcv(h)' = BodyIcv(f)
    BY <1>4, <1>5, <1>16, <1>6 DEF Computing, BodyIcv, Gated
  <1>28. ASSUME k > 0 PROVE ChargedAt(t, k)'
    <2>1. /\ k \in 1 .. Depth(t) /\ frames'[t][k] = frames[t][k] /\ k < Depth(t) /\ k < Depth(t)'
      BY <1>15, <1>28 DEF Kept
    <2>2. Lends(t, k) /\ Lends(t, k)'
      BY <1>6, <1>15, <1>16, <2>1 DEF Lends
    <2>3. QED
      BY <1>4, <1>10, <1>20, <2>1, <2>2, ChargedKept
  <1>29. LentAt(t, D)' /\ FoundAt(t, D)' /\ ChargedAt(t, D)'
    <2>1. FoundAt(t, D) /\ ChargedAt(t, D)
      BY <1>10, <1>15 DEF Scopes
    <2>2. ~ Lends(t, D) /\ ~ Lends(t, D)'
      BY <1>15, <1>16 DEF Lends
    <2>3. LentAt(t, D)'
      BY <1>15, <1>16 DEF LentAt, RunStages
    <2>4. FoundAt(t, D)'
      BY <1>6, <1>15, <1>16, <1>26, <2>1 DEF FoundAt
    <2>5. ChargedAt(t, D)'
      BY <1>4, <1>5, <1>6, <1>15, <1>16, <2>1, <2>2 DEF ChargedAt, Gated
    <2>6. QED
      BY <2>3, <2>4, <2>5
  <1>30. LentAt(t, D + 1)' /\ FoundAt(t, D + 1)' /\ ChargedAt(t, D + 1)'
    BY <1>15, <1>16 DEF LentAt, FoundAt, ChargedAt
  <1>31. hold'[t] = HeldNow(t)' /\ icv'[t] = IcvNow(t)'
    <2>1. hold[t] = Computing(f) /\ icv[t] = BodyIcv(f)
      BY <1>6, <1>10, <1>15 DEF Scopes, HeldNow, IcvNow, RunStages
    <2>2. D + 1 > 1 /\ (D + 1) - 1 = D /\ D + 1 # 0
      BY <1>15
    <2>3. HeldNow(t)' = Computing(h)' /\ IcvNow(t)' = BodyIcv(h)'
      BY <1>15, <1>16, <2>2 DEF HeldNow, IcvNow, HeldUnder, RunIcv, RunStages, Computing, BodyIcv
    <2>4. QED
      BY <1>4, <1>27, <2>1, <2>3
  <1>32. \A d \in 1 .. Depth(t)' : d > k => LentAt(t, d)' /\ FoundAt(t, d)' /\ ChargedAt(t, d)'
    BY <1>18, <1>29, <1>30
  <1>33. Scopes(t)'
    BY <1>15, <1>25, <1>28, <1>31, <1>32, OwnScopes
  <1>34. QED
    BY <1>20, <1>23, <1>25, <1>33 DEF NestAccount, Settled

\* What an execute() that returns leaves: the frame below goes on as it was, but
\* for the runs it has still to start.
Returns(t, k) ==
  /\ k \in Nat /\ Depth(t)' = Depth(t) - 1 /\ Kept(t, k)
  /\ Depth(t) = 1 => k = 0
  /\ Depth(t) > 1 =>
       /\ k = Depth(t) - 2
       /\ \E s : frames'[t][Depth(t) - 1] = [frames[t][Depth(t) - 1] EXCEPT !.bodies = s]

LEMMA ReturnsFrom ==
  ASSUME NType, NEW t \in Threads, NEW f,
         Pops(t, f) \/ \E s : Cuts(t, f, [frames[t][Depth(t) - 1] EXCEPT !.bodies = s])
  PROVE  \E k : Returns(t, k)
  <1>1. Depth(t) \in Nat \ {0} /\ Depth(t)' = Depth(t) - 1
    BY DEF Pops, Cuts
  <1>2. CASE Pops(t, f) /\ Depth(t) = 1
    BY <1>1, <1>2 DEF Pops, Returns
  <1>3. CASE Pops(t, f) /\ Depth(t) > 1
    <2>1. PICK D \in Nat : D = Depth(t) /\ D > 1
      BY <1>1, <1>3
    <2>2. Kept(t, D - 2)
      <3>1. Kept(t, D - 1)
        BY <1>3, <2>1 DEF Pops
      <3>2. D - 2 \in 0 .. D /\ D - 2 <= D - 1 /\ \A d \in 1 .. D - 2 : d \in 1 .. D - 1
        BY <2>1
      <3>3. QED
        BY <1>1, <2>1, <3>1, <3>2 DEF Kept
    <2>3. frames'[t][D - 1] = frames[t][D - 1]
      <3>1. D - 1 \in 1 .. D - 1
        BY <2>1
      <3>2. QED
        BY <1>3, <2>1, <3>1 DEF Pops, Kept
    <2>4. frames[t][D - 1] = [frames[t][D - 1] EXCEPT !.bodies = frames[t][D - 1].bodies]
      <3>1. D \in 2 .. Depth(t) /\ D - 1 \in 1 .. Depth(t)
        BY <2>1
      <3>2. frames[t][D - 1] \in RunFrames \/ frames[t][D - 1] \in NodeFrames
        BY <3>1, Kinds DEF NType
      <3>3. QED
        BY <3>2 DEF RunFrames, NodeFrames
    <2>5. D - 2 \in Nat
      BY <2>1
    <2>6. \E s : frames'[t][Depth(t) - 1] = [frames[t][Depth(t) - 1] EXCEPT !.bodies = s]
      <3>1. frames'[t][D - 1] = [frames[t][D - 1] EXCEPT !.bodies = frames[t][D - 1].bodies]
        BY <2>3, <2>4
      <3>2. QED
        BY <2>1, <3>1
    <2>7. D - 2 = Depth(t) - 2 /\ Depth(t) # 1
      BY <2>1
    <2>8. Returns(t, D - 2)
      BY <1>1, <2>2, <2>5, <2>6, <2>7 DEF Returns
    <2>9. QED
      BY <2>8
  <1>4. CASE \E s : Cuts(t, f, [frames[t][Depth(t) - 1] EXCEPT !.bodies = s])
    <2>1. PICK s : Cuts(t, f, [frames[t][Depth(t) - 1] EXCEPT !.bodies = s])
      BY <1>4
    <2>2. Depth(t) - 2 \in Nat /\ Depth(t) > 1
      BY <2>1 DEF Cuts
    <2>3. QED
      BY <2>1, <2>2 DEF Cuts, Returns
  <1>5. CASE Pops(t, f)
    <2>1. Depth(t) = 1 \/ Depth(t) > 1
      BY <1>1
    <2>2. QED
      BY <1>2, <1>3, <1>5, <2>1
  <1>6. QED
    BY <1>4, <1>5

LEMMA EndScopes ==
  ASSUME NType, TypeOK, FramesTypeOK', NEW st, NEW sp, NEW rs, NEW rp, Settled(st, sp, rs, rp),
         NEW t \in Threads, NEW k, Returns(t, k), NEW f \in RunFrames, f.at = "help", f = frames[t][Depth(t)],
         Depth(t) \in Nat \ {0},
         hold' = [hold EXCEPT ![t] = f.lent], UNCHANGED <<icv, active>>,
         phase' = IF f.lent # NoNode THEN [phase EXCEPT ![f.lent] = "resumed"] ELSE phase
  PROVE  PhasesFit(st)' /\ \A u \in Threads : Scopes(u)'
  <1>1. PICK D \in Nat \ {0} : D = Depth(t)
    OBVIOUS
  <1>2. PICK i : i = f.lent
    OBVIOUS
  <1>3. /\ i \in Requests \cup {NoNode} /\ NoNode \notin Requests /\ k \in Nat /\ Kept(t, k)
        /\ D \in 1 .. Depth(t) /\ D = Depth(t) /\ Depth(t)' = D - 1
    BY <1>1, <1>2, NestedAssumption DEF RunFrames, Returns
  <1>4. Placed(st, sp, rs, rp) /\ (\A u \in Threads : Scopes(u)) /\ GatesStill(st)
    BY DEF Settled, RunAccount, GatesStill
  <1>5. i = HeldUnder(t, D) /\ icv[t] = RunIcv(t, D)
    <2>1. LentAt(t, D) /\ icv[t] = IcvNow(t)
      BY <1>3, <1>4 DEF Scopes
    <2>2. QED
      BY <1>2, <1>3, <2>1 DEF LentAt, IcvNow, RunStages
  <1>6. i \in Requests => /\ D > 1 /\ frames[t][D - 1].at = "body" /\ frames[t][D - 1].node = i
                          /\ Gated(i) /\ st[i] = "body" /\ sp[i] = <<t, D - 1>>
    BY <1>3, <1>4, <1>5, WhatIsHeld
  <1>7. /\ \A j \in Requests : j # i => phase'[j] = phase[j]
        /\ i \in Requests => phase'[i] = "resumed"
    BY <1>2, <1>3 DEF TypeOK
  <1>8. OnlyPhase(i, t, k, st, sp)
    <2>1. D > 1 => D - 1 \in Nat /\ D - 1 >= k
      BY <1>3 DEF Returns
    <2>2. QED
      BY <1>6, <1>7, <2>1 DEF OnlyPhase
  <1>9. PhasesFit(st)'
    <2>1. i \in Requests => phase'[i] \in AllowedPhases(st[i], Gated(i)')
      BY <1>6, <1>7 DEF AllowedPhases, Gated
    <2>2. QED
      BY <1>4, <1>7, <2>1, PhasesKept DEF Settled
  <1>10. BelowStand(t, k) /\ \A u \in Threads \ {t} : Scopes(u)'
    <2>1. \A u \in Threads \ {t} : hold'[u] = hold[u] /\ icv'[u] = icv[u]
      BY DEF NType
    <2>2. QED
      BY <1>3, <1>4, <1>8, <2>1, ScopesKept
  <1>11. Scopes(t)'
    <2>1. CASE D = 1
      <3>1. i = NoNode /\ RunIcv(t, D) = Ceiling[t] /\ Depth(t)' = 0
        BY <1>3, <1>5, <2>1 DEF HeldUnder, RunIcv
      <3>2. hold'[t] = NoNode /\ icv'[t] = Ceiling[t]
        BY <1>2, <1>5, <3>1 DEF NType
      <3>3. HeldNow(t)' = NoNode /\ IcvNow(t)' = Ceiling[t]
        BY <3>1 DEF HeldNow, IcvNow
      <3>4. \A d \in 1 .. Depth(t)' : FALSE
        BY <3>1
      <3>5. QED
        BY <3>2, <3>3, <3>4 DEF Scopes
    <2>2. CASE D # 1
      <3>1. PICK e \in Nat \ {0} : e = D - 1
        BY <2>2
      <3>2. /\ k = e - 1 /\ e = k + 1 /\ e \in 1 .. k + 1 /\ e > k /\ Depth(t)' = e /\ D > 1 /\ D = e + 1
            /\ e \in 1 .. Depth(t) /\ D \in 2 .. Depth(t) /\ e # 0
        BY <1>3, <2>2, <3>1 DEF Returns
      <3>3. frames[t][e].at = "body" /\ frames[t][e] \in NodeFrames
        <4>1. Carries(frames[t][e], frames[t][D])
          BY <3>1, <3>2 DEF NType, Nested
        <4>2. frames[t][e].at = "body"
          BY <1>3, <4>1 DEF Carries, RunStages
        <4>3. QED
          BY <1>4, <3>2, <4>2, BodyPlace
      <3>4. /\ frames'[t][e].at = "body" /\ frames'[t][e].node = frames[t][e].node
            /\ frames'[t][e].prevHold = frames[t][e].prevHold /\ frames'[t][e].prevIcv = frames[t][e].prevIcv
        <4>1. PICK s : frames'[t][e] = [frames[t][e] EXCEPT !.bodies = s]
          BY <1>3, <3>1, <3>2 DEF Returns
        <4>2. QED
          BY <3>3, <4>1 DEF NodeFrames
      <3>5. NodeIcv(t, e)' = NodeIcv(t, e)
        BY <1>10, <3>2 DEF BelowStand
      <3>6. Computing(frames[t][e]) = i /\ BodyIcv(frames[t][e]) = icv[t]
        BY <1>5, <3>1, <3>2 DEF HeldUnder, RunIcv
      <3>7. Computing(frames[t][e])' = i /\ BodyIcv(frames[t][e])' = icv[t]
        BY <3>3, <3>4, <3>6 DEF Computing, BodyIcv, Gated
      <3>8. HeldNow(t)' = i /\ IcvNow(t)' = icv[t]
        BY <3>2, <3>4, <3>7 DEF HeldNow, IcvNow, RunStages
      <3>9. hold'[t] = HeldNow(t)' /\ icv'[t] = IcvNow(t)'
        BY <1>2, <3>8 DEF NType
      <3>10. LentAt(t, e)' /\ FoundAt(t, e)'
        <4>1. FoundAt(t, e)
          BY <1>4, <3>2 DEF Scopes
        <4>2. QED
          BY <3>3, <3>4, <3>5, <4>1 DEF LentAt, FoundAt, RunStages
      <3>11. ChargedAt(t, e)'
        <4>1. ~ Lends(t, e)'
          BY <3>2 DEF Lends
        <4>2. active'[RunOf(frames'[t][e].node)] => phase'[frames'[t][e].node] = "resumed"
          BY <1>3, <1>4, <1>7, <3>2, <3>3, <3>4, <3>6, BodyPlace DEF Computing, Gated
        <4>3. QED
          BY <4>1, <4>2 DEF ChargedAt, Gated
      <3>12. ASSUME k > 0 PROVE ChargedAt(t, k)'
        <4>1. k \in 1 .. k /\ e \in 2 .. Depth(t) /\ e - 1 = k
          BY <1>3, <3>1, <3>2, <3>12
        <4>2. frames[t][k].at = "help"
          BY <3>3, <4>1 DEF NType, Nested, Carries, RunStages
        <4>3. frames'[t][k].at = "help"
          BY <1>3, <4>1, <4>2 DEF Kept
        <4>4. QED
          BY <4>3 DEF ChargedAt
      <3>13. \A d \in 1 .. Depth(t)' : d > k => d = e
        BY <1>3, <3>2
      <3>14. QED
        BY <1>3, <1>10, <3>9, <3>10, <3>11, <3>12, <3>13, OwnScopes
    <2>3. QED
      BY <2>1, <2>2
  <1>12. QED
    BY <1>9, <1>10, <1>11

LEMMA EndRunSettles ==
  ASSUME NType, TypeOK, NEW st, NEW sp, NEW rs, NEW rp, Settled(st, sp, rs, rp),
         NEW t \in Threads, EndRun(t)
  PROVE  NestAccount'
  <1>1. PICK f : f = Top(t)
    OBVIOUS
  <1>2. PICK b : b = frames[t][Depth(t) - 1]
    OBVIOUS
  <1>3. /\ f \in RunFrames /\ f.at = "help" /\ f = frames[t][Depth(t)] /\ FramesTypeOK'
        /\ \/ Pops(t, f)
           \/ Cuts(t, f, [b EXCEPT !.bodies = <<>>]) /\ b \in NodeFrames /\ b.at = "body"
    BY <1>1, <1>2, EndRunStack
  <1>4. /\ completed[f.run] = Cardinality(NodesOf[f.run])
        /\ hold' = [hold EXCEPT ![t] = f.lent]
        /\ phase' = IF f.lent # NoNode THEN [phase EXCEPT ![f.lent] = "resumed"] ELSE phase
        /\ UNCHANGED <<toStart, queue, icv, active, completed>>
    BY <1>1 DEF EndRun, Reclaim, budgetVars
  <1>5. PICK D \in Nat \ {0} : D = Depth(t)
    BY <1>3 DEF Pops, Cuts
  <1>6. D \in 1 .. Depth(t) /\ D = Depth(t)
    BY <1>5
  <1>7. PICK rs2 : rs2 = [rs EXCEPT ![f.run] = "over"]
    OBVIOUS
  <1>8. PICK k \in Nat : Ended(t, k, f)
    <2>1. CASE Pops(t, f)
      <3>1. D - 1 \in Nat /\ Kept(t, D - 1) /\ Depth(t)' = D - 1 /\ Depth(t) > D - 1
        BY <1>6, <2>1 DEF Pops
      <3>2. /\ \A d \in 1 .. Depth(t)' : ~ (d > D - 1)
            /\ \A d \in 1 .. Depth(t) : d > D - 1 => d = Depth(t)
        BY <1>6, <3>1
      <3>3. Ended(t, D - 1, f)
        BY <1>3, <1>6, <3>1, <3>2 DEF Ended
      <3>4. QED
        BY <3>1, <3>3
    <2>2. CASE Cuts(t, f, [b EXCEPT !.bodies = <<>>]) /\ b \in NodeFrames /\ b.at = "body"
      <3>1. /\ D - 2 \in Nat /\ Kept(t, D - 2) /\ Depth(t)' = D - 1 /\ Depth(t) > D - 2
            /\ frames'[t][D - 1] = [b EXCEPT !.bodies = <<>>] /\ D - 1 \in 1 .. Depth(t)
        BY <1>6, <2>2 DEF Cuts
      <3>2. /\ \A d \in 1 .. Depth(t)' : d > D - 2 => d = D - 1
            /\ \A d \in 1 .. Depth(t) : d > D - 2 => d = Depth(t) \/ d \in 1 .. Depth(t)'
        BY <1>6, <3>1
      <3>3. /\ frames'[t][D - 1].at \in NodeStages /\ frames'[t][D - 1].bodies = <<>>
            /\ frames'[t][D - 1].at = frames[t][D - 1].at /\ frames'[t][D - 1].node = frames[t][D - 1].node
        <4>1. frames[t][D - 1] = b
          BY <1>2, <1>5
        <4>2. QED
          BY <2>2, <3>1, <4>1 DEF NodeFrames, NodeStages
      <3>4. Ended(t, D - 2, f)
        BY <1>3, <1>6, <3>1, <3>2, <3>3 DEF Ended
      <3>5. QED
        BY <3>1, <3>4
    <2>3. QED
      BY <1>3, <2>1, <2>2
  <1>9. RunAccount(st, sp, rs2, rp)'
    BY <1>3, <1>4, <1>7, <1>8, EndKeeps DEF Settled
  <1>10. PICK e : Returns(t, e)
    BY <1>2, <1>3, ReturnsFrom
  <1>11. PhasesFit(st)' /\ \A u \in Threads : Scopes(u)'
    BY <1>3, <1>4, <1>5, <1>10, EndScopes
  <1>12. QED
    BY <1>9, <1>11 DEF NestAccount, Settled

\* Under a node there is a run that waits.
LEMMA UnderNode ==
  ASSUME NType, NEW t \in Threads, NEW d \in 2 .. Depth(t), frames[t][d].at \in NodeStages
  PROVE  frames[t][d - 1].at = "help"
  <1>1. frames[t][d].at \notin RunStages
    BY DEF RunStages, NodeStages
  <1>2. QED
    BY <1>1 DEF NType, Nested, Carries

\* A node that stays where it is touches no scope but its own.
LEMMA NodeTurnScopes ==
  ASSUME NType, FramesTypeOK', NEW st, NEW sp, NEW rs, NEW rp, Settled(st, sp, rs, rp),
         NEW t \in Threads, NEW f \in NodeFrames, NEW h \in NodeFrames, Turns(t, f, h), h.node = f.node,
         \A j \in Requests : j # f.node => phase'[j] = phase[j],
         h.at = "body" => h.prevHold = NoNode /\ h.prevIcv = NodeIcv(t, Depth(t)),
         h.at = "body" /\ Gated(h.node) => phase'[h.node] \in {"held", "resumed"},
         UNCHANGED active,
         hold'[t] = Computing(h), icv'[t] = IF h.at = "body" THEN BodyIcv(h) ELSE NodeIcv(t, Depth(t)),
         \A u \in Threads \ {t} : hold'[u] = hold[u] /\ icv'[u] = icv[u]
  PROVE  \A u \in Threads : Scopes(u)'
  <1>1. PICK D \in Nat \ {0} : D = Depth(t)
    BY DEF Turns
  <1>2. PICK k \in Nat : k = D - 1
    OBVIOUS
  <1>3. /\ Kept(t, k) /\ Depth(t)' = D /\ frames'[t][D] = h /\ frames[t][D] = f
        /\ D = k + 1 /\ D > k /\ D \in 1 .. Depth(t) /\ D \in 1 .. k + 1 /\ D = Depth(t) /\ D # 0
    BY <1>1, <1>2 DEF Turns
  <1>4. f.at \in NodeStages /\ h.at \in NodeStages /\ f.node \in Requests
    BY DEF NodeFrames, NodeStages
  <1>5. Placed(st, sp, rs, rp) /\ GatesStill(st) /\ \A u \in Threads : Scopes(u)
    BY DEF Settled, RunAccount, GatesStill
  <1>6. sp[f.node] = <<t, D>>
    BY <1>3, <1>4, <1>5 DEF Placed, PlacedAt
  <1>7. OnlyPhase(f.node, t, k, st, sp)
    <2>1. D \in Nat /\ D >= k
      BY <1>3
    <2>2. QED
      BY <1>6, <2>1 DEF OnlyPhase
  <1>8. BelowStand(t, k) /\ \A u \in Threads \ {t} : Scopes(u)'
    BY <1>3, <1>5, <1>7, ScopesKept
  <1>9. NodeIcv(t, D)' = NodeIcv(t, D)
    BY <1>3, <1>8 DEF BelowStand
  <1>10. Computing(h)' = Computing(h) /\ BodyIcv(h)' = BodyIcv(h)
    BY DEF Computing, BodyIcv, Gated
  <1>11. ASSUME k > 0 PROVE ChargedAt(t, k)'
    <2>1. D \in 2 .. Depth(t) /\ D - 1 = k /\ k \in 1 .. k
      BY <1>3, <1>11
    <2>2. frames[t][k].at = "help"
      BY <1>3, <1>4, <2>1, UnderNode
    <2>3. frames'[t][k].at = "help"
      BY <1>3, <2>1, <2>2 DEF Kept
    <2>4. QED
      BY <2>3 DEF ChargedAt
  <1>12. LentAt(t, D)' /\ FoundAt(t, D)' /\ ChargedAt(t, D)'
    <2>1. LentAt(t, D)'
      BY <1>3, <1>4 DEF LentAt, RunStages, NodeStages
    <2>2. FoundAt(t, D)'
      BY <1>3, <1>9 DEF FoundAt
    <2>3. ~ Lends(t, D)'
      BY <1>3 DEF Lends
    <2>4. ChargedAt(t, D)'
      BY <1>3, <2>3 DEF ChargedAt, Gated
    <2>5. QED
      BY <2>1, <2>2, <2>4
  <1>13. hold'[t] = HeldNow(t)'
    <2>1. h.at # "enter"
      BY <1>4 DEF NodeStages
    <2>2. h.at # "body" => Computing(h) = NoNode
      BY DEF Computing
    <2>3. HeldNow(t)' = IF h.at = "body" THEN Computing(h)' ELSE NoNode
      BY <1>3, <2>1 DEF HeldNow, Computing
    <2>4. QED
      BY <1>10, <2>2, <2>3
  <1>14. icv'[t] = IcvNow(t)'
    <2>1. h.at \notin RunStages
      BY <1>4 DEF NodeStages, RunStages
    <2>2. IcvNow(t)' = IF h.at = "body" THEN BodyIcv(h)' ELSE NodeIcv(t, D)'
      BY <1>3, <2>1 DEF IcvNow, BodyIcv
    <2>3. QED
      BY <1>3, <1>9, <1>10, <2>2
  <1>15. \A d \in 1 .. Depth(t)' : d > k => LentAt(t, d)' /\ FoundAt(t, d)' /\ ChargedAt(t, d)'
    <2>1. \A d \in 1 .. Depth(t)' : d > k => d = D
      BY <1>3
    <2>2. QED
      BY <1>12, <2>1
  <1>16. Scopes(t)'
    BY <1>3, <1>8, <1>11, <1>13, <1>14, <1>15, OwnScopes
  <1>17. QED
    BY <1>8, <1>16

LEMMA TakeTaskSettles ==
  ASSUME NType, NEW st, NEW sp, NEW rs, NEW rp, Settled(st, sp, rs, rp),
         NEW t \in Threads, TakeTask(t)
  PROVE  NestAccount'
  <1>1. PICK i \in queue : i \in Requests /\ Pushes(t, NodeFrame(i)) /\ queue' = queue \ {i} /\ FramesTypeOK'
    BY TakeTaskStack
  <1>2. phase' = phase /\ UNCHANGED <<toStart, hold, icv, active, completed>>
    BY DEF TakeTask, budgetVars
  <1>3. PICK h : h = NodeFrame(i)
    OBVIOUS
  <1>4. h.at = "start"
    BY <1>3 DEF NodeFrame
  <1>5. PICK D \in Nat : D = Depth(t)
    BY <1>1 DEF Pushes
  <1>6. /\ Kept(t, D) /\ Depth(t)' = D + 1 /\ frames'[t][D + 1] = h /\ D + 1 \in 1 .. D + 1
        /\ D = Depth(t) /\ D + 1 # 0
    BY <1>1, <1>3, <1>5 DEF Pushes
  <1>7. D = 0 \/ (D > 0 /\ D \in 1 .. D /\ frames[t][D].at = "help")
    <2>1. CASE frames[t] = <<>>
      BY <1>6, <2>1 DEF Depth
    <2>2. CASE At(t, "help")
      BY <1>6, <2>2, AtPlace DEF NType
    <2>3. QED
      BY <2>1, <2>2 DEF TakeTask
  <1>8. PICK st2 : st2 = [st EXCEPT ![i] = "start"]
    OBVIOUS
  <1>9. PICK sp2 : sp2 = [sp EXCEPT ![i] = <<t, Depth(t) + 1>>]
    OBVIOUS
  <1>10. /\ RunAccount(st, sp, rs, rp) /\ Placed(st, sp, rs, rp) /\ PhasesFit(st)
         /\ \A u \in Threads : Scopes(u)
    BY DEF Settled, RunAccount
  <1>11. RunAccount(st2, sp2, rs, rp)'
    BY <1>1, <1>2, <1>8, <1>9, <1>10, TakeKeeps
  <1>12. GatesStill(st)
    BY <1>2 DEF GatesStill
  <1>13. PhasesFit(st2)'
    <2>1. st[i] = "queued" /\ \A j \in Requests : st2[j] = IF j = i THEN "start" ELSE st[j]
      BY <1>1, <1>8, <1>10 DEF RunAccount, AccountTyped, InQueue
    <2>2. phase[i] \in AllowedPhases(st[i], Gated(i))
      BY <1>1, <1>10 DEF PhasesFit
    <2>3. phase'[i] \in AllowedPhases(st2[i], Gated(i)')
      BY <1>1, <1>2, <2>1, <2>2 DEF AllowedPhases, Gated
    <2>4. QED
      BY <1>2, <1>10, <1>12, <2>1, <2>3, PhasesKept
  <1>14. OnlyPhase(NoNode, t, D, st, sp)
    BY <1>2, NestedAssumption DEF OnlyPhase
  <1>15. BelowStand(t, D) /\ \A u \in Threads \ {t} : Scopes(u)'
    BY <1>1, <1>2, <1>6, <1>10, <1>12, <1>14, ScopesKept
  <1>16. NodeIcv(t, D + 1)' = NodeIcv(t, D + 1)
    BY <1>6, <1>15 DEF BelowStand
  <1>17. ASSUME D > 0 PROVE ChargedAt(t, D)'
    <2>1. frames'[t][D].at = "help"
      BY <1>6, <1>7, <1>17 DEF Kept
    <2>2. QED
      BY <2>1 DEF ChargedAt
  <1>18. hold'[t] = HeldNow(t)' /\ icv'[t] = IcvNow(t)'
    <2>1. hold[t] = NoNode /\ icv[t] = NodeIcv(t, D + 1)
      <3>1. hold[t] = HeldNow(t) /\ icv[t] = IcvNow(t)
        BY <1>10 DEF Scopes
      <3>2. CASE D = 0
        BY <1>6, <3>1, <3>2 DEF HeldNow, IcvNow, NodeIcv
      <3>3. CASE D > 0 /\ frames[t][D].at = "help"
        <4>1. D + 1 > 1 /\ (D + 1) - 1 = D /\ D # 0
          BY <1>5, <3>3
        <4>2. QED
          BY <1>6, <3>1, <3>3, <4>1 DEF HeldNow, IcvNow, NodeIcv, RunStages
      <3>4. QED
        BY <1>7, <3>2, <3>3
    <2>2. HeldNow(t)' = NoNode /\ IcvNow(t)' = NodeIcv(t, D + 1)'
      BY <1>4, <1>6 DEF HeldNow, IcvNow, RunStages
    <2>3. QED
      BY <1>2, <1>16, <2>1, <2>2
  <1>19. LentAt(t, D + 1)' /\ FoundAt(t, D + 1)' /\ ChargedAt(t, D + 1)'
    BY <1>4, <1>6 DEF LentAt, FoundAt, ChargedAt, RunStages
  <1>20. \A d \in 1 .. Depth(t)' : d > D => LentAt(t, d)' /\ FoundAt(t, d)' /\ ChargedAt(t, d)'
    <2>1. \A d \in 1 .. Depth(t)' : d > D => d = D + 1
      BY <1>6
    <2>2. QED
      BY <1>19, <2>1
  <1>21. Scopes(t)'
    BY <1>1, <1>15, <1>17, <1>18, <1>20, OwnScopes
  <1>22. QED
    BY <1>11, <1>13, <1>15, <1>21 DEF NestAccount, Settled

\* What a node finds outside its body.
LEMMA OutsideBody ==
  ASSUME NEW t \in Threads, Scopes(t), Depth(t) \in Nat \ {0},
         frames[t][Depth(t)].at \in NodeStages, frames[t][Depth(t)].at # "body"
  PROVE  hold[t] = NoNode /\ icv[t] = NodeIcv(t, Depth(t))
  <1>1. frames[t][Depth(t)].at \notin RunStages /\ frames[t][Depth(t)].at # "enter"
    BY DEF NodeStages, RunStages
  <1>2. QED
    BY <1>1 DEF Scopes, HeldNow, IcvNow

LEMMA EnterNodeSettles ==
  ASSUME NType, FramesTypeOK', NEW st, NEW sp, NEW rs, NEW rp, Settled(st, sp, rs, rp),
         NEW t \in Threads, EnterNode(t)
  PROVE  NestAccount'
  <1>1. PICK f : f = Top(t)
    OBVIOUS
  <1>2. PICK n : n = f.node
    OBVIOUS
  <1>3. PICK h : h = IF failed[RunOf(n)] THEN [f EXCEPT !.at = "complete"]
                     ELSE [f EXCEPT !.at = "body", !.prevHold = hold[t], !.prevIcv = icv[t]]
    OBVIOUS
  <1>4. /\ At(t, "start") /\ Goto(t, <<h>>) /\ phase' = phase
        /\ failed[RunOf(n)] => hold' = hold /\ icv' = icv
        /\ ~ failed[RunOf(n)] => /\ hold' = IF active[RunOf(n)] THEN [hold EXCEPT ![t] = n] ELSE hold
                                 /\ icv' = IF active[RunOf(n)] /\ ThreadWidth[n] > 0
                                           THEN [icv EXCEPT ![t] = ThreadWidth[n]] ELSE icv
        /\ UNCHANGED <<toStart, queue, active, completed>>
    BY <1>1, <1>2, <1>3 DEF EnterNode, budgetVars
  <1>5. /\ f \in NodeFrames /\ f.at = "start" /\ n \in Requests /\ st[n] = "start"
        /\ f = frames[t][Depth(t)] /\ Depth(t) \in Nat \ {0}
    BY <1>1, <1>2, <1>4, NodeAtWork DEF NodeStages
  <1>6. hold[t] = NoNode /\ icv[t] = NodeIcv(t, Depth(t)) /\ hold[t] \in Requests \cup {NoNode} /\ icv[t] \in Nat
    BY <1>5, OutsideBody, BudgetAssumption DEF Settled, NType, NodeStages
  <1>7. /\ h \in NodeFrames /\ h.node = n /\ h.bodies = f.bodies
        /\ failed[RunOf(n)] => h.at = "complete"
        /\ ~ failed[RunOf(n)] => h.at = "body" /\ h.prevHold = hold[t] /\ h.prevIcv = icv[t]
    BY <1>2, <1>3, <1>5, <1>6 DEF NodeFrames
  <1>8. Turns(t, f, h)
    BY <1>1, <1>4, GotoTurns DEF NType
  <1>9. PICK st2 : st2 = [st EXCEPT ![f.node] = h.at]
    OBVIOUS
  <1>10. NodeMoves(t, f, h, st, st2)
    BY <1>2, <1>5, <1>7, <1>8, <1>9 DEF NodeMoves
  <1>11. RunAccount(st2, sp, rs, rp)'
    BY <1>4, <1>10, NodeMovesKeep DEF Settled
  <1>12. phase[n] \in AllowedPhases("start", Gated(n))
    BY <1>5 DEF Settled, PhasesFit
  <1>13. PhasesFit(st2)'
    <2>1. GatesStill(st) /\ PhasesFit(st)
      BY <1>4 DEF GatesStill, Settled
    <2>2. \A j \in Requests : st2[j] = IF j = n THEN h.at ELSE st[j]
      BY <1>2, <1>9 DEF Settled, RunAccount, AccountTyped
    <2>3. phase'[n] \in AllowedPhases(st2[n], Gated(n)')
      BY <1>4, <1>5, <1>7, <1>12, <2>2 DEF AllowedPhases, Gated
    <2>4. \A j \in Requests : j # n => phase'[j] = phase[j] /\ st2[j] = st[j]
      BY <1>4, <2>2
    <2>5. QED
      BY <1>5, <2>1, <2>3, <2>4, PhasesKept
  <1>14. hold'[t] = Computing(h) /\ icv'[t] = IF h.at = "body" THEN BodyIcv(h) ELSE NodeIcv(t, Depth(t))
    <2>1. CASE failed[RunOf(n)]
      BY <1>4, <1>6, <1>7, <2>1 DEF Computing
    <2>2. CASE ~ failed[RunOf(n)] /\ active[RunOf(n)]
      BY <1>4, <1>6, <1>7, <2>2 DEF Computing, BodyIcv, Gated, NType
    <2>3. CASE ~ failed[RunOf(n)] /\ ~ active[RunOf(n)]
      BY <1>4, <1>6, <1>7, <2>3 DEF Computing, BodyIcv, Gated
    <2>4. QED
      BY <2>1, <2>2, <2>3
  <1>15. \A u \in Threads \ {t} : hold'[u] = hold[u] /\ icv'[u] = icv[u]
    BY <1>4 DEF NType
  <1>16. /\ h.at = "body" => h.prevHold = NoNode /\ h.prevIcv = NodeIcv(t, Depth(t))
         /\ h.at = "body" /\ Gated(h.node) => phase'[h.node] \in {"held", "resumed"}
    BY <1>4, <1>6, <1>7, <1>12 DEF AllowedPhases
  <1>17. \A u \in Threads : Scopes(u)'
    <2>1. \A j \in Requests : j # f.node => phase'[j] = phase[j]
      BY <1>4
    <2>2. f \in NodeFrames /\ h \in NodeFrames /\ h.node = f.node /\ UNCHANGED active
      BY <1>2, <1>4, <1>5, <1>7
    <2>3. QED
      BY <1>8, <1>14, <1>15, <1>16, <2>1, <2>2, NodeTurnScopes
  <1>18. QED
    BY <1>11, <1>13, <1>17 DEF NestAccount, Settled

LEMMA LeaveNodeSettles ==
  ASSUME NType, FramesTypeOK', NEW st, NEW sp, NEW rs, NEW rp, Settled(st, sp, rs, rp),
         NEW t \in Threads, LeaveNode(t)
  PROVE  NestAccount'
  <1>1. PICK f : f = Top(t)
    OBVIOUS
  <1>2. PICK n : n = f.node
    OBVIOUS
  <1>3. PICK h : h = [f EXCEPT !.at = "complete"]
    OBVIOUS
  <1>4. /\ At(t, "body") /\ Goto(t, <<h>>) /\ phase' = phase
        /\ hold' = [hold EXCEPT ![t] = f.prevHold] /\ icv' = [icv EXCEPT ![t] = f.prevIcv]
        /\ UNCHANGED <<toStart, queue, active, completed>>
    BY <1>1, <1>3 DEF LeaveNode, budgetVars
  <1>5. /\ f \in NodeFrames /\ f.at = "body" /\ n \in Requests /\ st[n] = "body"
        /\ f = frames[t][Depth(t)] /\ Depth(t) \in 1 .. Depth(t) /\ Depth(t) \in Nat \ {0}
    BY <1>1, <1>2, <1>4, NodeAtWork DEF NodeStages
  <1>6. h \in NodeFrames /\ h.node = n /\ h.bodies = f.bodies /\ h.at = "complete"
    BY <1>2, <1>3, <1>5 DEF NodeFrames
  <1>7. Turns(t, f, h)
    BY <1>1, <1>4, GotoTurns DEF NType
  <1>8. PICK st2 : st2 = [st EXCEPT ![f.node] = h.at]
    OBVIOUS
  <1>9. NodeMoves(t, f, h, st, st2)
    BY <1>2, <1>5, <1>6, <1>7, <1>8 DEF NodeMoves
  <1>10. RunAccount(st2, sp, rs, rp)'
    BY <1>4, <1>9, NodeMovesKeep DEF Settled
  <1>11. /\ f.prevHold = NoNode /\ f.prevIcv = NodeIcv(t, Depth(t))
         /\ Gated(n) => phase[n] \in {"held", "resumed"}
    <2>1. FoundAt(t, Depth(t)) /\ ChargedAt(t, Depth(t))
      BY <1>5 DEF Settled, Scopes
    <2>2. ~ Lends(t, Depth(t))
      BY <1>5 DEF Lends
    <2>3. QED
      BY <1>2, <1>5, <2>1, <2>2 DEF FoundAt, ChargedAt
  <1>12. PhasesFit(st2)'
    <2>1. GatesStill(st) /\ PhasesFit(st)
      BY <1>4 DEF GatesStill, Settled
    <2>2. \A j \in Requests : st2[j] = IF j = n THEN h.at ELSE st[j]
      BY <1>2, <1>8 DEF Settled, RunAccount, AccountTyped
    <2>3. phase[n] \in AllowedPhases("body", Gated(n))
      BY <1>5, <2>1 DEF PhasesFit
    <2>4. phase'[n] \in AllowedPhases(st2[n], Gated(n)')
      BY <1>4, <1>5, <1>6, <1>11, <2>2, <2>3 DEF AllowedPhases, Gated
    <2>5. \A j \in Requests : j # n => phase'[j] = phase[j] /\ st2[j] = st[j]
      BY <1>4, <2>2
    <2>6. QED
      BY <1>5, <2>1, <2>4, <2>5, PhasesKept
  <1>13. hold'[t] = Computing(h) /\ icv'[t] = IF h.at = "body" THEN BodyIcv(h) ELSE NodeIcv(t, Depth(t))
    BY <1>4, <1>6, <1>11 DEF Computing, NType
  <1>14. \A u \in Threads \ {t} : hold'[u] = hold[u] /\ icv'[u] = icv[u]
    BY <1>4 DEF NType
  <1>15. \A u \in Threads : Scopes(u)'
    <2>1. \A j \in Requests : j # f.node => phase'[j] = phase[j]
      BY <1>4
    <2>2. f \in NodeFrames /\ h \in NodeFrames /\ h.node = f.node /\ UNCHANGED active /\ h.at # "body"
      BY <1>2, <1>4, <1>5, <1>6
    <2>3. QED
      BY <1>7, <1>13, <1>14, <2>1, <2>2, NodeTurnScopes
  <1>16. QED
    BY <1>10, <1>12, <1>15 DEF NestAccount, Settled

LEMMA CompleteSettles ==
  ASSUME NType, TypeOK, FramesTypeOK', NEW st, NEW sp, NEW rs, NEW rp, Settled(st, sp, rs, rp),
         NEW t \in Threads, Complete(t)
  PROVE  NestAccount'
  <1>1. PICK f : f = Top(t)
    OBVIOUS
  <1>2. PICK n : n = f.node
    OBVIOUS
  <1>3. PICK h : h = [f EXCEPT !.at = "count"]
    OBVIOUS
  <1>4. /\ At(t, "complete") /\ Goto(t, <<h>>)
        /\ phase' = IF active[RunOf(n)] THEN [phase EXCEPT ![n] = "returned"] ELSE phase
        /\ UNCHANGED <<toStart, queue, active, completed, hold, icv>>
    BY <1>1, <1>2, <1>3 DEF Complete, Return, Release, budgetVars
  <1>5. /\ f \in NodeFrames /\ f.at = "complete" /\ n \in Requests /\ st[n] = "complete"
        /\ f = frames[t][Depth(t)] /\ Depth(t) \in 1 .. Depth(t) /\ Depth(t) \in Nat \ {0}
    BY <1>1, <1>2, <1>4, NodeAtWork DEF NodeStages
  <1>6. h \in NodeFrames /\ h.node = n /\ h.bodies = f.bodies /\ h.at = "count"
    BY <1>2, <1>3, <1>5 DEF NodeFrames
  <1>7. Turns(t, f, h)
    BY <1>1, <1>4, GotoTurns DEF NType
  <1>8. PICK st2 : st2 = [st EXCEPT ![f.node] = h.at]
    OBVIOUS
  <1>9. NodeMoves(t, f, h, st, st2)
    BY <1>2, <1>5, <1>6, <1>7, <1>8 DEF NodeMoves
  <1>10. RunAccount(st2, sp, rs, rp)'
    BY <1>4, <1>9, NodeMovesKeep DEF Settled
  <1>11. hold[t] = NoNode /\ icv[t] = NodeIcv(t, Depth(t))
    BY <1>5, OutsideBody DEF Settled, NodeStages
  <1>12. \A j \in Requests : j # n => phase'[j] = phase[j]
    BY <1>4 DEF TypeOK
  <1>13. PhasesFit(st2)'
    <2>1. GatesStill(st) /\ PhasesFit(st)
      BY <1>4 DEF GatesStill, Settled
    <2>2. \A j \in Requests : st2[j] = IF j = n THEN h.at ELSE st[j]
      BY <1>2, <1>8 DEF Settled, RunAccount, AccountTyped
    <2>3. phase[n] \in AllowedPhases("complete", Gated(n))
      BY <1>5, <2>1 DEF PhasesFit
    <2>4. phase'[n] \in AllowedPhases(st2[n], Gated(n)')
      <3>1. st2[n] = "count"
        BY <1>5, <1>6, <2>2
      <3>2. CASE active[RunOf(n)]
        BY <1>4, <1>5, <3>1, <3>2 DEF AllowedPhases, Gated, TypeOK
      <3>3. CASE ~ active[RunOf(n)]
        BY <1>4, <2>3, <3>1, <3>3 DEF AllowedPhases, Gated
      <3>4. QED
        BY <3>2, <3>3
    <2>5. \A j \in Requests : j # n => phase'[j] = phase[j] /\ st2[j] = st[j]
      BY <1>12, <2>2
    <2>6. QED
      BY <1>5, <2>1, <2>4, <2>5, PhasesKept
  <1>14. hold'[t] = Computing(h) /\ icv'[t] = IF h.at = "body" THEN BodyIcv(h) ELSE NodeIcv(t, Depth(t))
    BY <1>4, <1>6, <1>11 DEF Computing
  <1>15. \A u \in Threads : Scopes(u)'
    <2>1. \A j \in Requests : j # f.node => phase'[j] = phase[j]
      BY <1>2, <1>12
    <2>2. f \in NodeFrames /\ h \in NodeFrames /\ h.node = f.node /\ UNCHANGED active /\ h.at # "body"
      BY <1>2, <1>4, <1>5, <1>6
    <2>3. \A u \in Threads \ {t} : hold'[u] = hold[u] /\ icv'[u] = icv[u]
      BY <1>4
    <2>4. QED
      BY <1>7, <1>14, <2>1, <2>2, <2>3, NodeTurnScopes
  <1>16. QED
    BY <1>10, <1>13, <1>15 DEF NestAccount, Settled

LEMMA CountCompletedSettles ==
  ASSUME NType, FramesTypeOK', NEW st, NEW sp, NEW rs, NEW rp, Settled(st, sp, rs, rp),
         NEW t \in Threads, CountCompleted(t)
  PROVE  NestAccount'
  <1>1. PICK f : f = Top(t)
    OBVIOUS
  <1>2. PICK n : n = f.node
    OBVIOUS
  <1>3. /\ At(t, "count") /\ Goto(t, <<>>) /\ phase' = phase
        /\ completed' = [completed EXCEPT ![RunOf(n)] = @ + 1]
        /\ UNCHANGED <<toStart, queue, active, hold, icv>>
    BY <1>1, <1>2 DEF CountCompleted, budgetVars
  <1>4. /\ f \in NodeFrames /\ f.at = "count" /\ n \in Requests /\ st[n] = "count"
        /\ f = frames[t][Depth(t)] /\ Depth(t) \in 1 .. Depth(t) /\ Depth(t) \in Nat \ {0}
    BY <1>1, <1>2, <1>3, NodeAtWork DEF NodeStages
  <1>5. Pops(t, f)
    BY <1>1, <1>3, GotoPops DEF NType
  <1>6. PICK st2 : st2 = [st EXCEPT ![f.node] = "done"]
    OBVIOUS
  <1>7. RunAccount(st2, sp, rs, rp)'
    BY <1>2, <1>3, <1>4, <1>5, <1>6, CountKeeps DEF Settled
  <1>8. GatesStill(st) /\ PhasesFit(st) /\ Placed(st, sp, rs, rp) /\ \A u \in Threads : Scopes(u)
    BY <1>3 DEF GatesStill, Settled, RunAccount
  <1>9. PhasesFit(st2)'
    <2>1. \A j \in Requests : st2[j] = IF j = n THEN "done" ELSE st[j]
      BY <1>2, <1>6 DEF Settled, RunAccount, AccountTyped
    <2>2. phase[n] \in AllowedPhases("count", Gated(n))
      BY <1>4, <1>8 DEF PhasesFit
    <2>3. phase'[n] \in AllowedPhases(st2[n], Gated(n)')
      BY <1>3, <1>4, <2>1, <2>2 DEF AllowedPhases, Gated
    <2>4. \A j \in Requests : j # n => phase'[j] = phase[j] /\ st2[j] = st[j]
      BY <1>3, <2>1
    <2>5. QED
      BY <1>8, <2>3, <2>4, PhasesKept
  <1>10. PICK D \in Nat \ {0} : D = Depth(t)
    BY <1>4
  <1>11. PICK k \in Nat : k = D - 1
    OBVIOUS
  <1>12. /\ Kept(t, k) /\ Depth(t)' = k /\ frames[t][D] = f /\ D = k + 1 /\ D \in 1 .. Depth(t) /\ D = Depth(t)
    BY <1>4, <1>5, <1>10, <1>11 DEF Pops
  <1>13. hold[t] = NoNode /\ icv[t] = NodeIcv(t, D)
    BY <1>4, <1>8, <1>12, OutsideBody DEF NodeStages
  <1>14. OnlyPhase(NoNode, t, k, st, sp)
    BY <1>3, NestedAssumption DEF OnlyPhase
  <1>15. BelowStand(t, k) /\ \A u \in Threads \ {t} : Scopes(u)'
    BY <1>3, <1>8, <1>12, <1>14, ScopesKept
  <1>16. Scopes(t)'
    <2>1. CASE k = 0
      <3>1. HeldNow(t)' = NoNode /\ IcvNow(t)' = Ceiling[t] /\ NodeIcv(t, D) = Ceiling[t]
        BY <1>12, <2>1 DEF HeldNow, IcvNow, NodeIcv
      <3>2. \A d \in 1 .. Depth(t)' : FALSE
        BY <1>12, <2>1
      <3>3. QED
        BY <1>3, <1>13, <3>1, <3>2 DEF Scopes
    <2>2. CASE k > 0
      <3>1. D \in 2 .. Depth(t) /\ D - 1 = k /\ k \in 1 .. k /\ k \in 1 .. k + 1 /\ D > 1 /\ k # 0
        BY <1>12, <2>2
      <3>2. frames[t][k].at = "help" /\ frames'[t][k] = frames[t][k]
        <4>1. frames[t][D].at \in NodeStages
          BY <1>4, <1>12 DEF NodeStages
        <4>2. frames[t][k].at = "help"
          BY <3>1, <4>1, UnderNode
        <4>3. QED
          BY <1>12, <3>1, <4>2 DEF Kept
      <3>3. RunIcv(t, k)' = RunIcv(t, k)
        BY <1>15, <3>1 DEF BelowStand
      <3>4. HeldNow(t)' = NoNode /\ IcvNow(t)' = RunIcv(t, k)
        BY <1>12, <3>1, <3>2, <3>3 DEF HeldNow, IcvNow, RunStages
      <3>5. NodeIcv(t, D) = RunIcv(t, k)
        BY <3>1 DEF NodeIcv
      <3>6. hold'[t] = HeldNow(t)' /\ icv'[t] = IcvNow(t)'
        BY <1>3, <1>13, <3>4, <3>5
      <3>7. ChargedAt(t, k)'
        BY <3>2 DEF ChargedAt
      <3>8. \A d \in 1 .. Depth(t)' : ~ (d > k)
        BY <1>12
      <3>9. QED
        BY <1>15, <3>6, <3>7, <3>8, OwnScopes
    <2>3. QED
      BY <2>1, <2>2
  <1>17. QED
    BY <1>7, <1>9, <1>15, <1>16 DEF NestAccount, Settled

\* A step of the budget alone moves a request that waits in it.
LEMMA BudgetScopes ==
  ASSUME NType, FramesTypeOK', NEW st, NEW sp, NEW rs, NEW rp, Settled(st, sp, rs, rp), NEW t \in Threads,
         UNCHANGED <<frames, hold, icv, active>>,
         NEW i, i \in Requests => st[i] = "budget", \A j \in Requests : j # i => phase'[j] = phase[j]
  PROVE  \A u \in Threads : Scopes(u)'
  <1>1. ASSUME NEW u \in Threads PROVE Scopes(u)'
    <2>1. PICK D \in Nat : D = Depth(u)
      BY TopPlace DEF NType
    <2>2. Kept(u, D) /\ Depth(u)' = D /\ D \in 0 .. D
      BY <2>1 DEF Kept, Depth
    <2>3. OnlyPhase(i, u, D, st, sp)
      BY DEF OnlyPhase
    <2>4. Placed(st, sp, rs, rp) /\ GatesStill(st) /\ \A x \in Threads : Scopes(x)
      BY DEF Settled, RunAccount, GatesStill
    <2>5. BelowStand(u, D)
      BY <2>2, <2>3, <2>4, ScopesKept
    <2>6. ASSUME D > 0 PROVE ChargedAt(u, D)'
      <3>1. D \in 1 .. Depth(u)
        BY <2>1, <2>6
      <3>2. ~ Lends(u, D) /\ ~ Lends(u, D)'
        BY <2>1, <2>2 DEF Lends
      <3>3. frames[u][D].at = "body" => phase'[frames[u][D].node] = phase[frames[u][D].node]
        BY <2>4, <3>1, BodyPlace
      <3>4. QED
        BY <2>4, <3>1, <3>2, <3>3, ChargedKept
    <2>7. hold'[u] = HeldNow(u)' /\ icv'[u] = IcvNow(u)'
      <3>1. hold[u] = HeldNow(u) /\ icv[u] = IcvNow(u)
        BY <2>4 DEF Scopes
      <3>2. HeldNow(u)' = HeldNow(u) /\ IcvNow(u)' = IcvNow(u)
        BY DEF HeldNow, IcvNow, HeldUnder, RunIcv, NodeIcv, BodyIcv, Computing, Gated, Depth
      <3>3. QED
        BY <3>1, <3>2
    <2>8. \A d \in 1 .. Depth(u)' : ~ (d > D)
      BY <2>2
    <2>9. QED
      BY <2>5, <2>6, <2>7, <2>8, OwnScopes
  <1>2. QED
    BY <1>1

LEMMA BudgetSettles ==
  ASSUME NType, TypeOK, FramesTypeOK', QueuedOnce, DueOnce, NEW st, NEW sp, NEW rs, NEW rp, Settled(st, sp, rs, rp),
         NEW t \in Threads, DrainBudget(t) \/ ResumeParked(t)
  PROVE  NestAccount'
  <1>1. UNCHANGED <<frames, toStart, hold, icv, active, completed>>
    BY DEF DrainBudget, ResumeParked, nestVars
  <1>2. GatesStill(st) /\ PhasesFit(st) /\ RunAccount(st, sp, rs, rp)
    BY <1>1 DEF GatesStill, Settled
  <1>3. \A r \in Requests : phase[r] \in {"parked", "drained"} => st[r] = "budget" /\ Gated(r)
    BY <1>2 DEF PhasesFit, AllowedPhases
  <1>4. CASE DrainBudget(t) /\ DrainStop(t)
    <2>1. UNCHANGED queue /\ phase' = phase
      BY <1>4 DEF DrainBudget, DrainStop, nestVars
    <2>2. RunAccount(st, sp, rs, rp)'
      BY <1>1, <1>2, <2>1, StillKeeps
    <2>3. PhasesFit(st)'
      BY <1>1, <1>2, <2>1 DEF PhasesFit, Gated
    <2>4. NoNode \in Requests => st[NoNode] = "budget"
      BY NestedAssumption
    <2>5. \A u \in Threads : Scopes(u)'
      BY <1>1, <2>1, <2>4, BudgetScopes
    <2>6. QED
      BY <2>2, <2>3, <2>5 DEF NestAccount, Settled
  <1>5. CASE DrainBudget(t) /\ DrainHead(t)
    <2>1. PICK e \in parked : phase' = [phase EXCEPT ![e.req] = "drained"]
      BY <1>5 DEF DrainHead
    <2>2. PICK r : r = e.req
      OBVIOUS
    <2>3. r \in Requests /\ phase[r] = "parked"
      BY <2>2 DEF QueuedOnce, TypeOK, Entries
    <2>4. st[r] = "budget" /\ Gated(r) /\ phase'[r] = "drained" /\ \A j \in Requests : j # r => phase'[j] = phase[j]
      BY <1>3, <2>1, <2>2, <2>3 DEF TypeOK
    <2>5. UNCHANGED queue
      BY <1>5 DEF DrainBudget, nestVars
    <2>6. RunAccount(st, sp, rs, rp)'
      BY <1>1, <1>2, <2>5, StillKeeps
    <2>7. PhasesFit(st)'
      <3>1. phase'[r] \in AllowedPhases(st[r], Gated(r)')
        BY <1>1, <2>4 DEF AllowedPhases, Gated
      <3>2. QED
        BY <1>2, <2>4, <3>1, PhasesKept
    <2>8. \A u \in Threads : Scopes(u)'
      BY <1>1, <2>4, BudgetScopes
    <2>9. QED
      BY <2>6, <2>7, <2>8 DEF NestAccount, Settled
  <1>6. CASE ResumeParked(t)
    <2>1. PICK r : r = Head(ready[t])
      OBVIOUS
    <2>2. /\ ready[t] # <<>> /\ phase' = [phase EXCEPT ![r] = "held"] /\ queue' = queue \cup {r}
      BY <1>6, <2>1 DEF ResumeParked, Resume
    <2>3. r \in Requests /\ phase[r] = "drained"
      <3>1. ready[t] \in Seq(Requests)
        BY DEF TypeOK
      <3>2. 1 \in DOMAIN ready[t] /\ r = ready[t][1]
        BY <2>1, <2>2, <3>1
      <3>3. r \in Requests
        BY <3>1, <3>2
      <3>4. QED
        BY <3>2, <3>3 DEF DueOnce
    <2>4. st[r] = "budget" /\ Gated(r) /\ phase'[r] = "held" /\ \A j \in Requests : j # r => phase'[j] = phase[j]
      BY <1>3, <2>2, <2>3 DEF TypeOK
    <2>5. PICK st2 : st2 = [st EXCEPT ![r] = "queued"]
      OBVIOUS
    <2>6. RunAccount(st2, sp, rs, rp)'
      BY <1>1, <1>2, <2>2, <2>3, <2>4, <2>5, ResumeKeeps
    <2>7. PhasesFit(st2)'
      <3>1. st2[r] = "queued" /\ \A j \in Requests : j # r => st2[j] = st[j]
        BY <1>2, <2>3, <2>5 DEF RunAccount, AccountTyped
      <3>2. phase'[r] \in AllowedPhases(st2[r], Gated(r)')
        BY <1>1, <2>4, <3>1 DEF AllowedPhases, Gated
      <3>3. QED
        BY <1>2, <2>4, <3>1, <3>2, PhasesKept
    <2>8. \A u \in Threads : Scopes(u)'
      BY <1>1, <2>4, BudgetScopes
    <2>9. QED
      BY <2>6, <2>7, <2>8 DEF NestAccount, Settled
  <1>7. QED
    BY <1>4, <1>5, <1>6 DEF DrainBudget

\* A step of another kind leaves everything as it was.
LEMMA StillSettled ==
  ASSUME NestAccount, UNCHANGED vars
  PROVE  NestAccount'
  <1>1. PICK st : \E sp, rs, rp : Settled(st, sp, rs, rp)
    BY DEF NestAccount
  <1>2. PICK sp : \E rs, rp : Settled(st, sp, rs, rp)
    BY <1>1
  <1>3. PICK rs : \E rp : Settled(st, sp, rs, rp)
    BY <1>2
  <1>4. PICK rp : Settled(st, sp, rs, rp)
    BY <1>3
  <1>5. RunAccount(st, sp, rs, rp)'
    BY <1>4, StillKeeps DEF Settled, vars, nestVars
  <1>6. PhasesFit(st)'
    BY <1>4, SMTT(60) DEF Settled, PhasesFit, Gated, vars, nestVars, budgetVars
  <1>7. \A u \in Threads : Scopes(u)'
    <2>1. UNCHANGED <<total, inUse, phase, grant, frames, toStart, queue, hold, icv, active, completed, failed, over>>
      BY DEF vars, nestVars, budgetVars
    <2>2. ASSUME NEW u \in Threads PROVE Scopes(u)' = Scopes(u)
      BY <2>1 DEF Scopes, LentAt, FoundAt, ChargedAt, Lends, HeldNow, IcvNow, HeldUnder, RunIcv, NodeIcv,
         BodyIcv, Computing, Gated, Depth
    <2>3. QED
      BY <1>4, <2>2 DEF Settled
  <1>8. QED
    BY <1>5, <1>6, <1>7 DEF NestAccount, Settled

LEMMA InitSettled == Init => NestAccount
  <1> SUFFICES ASSUME Init PROVE NestAccount
    OBVIOUS
  <1>1. PICK st : \E sp, rs, rp : RunAccount(st, sp, rs, rp) /\ \A i \in Requests : st[i] = "idle"
    BY InitAccounted
  <1>2. PICK sp : \E rs, rp : RunAccount(st, sp, rs, rp)
    BY <1>1
  <1>3. PICK rs : \E rp : RunAccount(st, sp, rs, rp)
    BY <1>2
  <1>4. PICK rp : RunAccount(st, sp, rs, rp)
    BY <1>3
  <1>5. PhasesFit(st)
    BY <1>1 DEF Init, BudgetInit, PhasesFit, AllowedPhases
  <1>6. \A u \in Threads : Depth(u) = 0
    BY DEF Init, Depth
  <1>7. \A u \in Threads : Scopes(u)
    <2>1. ASSUME NEW u \in Threads PROVE Scopes(u)
      <3>1. \A d \in 1 .. Depth(u) : FALSE
        BY <1>6
      <3>2. hold[u] = NoNode /\ icv[u] = Ceiling[u]
        BY DEF Init
      <3>3. QED
        BY <1>6, <3>1, <3>2 DEF Scopes, HeldNow, IcvNow
    <2>2. QED
      BY <2>1
  <1>8. Settled(st, sp, rs, rp)
    BY <1>4, <1>5, <1>7 DEF Settled
  <1>9. QED
    BY <1>8 DEF NestAccount

\* Every step of the executor settles.
LEMMA NextSettled == NType /\ NType' /\ IInv /\ Account /\ NestAccount /\ [NestNext]_vars => NestAccount'
  <1> SUFFICES ASSUME NType, NType', IInv, Account, NestAccount, [NestNext]_vars PROVE NestAccount'
    OBVIOUS
  <1>1. FramesTypeOK' /\ TypeOK /\ QueuedOnce /\ DueOnce
    BY DEF NType, IInv, Account
  <1>2. CASE UNCHANGED vars
    BY <1>2, StillSettled
  <1>3. ASSUME NEW t \in Threads, Step(t) \/ TakeTask(t) PROVE NestAccount'
    <2>1. PICK st : \E sp, rs, rp : Settled(st, sp, rs, rp)
      BY DEF NestAccount
    <2>2. PICK sp : \E rs, rp : Settled(st, sp, rs, rp)
      BY <2>1
    <2>3. PICK rs : \E rp : Settled(st, sp, rs, rp)
      BY <2>2
    <2>4. PICK rp : Settled(st, sp, rs, rp)
      BY <2>3
    <2>5. CASE StartTopRun(t) \/ LendWidth(t) \/ SyncWidth(t) \/ JudgePlan(t)
      BY <1>1, <2>4, <2>5, StartTopRunSettles, LendWidthSettles, SyncWidthSettles, JudgePlanSettles
    <2>6. CASE SeedUngated(t) \/ SubmitBatch(t) \/ EndRun(t)
      BY <1>1, <2>4, <2>6, SeedUngatedSettles, SubmitBatchSettles, EndRunSettles
    <2>7. CASE \E n \in Requests : SeedGranted(t, n) \/ SeedParked(t, n)
      BY <1>1, <2>4, <2>7, SeedGatedSettles
    <2>8. CASE DrainBudget(t) \/ ResumeParked(t)
      BY <1>1, <2>4, <2>8, BudgetSettles
    <2>9. CASE EnterNode(t) \/ NestedRun(t) \/ LeaveNode(t)
      BY <1>1, <2>4, <2>9, EnterNodeSettles, NestedRunSettles, LeaveNodeSettles
    <2>10. CASE Complete(t) \/ CountCompleted(t) \/ TakeTask(t)
      BY <1>1, <2>4, <2>10, CompleteSettles, CountCompletedSettles, TakeTaskSettles
    <2>11. QED
      BY <1>3, <2>5, <2>6, <2>7, <2>8, <2>9, <2>10 DEF Step
  <1>4. QED
    BY <1>2, <1>3 DEF NestNext, Done

-----------------------------------------------------------------------------
(* What always holds. *)

NInv == NType /\ IInv /\ Account /\ NestAccount

LEMMA NestInvariance == NestSpec => []NInv
  <1>1. Init => NInv
    BY InitNType, InitIInv, InitAccount, InitSettled DEF Init, NInv
  <1>2. NInv /\ [NestNext]_vars => NInv'
    <2> SUFFICES ASSUME NInv, [NestNext]_vars PROVE NInv'
      OBVIOUS
    <2>1. NType /\ IInv /\ Account /\ NestAccount /\ TypeOK
      BY DEF NInv, IInv
    <2>2. NType' /\ [Next]_budgetVars
      BY <2>1, NextNType, NextContract
    <2>3. IInv' /\ Account'
      BY <2>1, <2>2, NextIInv, NextAccount
    <2>4. NestAccount'
      BY <2>1, <2>2, NextSettled
    <2>5. QED
      BY <2>2, <2>3, <2>4 DEF NInv
  <1>3. QED
    BY <1>1, <1>2, PTL DEF NestSpec

\* A run counts its nodes and no more, whether they computed, failed or were
\* drained after a failure.
LEMMA CountsItsNodes ==
  ASSUME NestAccount, NEW g \in Runs
  PROVE  completed[g] \in 0 .. Cardinality(NodesOf[g])
  <1>1. PICK st : Counted(st)
    BY DEF NestAccount, Settled, RunAccount
  <1>2. PICK S : S = {i \in NodesOf[g] : st[i] = "done"}
    OBVIOUS
  <1>3. S \subseteq NodesOf[g] /\ IsFiniteSet(NodesOf[g])
    BY <1>2, NestedAssumption
  <1>4. IsFiniteSet(S) /\ Cardinality(S) <= Cardinality(NodesOf[g])
    BY <1>3, FS_Subset
  <1>5. Cardinality(S) \in Nat /\ Cardinality(NodesOf[g]) \in Nat
    BY <1>3, <1>4, FS_CardinalityType
  <1>6. completed[g] = Cardinality(S)
    BY <1>1, <1>2 DEF Counted
  <1>7. QED
    BY <1>4, <1>5, <1>6

LEMMA NestTyped == NInv => NestTypeOK
  <1> SUFFICES ASSUME NInv PROVE NestTypeOK
    OBVIOUS
  <1>1. NType /\ TypeOK /\ NestAccount
    BY DEF NInv, IInv
  <1>2. Frames \subseteq RunFrames \cup NodeFrames
    BY DEF Frames
  <1>3. frames \in [Threads -> Seq(RunFrames \cup NodeFrames)]
    <2>1. \A s \in Seq(Frames) : s \in Seq(RunFrames \cup NodeFrames)
      BY <1>2
    <2>2. QED
      BY <1>1, <2>1 DEF NType, FramesTypeOK
  <1>4. icv \in [Threads -> Nat \ {0}]
    BY <1>1, BudgetAssumption DEF NType
  <1>5. \A g \in Runs : completed[g] \in 0 .. Cardinality(NodesOf[g])
    BY <1>1, CountsItsNodes
  <1>6. QED
    BY <1>1, <1>3, <1>4, <1>5 DEF NestTypeOK, NType

\* What a thread holds is the node of one of its bodies, which is charged and
\* is not lent.
LEMMA HeldIsCharged ==
  ASSUME NType, NEW st, NEW sp, NEW rs, NEW rp, Settled(st, sp, rs, rp),
         NEW t \in Threads, hold[t] # NoNode
  PROVE  /\ phase[hold[t]] \in {"held", "resumed"}
         /\ \E d \in Nat : sp[hold[t]] = <<t, d>>
  <1>1. PICK D \in Nat : D = Depth(t)
    BY TopPlace DEF NType
  <1>2. hold[t] = HeldNow(t) /\ Placed(st, sp, rs, rp) /\ \A d \in 1 .. Depth(t) : ChargedAt(t, d)
    BY DEF Settled, RunAccount, Scopes
  <1>3. D \in 1 .. Depth(t)
    BY <1>1, <1>2 DEF HeldNow
  <1>4. CASE frames[t][D].at = "enter"
    <2>1. hold[t] = HeldUnder(t, D)
      BY <1>1, <1>2, <1>3, <1>4 DEF HeldNow
    <2>2. /\ D - 1 \in 1 .. Depth(t) /\ frames[t][D - 1].at = "body" /\ Gated(frames[t][D - 1].node)
          /\ hold[t] = frames[t][D - 1].node /\ sp[hold[t]] = <<t, D - 1>>
      BY <1>2, <1>3, <2>1, WhatIsHeld
    <2>3. PICK k \in Nat : k = D - 1 /\ k + 1 = D
      BY <1>1, <2>2
    <2>4. ~ Lends(t, k)
      BY <1>4, <2>3 DEF Lends
    <2>5. ChargedAt(t, k) /\ k \in 1 .. Depth(t) /\ frames[t][k].at = "body" /\ Gated(frames[t][k].node)
          /\ hold[t] = frames[t][k].node /\ sp[hold[t]] = <<t, k>>
      BY <1>2, <2>2, <2>3
    <2>6. QED
      BY <2>3, <2>4, <2>5 DEF ChargedAt
  <1>5. CASE frames[t][D].at # "enter"
    <2>1. frames[t][D].at = "body" /\ hold[t] = frames[t][D].node /\ Gated(frames[t][D].node)
      BY <1>1, <1>2, <1>3, <1>5 DEF HeldNow, Computing
    <2>2. sp[hold[t]] = <<t, D>>
      BY <1>2, <1>3, <2>1, BodyPlace
    <2>3. ~ Lends(t, D)
      BY <1>1 DEF Lends
    <2>4. ChargedAt(t, D)
      BY <1>2, <1>3
    <2>5. QED
      BY <1>1, <2>1, <2>2, <2>3, <2>4 DEF ChargedAt
  <1>6. QED
    BY <1>4, <1>5

LEMMA NestHolds == NInv => HoldMatches
  <1> SUFFICES ASSUME NInv PROVE HoldMatches
    OBVIOUS
  <1>1. NType /\ NestAccount
    BY DEF NInv
  <1>2. PICK st : \E sp, rs, rp : Settled(st, sp, rs, rp)
    BY <1>1 DEF NestAccount
  <1>3. PICK sp : \E rs, rp : Settled(st, sp, rs, rp)
    BY <1>2
  <1>4. PICK rs : \E rp : Settled(st, sp, rs, rp)
    BY <1>3
  <1>5. PICK rp : Settled(st, sp, rs, rp)
    BY <1>4
  <1>6. ASSUME NEW t \in Threads, hold[t] # NoNode, NEW u \in Threads \ {t}
        PROVE  hold[u] # hold[t]
    <2> SUFFICES ASSUME hold[u] = hold[t] PROVE FALSE
      OBVIOUS
    <2>1. \E d \in Nat : sp[hold[t]] = <<t, d>>
      BY <1>1, <1>5, <1>6, HeldIsCharged
    <2>2. u \in Threads /\ u # t /\ hold[u] # NoNode
      BY <1>6
    <2>3. \E d \in Nat : sp[hold[u]] = <<u, d>>
      BY <1>1, <1>5, <2>2, HeldIsCharged
    <2>4. QED
      BY <2>1, <2>2, <2>3
  <1>7. ASSUME NEW t \in Threads, InBody(t), active[RunOf(Top(t).node)]
        PROVE  hold[t] = Top(t).node
    <2>1. frames[t] # <<>> /\ Top(t).at = "body"
      BY <1>7 DEF InBody
    <2>2. Depth(t) \in 1 .. Depth(t) /\ Top(t) = frames[t][Depth(t)] /\ Depth(t) \in Nat
      BY <1>1, <2>1, TopPlace DEF NType
    <2>3. hold[t] = HeldNow(t)
      BY <1>5 DEF Settled, Scopes
    <2>4. Depth(t) # 0
      BY <2>2
    <2>5. HeldNow(t) = Computing(Top(t))
      BY <2>1, <2>2, <2>4 DEF HeldNow
    <2>6. QED
      BY <1>7, <2>1, <2>3, <2>5 DEF Computing, Gated
  <1>8. \A t \in Threads : hold[t] # NoNode => phase[hold[t]] \in {"held", "resumed"}
    BY <1>1, <1>5, HeldIsCharged
  <1>9. QED
    BY <1>6, <1>7, <1>8 DEF HoldMatches

\* When no thread is inside of anything every node is untouched or done, and
\* every request is unmade or returned.
LEMMA NothingInside ==
  ASSUME NType, NestAccount, \A t \in Threads : frames[t] = <<>>
  PROVE  queue = {} /\ \A i \in Requests : phase[i] \in {"idle", "returned"}
  <1>1. PICK st : \E sp, rs, rp : Settled(st, sp, rs, rp)
    BY DEF NestAccount
  <1>2. PICK sp : \E rs, rp : Settled(st, sp, rs, rp)
    BY <1>1
  <1>3. PICK rs : \E rp : Settled(st, sp, rs, rp)
    BY <1>2
  <1>4. PICK rp : Settled(st, sp, rs, rp)
    BY <1>3
  <1>5. Placed(st, sp, rs, rp) /\ Members(st, rs) /\ InQueue(st) /\ PhasesFit(st)
    BY <1>4 DEF Settled, RunAccount
  <1>6. \A t \in Threads : \A d \in 1 .. Depth(t) : FALSE
    BY DEF Depth
  <1>7. \A g \in Runs : rs[g] \notin RunStages
    BY <1>5, <1>6 DEF Placed
  <1>8. \A i \in Requests : st[i] \in {"idle", "done"}
    BY <1>5, <1>7 DEF Members
  <1>9. queue = {}
    BY <1>5, <1>8 DEF InQueue
  <1>10. \A i \in Requests : phase[i] \in {"idle", "returned"}
    BY <1>5, <1>8 DEF PhasesFit, AllowedPhases
  <1>11. QED
    BY <1>9, <1>10

LEMMA NestLeaves == NInv => LeftAsFound
  <1> SUFFICES ASSUME NInv PROVE LeftAsFound
    OBVIOUS
  <1>1. NType /\ TypeOK /\ NestAccount /\ QueuedOnce /\ Conservation
    BY DEF NInv, IInv, Account
  <1>2. ASSUME NEW t \in Threads, frames[t] = <<>> PROVE icv[t] = Ceiling[t]
    <2>1. icv[t] = IcvNow(t)
      BY <1>1 DEF NestAccount, Settled, Scopes
    <2>2. Depth(t) = 0
      BY <1>2 DEF Depth
    <2>3. QED
      BY <2>1, <2>2 DEF IcvNow
  <1>3. ASSUME AllOver PROVE inUse = 0 /\ parked = {} /\ queue = {}
    <2>1. queue = {} /\ \A i \in Requests : phase[i] \in {"idle", "returned"}
      BY <1>1, <1>3, NothingInside DEF AllOver
    <2>2. parked = {}
      BY <1>1, <2>1 DEF QueuedOnce, TypeOK, Entries
    <2>3. {r \in Requests : phase[r] \in ChargedPhases} = {}
      BY <2>1 DEF ChargedPhases
    <2>4. SumFunctionOnSet(grant, {}) = 0
      BY SumEmpty
    <2>5. inUse = 0
      BY <1>1, <2>3, <2>4 DEF Conservation, WidthIn
    <2>6. QED
      BY <2>1, <2>2, <2>5
  <1>4. QED
    BY <1>2, <1>3 DEF LeftAsFound

\* Each run counts each of its nodes once, however it was taken, failed or
\* drained, and every stack, queue and scope holds what the code puts there.
THEOREM NestTypeCorrect == NestSpec => []NestTypeOK
  BY NestInvariance, NestTyped, PTL

\* However deep runs are nested, and whichever thread helps with whose task,
\* no thread computes on width it lent, none holds the width of another, and the
\* width a node of a gated run computes on is charged.
THEOREM HoldAlwaysMatches == NestSpec => []HoldMatches
  BY NestInvariance, NestHolds, PTL

\* Whatever threw, and however deep: a thread that is out of its last node has
\* the thread count it came with, and when all runs are over no width is charged
\* and neither the budget nor the pool has anything left.
THEOREM AlwaysLeftAsFound == NestSpec => []LeftAsFound
  BY NestInvariance, NestLeaves, PTL
=============================================================================
