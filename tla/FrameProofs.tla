----------------------------- MODULE FrameProofs -----------------------------
(***************************************************************************)
(* The safety of frame.h for any number of helper threads and calls: the   *)
(* life of the connection and of what is made over it, the race over the   *)
(* statics, and the end of the loop.  Liveness is left to TLC.             *)
(***************************************************************************)
EXTENDS Frame, SequenceTheorems, TLAPS

Making == OpenDisplay \/ ChooseVisual \/ CreateColormap \/ CreateWindow \/ MapWindow
          \/ CreateContext \/ MakeCurrent

(* What is in the output buffer and in the queue *)

\* The ways of the messages and events of S.
Moves(S) ==
    \/ UNCHANGED <<queue, out>>
    \/ Flush
    \/ queue # << >> /\ queue' = Tail(queue) /\ UNCHANGED out
    \/ \E e \in S : queue' = Append(queue, e) /\ UNCHANGED out
    \/ \E e \in S : out' = Append(out, e) /\ UNCHANGED queue
    \/ queue' = << >> /\ out' = << >>

LEMMA TrafficIn ==
    ASSUME NEW S, queue \in Seq(S), out \in Seq(S), Moves(S)
    PROVE  queue' \in Seq(S) /\ out' \in Seq(S)
<1>1. << >> \in Seq(S)
  BY EmptySeq
<1>2. CASE Flush
  BY <1>1, <1>2, ConcatProperties DEF Flush
<1>3. CASE queue # << >> /\ queue' = Tail(queue) /\ UNCHANGED out
  BY <1>3, HeadTailProperties
<1>4. CASE \E e \in S : queue' = Append(queue, e) /\ UNCHANGED out
  BY <1>4, AppendProperties
<1>5. CASE \E e \in S : out' = Append(out, e) /\ UNCHANGED queue
  BY <1>5, AppendProperties
<1>6. QED
  BY <1>1, <1>2, <1>3, <1>4, <1>5 DEF Moves

\* what process p sends with the statics as they are
Sent(p) == Client(protoAtom[fn[p]], msgAtom[fn[p]])

LEMMA StepMoves ==
    ASSUME NEW S, [Next]_vars, \A s \in Sizes : Exposed(s) \in S, [type |-> "input"] \in S,
           Client(WmProtocols, "delete") \in S, \A p \in Procs : at[p] # "out" => Sent(p) \in S
    PROVE  Moves(S)
<1>1. CASE Making \/ Destroy
  <2>1. UNCHANGED <<queue, out>>
    BY <1>1 DEF Making, OpenDisplay, ChooseVisual, CreateColormap, CreateWindow, MapWindow, CreateContext, MakeCurrent, Destroy, traffic
  <2>2. QED
    BY <2>1 DEF Moves
<1>2. CASE InternAtoms \/ SetWMProtocols \/ Block
  <2>1. Flush \/ UNCHANGED <<queue, out>>
    BY <1>2 DEF InternAtoms, SetWMProtocols, Block, LookUp
  <2>2. QED
    BY <2>1 DEF Moves
<1>3. CASE NextEvent
  BY <1>3 DEF NextEvent, Moves
<1>4. CASE Disconnect
  BY <1>4 DEF Disconnect, Moves
<1>5. ASSUME NEW p \in Procs, Requests(p) PROVE Moves(S)
  <2>1. CASE TestOnce(p) \/ MarkOnce(p) \/ Crash(p)
    <3>1. UNCHANGED <<queue, out>>
      BY <2>1 DEF TestOnce, MarkOnce, Crash
    <3>2. QED
      BY <3>1 DEF Moves
  <2>2. CASE InternProtocols(p) \/ InternMessage(p)
    <3>1. Flush \/ UNCHANGED <<queue, out>>
      BY <2>2 DEF InternProtocols, InternMessage, LookUp
    <3>2. QED
      BY <3>1 DEF Moves
  <2>3. CASE Send(p)
    <3>1. UNCHANGED queue /\ (UNCHANGED out \/ out' = Append(out, Sent(p))) /\ at[p] = "send"
      BY <2>3 DEF Send, Sent
    <3>2. QED
      BY <3>1 DEF Moves
  <2>4. QED
    BY <1>5, <2>1, <2>2, <2>3 DEF Requests
<1>6. ASSUME NEW h \in Helpers, HelperCalls(h) PROVE Moves(S)
  BY <1>6 DEF HelperCalls, traffic, Moves
<1>7. CASE Occurs
  BY <1>7 DEF Occurs, Moves
<1>8. CASE UNCHANGED vars
  BY <1>8 DEF vars, traffic, Moves
<1>9. QED
  BY <1>1, <1>2, <1>3, <1>4, <1>5, <1>6, <1>7, <1>8 DEF Making, Next, LoopSteps, HelperSteps, Procs
-----------------------------------------------------------------------------
LEMMA TypeInit == Init => TypeOK
<1>1. << >> \in Seq(Event)
  BY EmptySeq
<1>2. SUFFICES ASSUME Init PROVE TypeOK
  OBVIOUS
<1>3. once \in [Fns -> BOOLEAN] /\ asked \in [Fns -> {"never", "early", "owed", "served"}]
  BY <1>2, Zenon DEF Init
<1>4. interned \in BOOLEAN /\ dpy \in BOOLEAN /\ err \in BOOLEAN
  BY <1>2, BoundsAssumption, Zenon DEF Init
<1>5. calls \in [Helpers -> 0..MaxRequests] /\ events \in 0..MaxEvents
  BY <1>2, BoundsAssumption DEF Init
<1>6. /\ at \in [Procs -> {"out", "test", "mark", "protocols", "message", "send"}]
      /\ fn \in [Procs -> Fns]
      /\ protoAtom \in [Fns -> {None, WmProtocols}] /\ msgAtom \in [Fns -> Fns \cup {None}]
  BY <1>2 DEF Init, Fns
<1>7. QED
  BY <1>1, <1>2, <1>3, <1>4, <1>5, <1>6 DEF Init, TypeOK

\* Where the processes are and what was asked, apart from the rest of the state.
Threads ==
    /\ at \in [Procs -> {"out", "test", "mark", "protocols", "message", "send"}]
    /\ fn \in [Procs -> Fns]
    /\ asked \in [Fns -> {"never", "early", "owed", "served"}]

LEMMA AskedTyped ==
    ASSUME Threads, NEW f \in Fns, Asked(f) \/ Serves(f)
    PROVE  asked' \in [Fns -> {"never", "early", "owed", "served"}]
BY DEF Asked, Serves, Threads

LEMMA CallsTyped ==
    ASSUME Threads, NEW p \in Procs, NEW f \in Fns, Calls(p, f)
    PROVE  Threads'
<1>1. asked' \in [Fns -> {"never", "early", "owed", "served"}]
  BY AskedTyped DEF Calls
<1>2. QED
  BY <1>1 DEF Calls, Threads

LEMMA TypeNext == TypeOK /\ [Next]_vars => TypeOK'
<1> SUFFICES ASSUME TypeOK, [Next]_vars PROVE TypeOK'
  OBVIOUS
<1>a. queue' \in Seq(Event) /\ out' \in Seq(Event)
  <2>1. /\ \A s \in Sizes : Exposed(s) \in Event
        /\ [type |-> "input"] \in Event
        /\ Client(WmProtocols, "delete") \in Event
    BY DEF Event, Client
  <2>2. \A p \in Procs : Sent(p) \in Event
    <3>1. TAKE p \in Procs
    <3>2. protoAtom[fn[p]] \in {None, WmProtocols} /\ msgAtom[fn[p]] \in {None, "redraw", "close"}
      BY DEF TypeOK, Fns
    <3>3. QED
      BY <3>2 DEF Sent, Client, Event
  <2>3. queue \in Seq(Event) /\ out \in Seq(Event)
    BY DEF TypeOK
  <2>4. Moves(Event)
    BY <2>1, <2>2, StepMoves, Zenon
  <2>5. QED
    BY <2>3, <2>4, TrafficIn, Zenon
<1>b. Threads
  BY DEF TypeOK, Threads
<1> DEFINE Rest == /\ pc' \in {"open", "visual", "colormap", "window", "map", "context", "current", "intern",
                               "protocols", "loop", "blocked", "destroy", "disconnect", "done", "crashed"}
                  /\ created' \in {"unknown", "true", "false"} /\ dpy' \in BOOLEAN
                  /\ conn' \in {"none", "open", "closed"} /\ held' \subseteq {"win", "glc"}
                  /\ res' \subseteq {"cmap", "win", "glc"} /\ err' \in BOOLEAN
                  /\ size' \in {"asked", "shown"} /\ interned' \in BOOLEAN
                  /\ loopAtom' \in {None, WmProtocols}
                  /\ once' \in [Fns -> BOOLEAN]
                  /\ protoAtom' \in [Fns -> {None, WmProtocols}] /\ msgAtom' \in [Fns -> Fns \cup {None}]
                  /\ calls' \in [Helpers -> 0..MaxRequests] /\ events' \in 0..MaxEvents
<1>c. Rest /\ Threads' => TypeOK'
  BY <1>a DEF TypeOK, Threads
<1>1. CASE UNCHANGED vars
  <2>1. Rest
    BY <1>1 DEF vars, life, traffic, users, static, TypeOK
  <2>2. Threads'
    BY <1>1, <1>b DEF vars, users, Threads
  <2>3. QED
    BY <2>1, <2>2, <1>c
<1>2. CASE Making \/ InternAtoms \/ SetWMProtocols \/ Block \/ Destroy \/ Disconnect
  <2>1. UNCHANGED users
    BY <1>2 DEF Making, OpenDisplay, ChooseVisual, CreateColormap, CreateWindow, MapWindow, CreateContext, MakeCurrent, InternAtoms, SetWMProtocols, Block, Destroy, Disconnect
  <2>2. Threads'
    BY <2>1, <1>b DEF users, Threads
  <2>3. Rest
    <3>1. CASE Making
      <4>1. UNCHANGED <<size, interned, loopAtom, static, calls, events>>
        BY <3>1 DEF Making, OpenDisplay, ChooseVisual, CreateColormap, CreateWindow, MapWindow, CreateContext, MakeCurrent, traffic, users
      <4>2. pc' \in {"visual", "colormap", "window", "map", "context", "current", "intern", "destroy", "done"}
        BY <3>1 DEF Making, OpenDisplay, ChooseVisual, CreateColormap, CreateWindow, MapWindow, CreateContext, MakeCurrent, Refused, Tested
      <4>3. /\ created' \in {created, "true", "false"} /\ dpy' \in {dpy, TRUE}
            /\ conn' \in {conn, "open", "closed"} /\ err' \in {err, TRUE, FALSE}
            /\ held' \in {held, held \cup {"win"}, held \cup {"glc"}}
            /\ res' \in {res, res \cup {"cmap"}, res \cup {"win"}, res \cup {"glc"}}
        BY <3>1 DEF Making, OpenDisplay, ChooseVisual, CreateColormap, CreateWindow, MapWindow, CreateContext, MakeCurrent, Refused
      <4>4. held' \subseteq {"win", "glc"} /\ res' \subseteq {"cmap", "win", "glc"}
        BY <4>3 DEF TypeOK
      <4>5. err' \in BOOLEAN /\ dpy' \in BOOLEAN
        BY <4>3 DEF TypeOK
      <4>6. QED
        BY <4>1, <4>2, <4>3, <4>4, <4>5 DEF static, TypeOK
    <3>2. CASE InternAtoms
      BY <3>2 DEF InternAtoms, Looked, users, static, TypeOK
    <3>3. CASE SetWMProtocols
      BY <3>3 DEF SetWMProtocols, users, static, TypeOK
    <3>4. CASE Block
      BY <3>4 DEF Block, users, static, TypeOK
    <3>5. CASE Destroy
      BY <3>5 DEF Destroy, traffic, users, static, TypeOK
    <3>6. CASE Disconnect
      BY <3>6 DEF Disconnect, users, static, TypeOK
    <3>7. QED
      BY <1>2, <3>1, <3>2, <3>3, <3>4, <3>5, <3>6
  <2>4. QED
    BY <2>2, <2>3, <1>c
<1>3. CASE NextEvent
  <2>1. Head(queue) \in Event
    BY <1>3, HeadTailProperties DEF NextEvent, TypeOK
  <2>2. UNCHANGED <<created, dpy, conn, held, res, err, interned, out, loopAtom, static, calls, events>>
    BY <1>3 DEF NextEvent
  <2>3. size' \in {"asked", "shown"} /\ pc' \in {"loop", "destroy"}
    BY <1>3, <2>1 DEF NextEvent, Expose, Input, Message, TypeOK, Event, Exposed, Sizes
  <2>4. \/ UNCHANGED <<at, fn, asked>>
        \/ UNCHANGED <<at, fn>> /\ \E f \in Fns : Serves(f)
        \/ \E f \in Fns : Calls(Loop, f)
    BY <1>3 DEF NextEvent, Expose, Input, Message, Fns
  <2>5. Threads'
    <3>1. CASE UNCHANGED <<at, fn, asked>>
      BY <3>1, <1>b DEF Threads
    <3>2. CASE UNCHANGED <<at, fn>> /\ \E f \in Fns : Serves(f)
      BY <3>2, <1>b, AskedTyped DEF Threads
    <3>3. CASE \E f \in Fns : Calls(Loop, f)
      BY <3>3, <1>b, CallsTyped DEF Procs
    <3>4. QED
      BY <2>4, <3>1, <3>2, <3>3
  <2>6. Rest
    BY <2>2, <2>3 DEF static, TypeOK
  <2>7. QED
    BY <2>5, <2>6, <1>c
<1>4. ASSUME NEW p \in Procs, Requests(p) PROVE TypeOK'
  <2>1. UNCHANGED <<created, dpy, conn, held, res, size, interned, loopAtom, fn, calls, events, asked>>
    BY <1>4 DEF Requests, TestOnce, MarkOnce, InternProtocols, InternMessage, Send, Crash, InCall
  <2>2. \E to \in {"out", "mark", "protocols", "message", "send"} :
            at' = at \/ at' = [at EXCEPT ![p] = to]
    BY <1>4 DEF Requests, TestOnce, MarkOnce, InternProtocols, InternMessage, Send, Crash, Goes
  <2>3. Threads'
    BY <2>1, <2>2, <1>b DEF Threads
  <2>4. fn[p] \in Fns
    BY <1>b DEF Threads
  <2>5. err' \in BOOLEAN /\ pc' \in {pc, "crashed"}
    BY <1>4 DEF Requests, TestOnce, MarkOnce, InternProtocols, InternMessage, Send, Crash, TypeOK
  <2>6. /\ once' = once \/ once' = [once EXCEPT ![fn[p]] = TRUE]
        /\ protoAtom' = protoAtom \/ protoAtom' = [protoAtom EXCEPT ![fn[p]] = Looked]
        /\ msgAtom' = msgAtom \/ msgAtom' = [msgAtom EXCEPT ![fn[p]] = fn[p]]
    BY <1>4 DEF Requests, TestOnce, MarkOnce, InternProtocols, InternMessage, Send, Crash, static
  <2>7. once' \in [Fns -> BOOLEAN]
    BY <2>4, <2>6 DEF TypeOK
  <2>8. protoAtom' \in [Fns -> {None, WmProtocols}]
    <3>1. Looked \in {None, WmProtocols}
      BY DEF Looked
    <3>2. QED
      BY <2>4, <2>6, <3>1 DEF TypeOK
  <2>9. msgAtom' \in [Fns -> Fns \cup {None}]
    BY <2>4, <2>6 DEF TypeOK
  <2>10. Rest
    BY <2>1, <2>5, <2>7, <2>8, <2>9 DEF TypeOK
  <2>11. QED
    BY <2>3, <2>10, <1>c
<1>5. ASSUME NEW h \in Helpers, HelperCalls(h) PROVE TypeOK'
  <2>1. Threads'
    BY <1>5, <1>b, CallsTyped DEF HelperCalls, Procs
  <2>2. calls' \in [Helpers -> 0..MaxRequests]
    BY <1>5, BoundsAssumption DEF HelperCalls, TypeOK
  <2>3. Rest
    BY <1>5, <2>2 DEF HelperCalls, life, traffic, static, TypeOK
  <2>4. QED
    BY <2>1, <2>3, <1>c
<1>6. CASE Occurs
  <2>1. Threads'
    BY <1>6, <1>b DEF Occurs, Threads
  <2>2. Rest
    BY <1>6, BoundsAssumption DEF Occurs, life, static, TypeOK
  <2>3. QED
    BY <2>1, <2>2, <1>c
<1>7. QED
  BY <1>1, <1>2, <1>3, <1>4, <1>5, <1>6 DEF Making, Next, LoopSteps, HelperSteps, Procs

\* The state of frame.h, its threads, its buffer and its queue stay what they are, through every
\* interleaving of the loop and the helper threads; the other theorems rest on it.
THEOREM Typing == Spec => []TypeOK
BY TypeInit, TypeNext, PTL DEF Spec
-----------------------------------------------------------------------------
(* The connection and what is made over it *)

\* What is open, made and held at each point of the frame's life.
Life ==
    /\ res \ {"cmap"} \subseteq held
    /\ pc \in {"open", "visual", "colormap"} => held = {} /\ res = {}
    /\ pc \in {"open", "visual", "colormap", "window", "map", "context", "current"} => created = "unknown"
    /\ pc \in {"protocols", "loop", "blocked"} => created = "true"
    /\ pc = "open" => ~dpy /\ conn = "none"
    /\ pc \in {"visual", "colormap", "window", "map", "context", "current", "protocols", "loop",
              "blocked", "disconnect"} => Usable
    /\ pc = "current" => "glc" \in res
    /\ pc \in {"protocols", "loop", "blocked"} => {"win", "glc"} \subseteq res
    /\ pc = "intern" => \/ Usable /\ {"win", "glc"} \subseteq res
                        \/ ~dpy /\ conn = "closed" /\ res = {}
    /\ pc = "intern" => created = "true"
    /\ pc = "destroy" => IF created = "false" THEN conn # "open" /\ res = {} ELSE Usable
    /\ pc = "disconnect" => created # "false" /\ res \subseteq {"cmap"}
    /\ pc = "done" => conn # "open" /\ res = {}

LEMMA LifeNext == TypeOK /\ Life /\ [Next]_vars => Life'
<1> SUFFICES ASSUME TypeOK, Life, [Next]_vars PROVE Life'
  OBVIOUS
<1>1. CASE UNCHANGED life
  BY <1>1 DEF life, Life, Usable
<1>2. CASE OpenDisplay
  BY <1>2 DEF OpenDisplay, Refused, Life, Usable
<1>3. CASE ChooseVisual
  BY <1>3 DEF ChooseVisual, Refused, Life, Usable
<1>4. CASE CreateColormap
  BY <1>4 DEF CreateColormap, Tested, Life, Usable
<1>5. CASE CreateWindow
  BY <1>5 DEF CreateWindow, Tested, Life, Usable
<1>6. CASE MapWindow
  BY <1>6 DEF MapWindow, Tested, Life, Usable
<1>7. CASE CreateContext
  BY <1>7 DEF CreateContext, Life, Usable
<1>8. CASE MakeCurrent
  BY <1>8 DEF MakeCurrent, Life, Usable
<1>9. CASE InternAtoms
  BY <1>9 DEF InternAtoms, Life, Usable
<1>10. CASE SetWMProtocols
  BY <1>10 DEF SetWMProtocols, Life, Usable
<1>11. CASE Block
  BY <1>11 DEF Block, Life, Usable
<1>12. CASE NextEvent
  <2>1. /\ pc \in {"loop", "blocked"} /\ pc' \in {"loop", "destroy"}
        /\ UNCHANGED <<created, dpy, conn, held, res>>
    BY <1>12 DEF NextEvent, Expose, Input, Message
  <2>2. QED
    BY <2>1 DEF Life, Usable
<1>13. CASE Destroy
  BY <1>13 DEF Destroy, Life, Usable
<1>14. CASE Disconnect
  BY <1>14 DEF Disconnect, Life, Usable, TypeOK
<1>15. ASSUME NEW p \in Procs, Requests(p) PROVE Life'
  <2>1. UNCHANGED <<created, dpy, conn, held, res>> /\ pc' \in {pc, "crashed"}
    BY <1>15 DEF Requests, TestOnce, MarkOnce, InternProtocols, InternMessage, Send, Crash, InCall
  <2>2. QED
    BY <2>1 DEF Life, Usable
<1>16. ASSUME NEW h \in Helpers, HelperCalls(h) PROVE Life'
  BY <1>1, <1>16 DEF HelperCalls
<1>17. CASE Occurs \/ UNCHANGED vars
  BY <1>1, <1>17 DEF Occurs, vars
<1>18. QED
  BY <1>2, <1>3, <1>4, <1>5, <1>6, <1>7, <1>8, <1>9, <1>10, <1>11, <1>12, <1>13, <1>14, <1>15,
     <1>16, <1>17 DEF Next, LoopSteps, HelperSteps, Procs

\* A step that ends the program met a display that is not usable.
LEMMA CrashesUnusable == [Next]_vars /\ pc' = "crashed" => pc \in {"intern", "destroy", "crashed"} \/ ~Usable
<1> SUFFICES ASSUME [Next]_vars, pc' = "crashed", pc # "crashed"
             PROVE  pc \in {"intern", "destroy"} \/ ~Usable
  OBVIOUS
<1>1. CASE UNCHANGED life
  BY <1>1 DEF life
<1>2. CASE Making \/ SetWMProtocols \/ Block \/ NextEvent \/ Disconnect
  BY <1>2 DEF Making, OpenDisplay, ChooseVisual, CreateColormap, CreateWindow, MapWindow, CreateContext, MakeCurrent, Refused, Tested, SetWMProtocols, Block, NextEvent, Expose, Input, Message,
              Disconnect
<1>3. CASE InternAtoms \/ Destroy
  BY <1>3 DEF InternAtoms, Destroy
<1>4. ASSUME NEW p \in Procs, Requests(p) PROVE ~Usable
  BY <1>4 DEF Requests, TestOnce, MarkOnce, InternProtocols, InternMessage, Send, Crash, InCall
<1>5. ASSUME NEW h \in Helpers, HelperCalls(h) PROVE FALSE
  BY <1>5 DEF HelperCalls, life
<1>6. QED
  BY <1>1, <1>2, <1>3, <1>4, <1>5 DEF Making, Next, LoopSteps, HelperSteps, Procs, Occurs, vars

\* However many threads call frame_redraw and frame_close at any time, and wherever creation
\* fails: a loop has a whole frame, no call ends the program while the frame is made, runs or is
\* taken down, and nothing stays open or made when it is done.
THEOREM NoUseAfterClose == Spec => DisplayUsable /\ []Released
<1>1. Init => Life
  BY DEF Init, Life
<1>2. Life => Released
  BY DEF Life, Released, Usable
<1>3. TypeOK /\ Life /\ Life' /\ [Next]_vars => [UsableOrOver]_vars
  <2> SUFFICES ASSUME TypeOK, Life, Life', [Next]_vars PROVE UsableOrOver
    OBVIOUS
  <2>1. pc' \in {"protocols", "loop", "blocked"} => (Usable /\ {"win", "glc"} \subseteq res)'
    BY DEF Life
  <2>2. ASSUME pc' = "crashed"
        PROVE  pc \in {"open", "intern", "done", "crashed"} \/ (pc = "destroy" /\ created = "false")
    <3>1. CASE ~Usable
      BY <3>1 DEF Life, TypeOK
    <3>2. CASE pc = "destroy" /\ Usable
      <4>1. Destroy
        BY <2>2, <3>2 DEF Next, LoopSteps, HelperSteps, OpenDisplay, ChooseVisual, CreateColormap, CreateWindow, MapWindow, CreateContext, MakeCurrent, InternAtoms, SetWMProtocols,
           Block, NextEvent, Disconnect, Requests, TestOnce, MarkOnce, InternProtocols,
           InternMessage, Send, Crash, InCall, HelperCalls, Occurs, life, vars
      <4>2. QED
        BY <2>2, <3>2, <4>1 DEF Destroy, Usable
    <3>3. QED
      BY <2>2, <3>1, <3>2, CrashesUnusable
  <2>3. QED
    BY <2>1, <2>2 DEF UsableOrOver
<1>4. QED
  BY <1>1, <1>2, <1>3, Typing, LifeNext, PTL DEF Spec, DisplayUsable
-----------------------------------------------------------------------------
(* The statics of frame_redraw and frame_close *)

\* Who has passed the first look-up has left its result, and the atom exists.
LookedUp ==
    /\ interned
    /\ \A p \in Procs : at[p] = "message" => protoAtom[fn[p]] = WmProtocols

\* A step that leaves the statics alone, and moves no process into or out of the look-ups.
LEMMA OutsideLookUps ==
    ASSUME TypeOK, LookedUp, StaticsInitialised,
           interned', UNCHANGED static,
           \A p \in Procs : at[p] \in {"protocols", "message"} => at'[p] = at[p] /\ fn'[p] = fn[p],
           \A p \in Procs : at'[p] = "message" => at[p] = "message"
    PROVE  LookedUp' /\ StaticsInitialised'
<1>1. UNCHANGED <<once, protoAtom, msgAtom>>
  BY DEF static
<1>2. LookedUp'
  BY <1>1 DEF LookedUp
<1>3. StaticsInitialised'
  BY <1>1 DEF StaticsInitialised
<1>4. QED
  BY <1>2, <1>3

LEMMA StaticsNext == TypeOK /\ LookedUp /\ StaticsInitialised /\ [Next]_vars
                        => LookedUp' /\ StaticsInitialised'
<1> SUFFICES ASSUME TypeOK, LookedUp, StaticsInitialised, [Next]_vars
             PROVE  LookedUp' /\ StaticsInitialised'
  OBVIOUS
<1>1. CASE UNCHANGED <<at, fn, static>> /\ (interned' = interned \/ interned' = TRUE)
  <2>1. interned' /\ UNCHANGED <<at, fn, static>>
    BY <1>1 DEF LookedUp
  <2>2. QED
    BY <2>1, OutsideLookUps
<1>2. CASE NextEvent
  <2>1. UNCHANGED <<interned, static>>
    BY <1>2 DEF NextEvent
  <2>2. at[Loop] = "out" /\ \/ UNCHANGED <<at, fn>>
                            \/ /\ at' = [at EXCEPT ![Loop] = "test"]
                               /\ \E f \in Fns : fn' = [fn EXCEPT ![Loop] = f]
    BY <1>2 DEF NextEvent, Expose, Input, Message, Calls, Serves, Fns
  <2>3. QED
    BY <2>1, <2>2, OutsideLookUps DEF LookedUp, TypeOK
<1>3. ASSUME NEW h \in Helpers, HelperCalls(h) PROVE LookedUp' /\ StaticsInitialised'
  <2>1. /\ UNCHANGED <<interned, static>> /\ at[h] = "out" /\ at' = [at EXCEPT ![h] = "test"]
        /\ \E f \in Fns : fn' = [fn EXCEPT ![h] = f]
    BY <1>3 DEF HelperCalls, Calls, traffic
  <2>2. QED
    BY <2>1, OutsideLookUps DEF LookedUp, TypeOK
<1>4. ASSUME NEW p \in Procs, Requests(p) PROVE LookedUp' /\ StaticsInitialised'
  <2> USE DEF InCall, Goes
  <2>1. CASE TestOnce(p)
    <3>1. /\ at[p] = "test" /\ UNCHANGED <<interned, fn, static>>
          /\ \E to \in {"send", "mark"} : at' = [at EXCEPT ![p] = to]
      BY <2>1 DEF TestOnce
    <3>2. QED
      BY <3>1, OutsideLookUps DEF LookedUp, TypeOK
  <2>2. CASE MarkOnce(p)
    <3>1. /\ at[p] = "mark" /\ UNCHANGED <<interned, fn, protoAtom, msgAtom>>
          /\ at' = [at EXCEPT ![p] = "protocols"] /\ once' = [once EXCEPT ![fn[p]] = TRUE]
      BY <2>2 DEF MarkOnce
    <3>2. LookedUp'
      BY <3>1 DEF LookedUp, TypeOK
    <3>3. \A f \in Fns : f # fn[p] => once'[f] = once[f]
      BY <3>1 DEF TypeOK
    <3>4. at'[p] = "protocols" /\ \A q \in Procs : q # p => at'[q] = at[q]
      BY <3>1 DEF TypeOK
    <3>5. StaticsInitialised'
      BY <3>1, <3>3, <3>4 DEF StaticsInitialised
    <3>6. QED
      BY <3>2, <3>5
  <2>3. CASE InternProtocols(p)
    <3>1. /\ at[p] = "protocols" /\ UNCHANGED <<interned, fn, once, msgAtom>>
          /\ at' = [at EXCEPT ![p] = "message"]
          /\ protoAtom' = [protoAtom EXCEPT ![fn[p]] = WmProtocols]
      BY <2>3 DEF InternProtocols, Looked, LookedUp
    <3>2. /\ at'[p] = "message" /\ \A q \in Procs : q # p => at'[q] = at[q]
          /\ fn[p] \in Fns /\ protoAtom'[fn[p]] = WmProtocols
          /\ \A f \in Fns : protoAtom'[f] \in {protoAtom[f], WmProtocols}
      BY <3>1 DEF TypeOK
    <3>3. LookedUp'
      BY <3>1, <3>2 DEF LookedUp, TypeOK
    <3>4. StaticsInitialised'
      BY <3>1, <3>2 DEF StaticsInitialised
    <3>5. QED
      BY <3>3, <3>4
  <2>4. CASE InternMessage(p)
    <3>1. /\ at[p] = "message" /\ UNCHANGED <<interned, fn, once, protoAtom>>
          /\ at' = [at EXCEPT ![p] = "send"] /\ msgAtom' = [msgAtom EXCEPT ![fn[p]] = fn[p]]
      BY <2>4 DEF InternMessage
    <3>2. /\ at'[p] = "send" /\ \A q \in Procs : q # p => at'[q] = at[q]
          /\ fn[p] \in Fns /\ msgAtom'[fn[p]] = fn[p]
          /\ \A f \in Fns : f # fn[p] => msgAtom'[f] = msgAtom[f]
      BY <3>1 DEF TypeOK
    <3>3. LookedUp'
      BY <3>1, <3>2 DEF LookedUp
    <3>4. protoAtom[fn[p]] = WmProtocols
      BY <3>1 DEF LookedUp
    <3>5. StaticsInitialised'
      BY <3>1, <3>2, <3>4 DEF StaticsInitialised
    <3>6. QED
      BY <3>3, <3>5
  <2>5. CASE Send(p)
    <3>1. at[p] = "send" /\ UNCHANGED <<interned, fn, static>> /\ at' = [at EXCEPT ![p] = "out"]
      BY <2>5 DEF Send
    <3>2. QED
      BY <3>1, OutsideLookUps DEF LookedUp, TypeOK
  <2>6. CASE Crash(p)
    BY <1>1, <2>6 DEF Crash
  <2>7. QED
    BY <1>4, <2>1, <2>2, <2>3, <2>4, <2>5, <2>6 DEF Requests
<1>5. CASE Making \/ InternAtoms \/ SetWMProtocols \/ Block \/ Destroy \/ Disconnect
           \/ Occurs \/ UNCHANGED vars
  <2>1. UNCHANGED <<at, fn, static>> /\ (interned' = interned \/ interned' = TRUE)
    BY <1>5 DEF Making, OpenDisplay, ChooseVisual, CreateColormap, CreateWindow, MapWindow, CreateContext, MakeCurrent, InternAtoms, SetWMProtocols, Block, Destroy, Disconnect, Occurs, vars, life,
                traffic, users, static
  <2>2. QED
    BY <1>1, <2>1
<1>6. QED
  BY <1>2, <1>3, <1>4, <1>5 DEF Making, Next, LoopSteps, HelperSteps, Procs

\* The race through "if (!once)" heals for any number of threads: once no thread is looking the
\* atoms up, the statics hold what the loop compares with, if WM_PROTOCOLS existed at the start.
THEOREM StaticsHeal == ASSUME AtomExists PROVE Spec => []StaticsInitialised
<1>1. Init => LookedUp /\ StaticsInitialised
  BY DEF Init, LookedUp, StaticsInitialised
<1>2. QED
  BY <1>1, Typing, StaticsNext, PTL DEF Spec
-----------------------------------------------------------------------------
(* The end of the loop *)

AsksToClose(e) == e.type = "client" /\ e.what = "close"
Quiet == {e \in Event : ~AsksToClose(e)}

\* As long as frame_close has not been called, no message of it is on its way, nobody is
\* inside it and its atom is unknown.
NobodyCloses ==
    /\ queue \in Seq(Quiet) /\ out \in Seq(Quiet)
    /\ \A p \in Procs : at[p] # "out" => fn[p] = "redraw"
    /\ msgAtom["close"] = None

CloseIsAsked ==
    /\ msgAtom["redraw"] \in {None, "redraw"}
    /\ asked["close"] = "never" => NobodyCloses

LEMMA QuietTraffic ==
    ASSUME TypeOK, CloseIsAsked, NobodyCloses, [Next]_vars
    PROVE  queue' \in Seq(Quiet) /\ out' \in Seq(Quiet)
<1>1. /\ \A s \in Sizes : Exposed(s) \in Quiet
      /\ [type |-> "input"] \in Quiet
      /\ Client(WmProtocols, "delete") \in Quiet
  BY DEF Event, Client, Exposed, AsksToClose, Quiet
<1>2. \A p \in Procs : at[p] # "out" => Sent(p) \in Quiet
  <2>1. SUFFICES ASSUME NEW p \in Procs, at[p] # "out" PROVE Sent(p) \in Quiet
    OBVIOUS
  <2>2. fn[p] = "redraw"
    BY <2>1 DEF NobodyCloses
  <2>3. protoAtom[fn[p]] \in {None, WmProtocols} /\ msgAtom[fn[p]] \in {None, "redraw"}
    BY <2>2 DEF CloseIsAsked, TypeOK, Fns
  <2>4. QED
    BY <2>3 DEF Sent, Client, Event, AsksToClose, Quiet, None
<1>3. Moves(Quiet)
  BY <1>1, <1>2, StepMoves, Zenon
<1>4. queue \in Seq(Quiet) /\ out \in Seq(Quiet)
  BY DEF NobodyCloses
<1>5. QED
  BY <1>3, <1>4, TrafficIn, Zenon

LEMMA CloseNext == TypeOK /\ CloseIsAsked /\ [Next]_vars => CloseIsAsked'
<1> SUFFICES ASSUME TypeOK, CloseIsAsked, [Next]_vars PROVE CloseIsAsked'
  OBVIOUS
<1>a. asked'["close"] = "never" => asked["close"] = "never"
  <2>1. \/ asked' = asked
        \/ \E f \in Fns : Asked(f) \/ Serves(f)
    BY DEF Next, LoopSteps, HelperSteps, OpenDisplay, ChooseVisual, CreateColormap, CreateWindow, MapWindow, CreateContext, MakeCurrent, InternAtoms, SetWMProtocols, Block, NextEvent,
           Expose, Input, Message, Destroy, Disconnect, Requests, TestOnce, MarkOnce,
           InternProtocols, InternMessage, Send, Crash, InCall, HelperCalls, Calls, Occurs, vars, users, Fns
  <2>2. QED
    BY <2>1 DEF Asked, Serves, TypeOK, Fns
<1>b. NobodyCloses => queue' \in Seq(Quiet) /\ out' \in Seq(Quiet)
  BY QuietTraffic
<1>1. CASE UNCHANGED <<at, fn, static>>
  BY <1>1, <1>a, <1>b DEF CloseIsAsked, NobodyCloses, static
<1>2. ASSUME NEW p \in Procs, NEW f \in Fns, Calls(p, f), UNCHANGED static PROVE CloseIsAsked'
  <2>1. asked'["close"] = "never" => f = "redraw"
    BY <1>2 DEF Calls, Asked, TypeOK, Fns
  <2>2. /\ fn'[p] = f /\ \A q \in Procs : q # p => at'[q] = at[q] /\ fn'[q] = fn[q]
    BY <1>2 DEF Calls, TypeOK
  <2>3. QED
    BY <1>2, <1>a, <1>b, <2>1, <2>2 DEF CloseIsAsked, NobodyCloses, static
<1>3. CASE NextEvent
  <2>1. UNCHANGED static /\ (UNCHANGED <<at, fn>> \/ \E f \in Fns : Calls(Loop, f))
    BY <1>3 DEF NextEvent, Expose, Input, Message, Fns
  <2>2. QED
    BY <2>1, <1>1, <1>2 DEF Procs
<1>4. ASSUME NEW h \in Helpers, HelperCalls(h) PROVE CloseIsAsked'
  BY <1>2, <1>4 DEF HelperCalls, Procs
<1>5. ASSUME NEW p \in Procs, Requests(p) PROVE CloseIsAsked'
  <2>0. CASE Crash(p)
    BY <1>1, <2>0 DEF Crash, InCall
  <2>1. CASE ~Crash(p)
    <3>1. /\ at[p] # "out" /\ UNCHANGED fn
          /\ \E to \in {"mark", "send", "protocols", "message", "out"} : at' = [at EXCEPT ![p] = to]
      BY <1>5, <2>1 DEF Requests, TestOnce, MarkOnce, InternProtocols, InternMessage, Send, Goes, InCall
    <3>2. NobodyCloses => fn[p] = "redraw" /\ \A q \in Procs : at'[q] # "out" => fn'[q] = "redraw"
      BY <3>1 DEF NobodyCloses, TypeOK
    <3>3. msgAtom' = msgAtom \/ msgAtom' = [msgAtom EXCEPT ![fn[p]] = fn[p]]
      BY <1>5, <2>1 DEF Requests, TestOnce, MarkOnce, InternProtocols, InternMessage, Send, static
    <3>4. /\ msgAtom'["redraw"] \in {None, "redraw"}
          /\ fn[p] = "redraw" => msgAtom'["close"] = msgAtom["close"]
      BY <3>3 DEF CloseIsAsked, TypeOK, Fns
    <3>5. QED
      BY <3>2, <3>4, <1>a, <1>b DEF CloseIsAsked, NobodyCloses
  <2>2. QED
    BY <2>0, <2>1
<1>6. CASE Making \/ InternAtoms \/ SetWMProtocols \/ Block \/ Destroy \/ Disconnect \/ Occurs
           \/ UNCHANGED vars
  <2>1. UNCHANGED <<at, fn, static>>
    BY <1>6 DEF Making, OpenDisplay, ChooseVisual, CreateColormap, CreateWindow, MapWindow, CreateContext, MakeCurrent, InternAtoms, SetWMProtocols, Block, Destroy, Disconnect, Occurs,
                vars, users
  <2>2. QED
    BY <1>1, <2>1
<1>7. QED
  BY <1>3, <1>4, <1>5, <1>6 DEF Making, Next, LoopSteps, HelperSteps, Procs

\* The close button, other messages and the races of any number of threads never end the loop:
\* it only ends once frame_close has been called.
THEOREM LoopEndsOnRequest == Spec => OnlyCloseEndsLoop
<1>1. Init => CloseIsAsked
  <2>1. << >> \in Seq(Quiet)
    BY EmptySeq
  <2>2. QED
    BY <2>1 DEF Init, CloseIsAsked, NobodyCloses, Fns
<1>2. TypeOK /\ CloseIsAsked /\ [Next]_vars
        => [pc' = "destroy" /\ pc \in {"loop", "blocked"} => asked["close"] # "never"]_vars
  <2> SUFFICES ASSUME TypeOK, CloseIsAsked, Next, pc' = "destroy", pc \in {"loop", "blocked"},
                      asked["close"] = "never"
               PROVE  FALSE
    OBVIOUS
  <2>1. NextEvent
    BY DEF Next, LoopSteps, HelperSteps, OpenDisplay, ChooseVisual, CreateColormap, CreateWindow, MapWindow, CreateContext, MakeCurrent, InternAtoms,
           SetWMProtocols, Block, Destroy, Disconnect, Requests, TestOnce, MarkOnce, InternProtocols,
           InternMessage, Send, Crash, HelperCalls, Occurs, InCall, life
  <2>2. queue # << >> /\ AsksToClose(Head(queue))
    BY <2>1 DEF NextEvent, Expose, Input, Message, AsksToClose
  <2>3. queue \in Seq(Quiet)
    BY DEF CloseIsAsked, NobodyCloses
  <2>4. Head(queue) \in Quiet
    BY <2>2, <2>3, HeadTailProperties
  <2>5. QED
    BY <2>2, <2>4 DEF Quiet
<1>3. QED
  BY <1>1, <1>2, Typing, CloseNext, PTL DEF Spec, OnlyCloseEndsLoop
=============================================================================
