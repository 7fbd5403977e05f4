------------------------------- MODULE Frame --------------------------------
(***************************************************************************)
(* The X11 half of utils/frame.h: the life of one Frame, its event loop,   *)
(* and frame_redraw / frame_close called from event callbacks and from     *)
(* other threads.                                                          *)
(*                                                                         *)
(* The loop thread does what both examples of the header do: if            *)
(* frame_create says true it runs frame_loop and then frame_destroy; if it *)
(* says false the program leaves (main_nothread) or runs frame_destroy all *)
(* the same (the cleanup handler of main_threaded).  The "closing"         *)
(* callback is frame_close, as in the examples; an input callback may call *)
(* frame_redraw, frame_close or nothing.  The other threads call the two   *)
(* functions whenever they like: nothing in frame.h keeps them out before  *)
(* frame_create or after frame_destroy.  Using a display that is not open  *)
(* ends the program.  A single call into Xlib is one step (libX11 locks    *)
(* the display by itself since 1.8); the function-level statics of         *)
(* frame_redraw and frame_close are shared and not locked.                 *)
(*                                                                         *)
(* Xlib, the X server and the window manager are external.  A request      *)
(* stays in the output buffer of the connection until some call sends the  *)
(* buffer: XNextEvent before it waits, and a look-up of an atom that Xlib  *)
(* does not remember.  The server carries requests out in order, answers a *)
(* wrong one with an error that comes in some time later, keeps the table  *)
(* of atoms, and lets a window be exposed, asked to close, or get input.   *)
(***************************************************************************)
EXTENDS Naturals, Sequences, FiniteSets

CONSTANTS Loop,         \* the thread that owns the frame
          Helpers,      \* other threads calling frame_redraw and frame_close
          Faults,       \* which parts of frame_create can fail here
          AtomExists,   \* some client has interned WM_PROTOCOLS before
          MaxRequests,  \* bound: calls a helper makes
          MaxEvents     \* bound: events the user and the window manager cause

Fns == {"redraw", "close"}
Procs == {Loop} \cup Helpers
Sizes == {"tiny", "shown"}  \* of an exposed area; a side of 1 or less is tiny
None == "None"          \* the atom 0, which also is what a static Atom starts as
WmProtocols == "WM_PROTOCOLS"

ASSUME LoopAssumption == Loop \notin Helpers
ASSUME FaultsAssumption ==
    Faults \subseteq {"display", "visual", "colormap", "window", "context", "current"}
ASSUME BoundsAssumption == AtomExists \in BOOLEAN /\ MaxRequests \in Nat /\ MaxEvents \in Nat

VARIABLES
    pc,         \* where the loop thread is, outside the calls below; "crashed" for them all
    created,    \* what frame_create returned: "unknown", "true" or "false"
    dpy,        \* self->dpy is not NULL
    conn,       \* that connection: "none", "open" or "closed"
    held,       \* which of self->win and self->glc are not 0
    res,        \* what exists for the frame: a subset of {"cmap", "win", "glc"}
    err,        \* an error of a request is on its way to _errhandler
    size,       \* self->width and self->height: "asked", or what was exposed last
    interned,   \* WM_PROTOCOLS is in the server's table of atoms
    out,        \* messages sent to the window that are still in the output buffer
    queue,      \* events of the connection not yet read
    loopAtom,   \* wm_protocols in frame_loop
    at,         \* at[p]: where process p is in frame_redraw or frame_close, or "out"
    fn,         \* fn[p]: which of the two
    once,       \* the statics of the two functions
    protoAtom,
    msgAtom,
    calls,      \* calls[h]: calls helper h has made
    events,     \* events caused from outside so far
    asked       \* asked[f]: what became of the calls of f (a history variable)

static == <<once, protoAtom, msgAtom>>
life == <<pc, created, dpy, conn, held, res, err, size>>
traffic == <<interned, out, queue, loopAtom>>
users == <<at, fn, static, calls, events, asked>>
vars == <<life, traffic, users>>

Client(proto, what) == [type |-> "client", proto |-> proto, what |-> what]
Exposed(s) == [type |-> "expose", size |-> s]
Event == {Exposed(s) : s \in Sizes} \cup {[type |-> "input"]}
            \cup [type : {"client"}, proto : {None, WmProtocols},
                  what : {None, "redraw", "close", "delete"}]

Usable == dpy /\ conn = "open"

\* XInternAtom(dpy, "WM_PROTOCOLS", true)
Looked == IF interned THEN WmProtocols ELSE None

\* the output buffer is sent: the server turns the messages in it into events
Flush == queue' = queue \o out /\ out' = << >>

\* XInternAtom waits for an answer, unless Xlib remembers the atom
LookUp == Flush \/ UNCHANGED <<queue, out>>

Init ==
    /\ pc = "open" /\ created = "unknown"
    /\ dpy = FALSE /\ conn = "none" /\ held = {} /\ res = {} /\ err = FALSE /\ size = "asked"
    /\ interned = AtomExists
    /\ out = << >> /\ queue = << >> /\ loopAtom = None
    /\ at = [p \in Procs |-> "out"] /\ fn = [p \in Procs |-> "redraw"]
    /\ once = [f \in Fns |-> FALSE]
    /\ protoAtom = [f \in Fns |-> None] /\ msgAtom = [f \in Fns |-> None]
    /\ calls = [h \in Helpers |-> 0] /\ events = 0
    /\ asked = [f \in Fns |-> "never"]
-----------------------------------------------------------------------------
(* frame_create *)

\* "return false": the caller leaves, or destroys what it does not have
Refused == created' = "false" /\ pc' \in {"done", "destroy"}

OpenDisplay ==
    /\ pc = "open"
    /\ \/ "display" \in Faults /\ Refused /\ UNCHANGED <<dpy, conn>>
       \/ dpy' = TRUE /\ conn' = "open" /\ pc' = "visual" /\ UNCHANGED created
    /\ UNCHANGED <<held, res, err, size, traffic, users>>

\* on failure the connection is closed and self->dpy still points to it
ChooseVisual ==
    /\ pc = "visual"
    /\ \/ "visual" \in Faults /\ conn' = "closed" /\ Refused /\ UNCHANGED err
       \/ err' = FALSE /\ pc' = "colormap" /\ UNCHANGED <<conn, created>>
    /\ UNCHANGED <<dpy, held, res, size, traffic, users>>

\* "!_errreceived": an error on its way may have come in by the time of the test
Tested(next) == pc' = next \/ (err' /\ pc' = "destroy")

CreateColormap ==
    /\ pc = "colormap"
    /\ \/ "colormap" \in Faults /\ err' = TRUE /\ UNCHANGED res
       \/ res' = res \cup {"cmap"} /\ UNCHANGED err
    /\ Tested("window")
    /\ UNCHANGED <<created, dpy, conn, held, size, traffic, users>>

\* the identifier is Xlib's own: self->win is set whether or not the server makes the window
CreateWindow ==
    /\ pc = "window"
    /\ held' = held \cup {"win"}
    /\ \/ ("window" \in Faults \/ "cmap" \notin res) /\ err' = TRUE /\ UNCHANGED res
       \/ "cmap" \in res /\ res' = res \cup {"win"} /\ UNCHANGED err
    /\ Tested("map")
    /\ UNCHANGED <<created, dpy, conn, size, traffic, users>>

MapWindow ==
    /\ pc = "map"
    /\ UNCHANGED <<created, dpy, conn, held, res, err, size, traffic, users>>
    /\ Tested("context")

CreateContext ==
    /\ pc = "context"
    /\ \/ "context" \in Faults /\ pc' = "destroy" /\ UNCHANGED <<held, res>>
       \/ pc' = "current" /\ held' = held \cup {"glc"} /\ res' = res \cup {"glc"}
    /\ UNCHANGED <<created, dpy, conn, err, size, traffic, users>>

\* mutant: forgets the last test
CurrentUntested ==
    /\ pc = "current"
    /\ pc' = "intern" /\ created' = "true"
    /\ UNCHANGED <<dpy, conn, held, res, err, size, traffic, users>>

\* it needs the window and is told at once if there is none
MakeCurrent ==
    /\ pc = "current"
    /\ \/ "win" \in res /\ pc' = "intern" /\ created' = "true"
       \/ ("current" \in Faults \/ "win" \notin res \/ err) /\ pc' = "destroy" /\ UNCHANGED created
    /\ UNCHANGED <<dpy, conn, held, res, err, size, traffic, users>>
-----------------------------------------------------------------------------
(* frame_loop *)

\* the first use of self->dpy; it ends the program when frame_create failed late
InternAtoms ==
    /\ pc = "intern"
    /\ IF Usable THEN loopAtom' = Looked /\ LookUp /\ pc' = "protocols"
                 ELSE pc' = "crashed" /\ UNCHANGED <<loopAtom, queue, out>>
    /\ UNCHANGED <<created, dpy, conn, held, res, err, size, interned, users>>

\* XSetWMProtocols creates the atom when it does not exist
SetWMProtocols ==
    /\ pc = "protocols"
    /\ interned' = TRUE
    /\ LookUp
    /\ pc' = "loop"
    /\ UNCHANGED <<created, dpy, conn, held, res, err, size, loopAtom, users>>

\* What is asked of a frame that has no window goes nowhere.
Asked(f) ==
    asked' = [asked EXCEPT ![f] =
                IF "win" \in res THEN "owed" ELSE IF @ = "never" THEN "early" ELSE @]

\* p enters frame_redraw or frame_close; a callback does it in the loop thread
Calls(p, f) ==
    /\ at' = [at EXCEPT ![p] = "test"]
    /\ fn' = [fn EXCEPT ![p] = f]
    /\ Asked(f)

Serves(f) == asked' = [asked EXCEPT ![f] = "served"]

\* mutant: takes any size
ExposeAnySize(e) ==
    /\ e.type = "expose"
    /\ size' = e.size
    /\ pc' = "loop" /\ UNCHANGED <<at, fn, asked>>

Expose(e) ==
    /\ e.type = "expose"
    /\ size' = IF e.size = "tiny" THEN size ELSE e.size
    /\ pc' = "loop" /\ UNCHANGED <<at, fn, asked>>

Input(e) ==
    /\ e.type = "input"
    /\ \/ \E f \in Fns : Calls(Loop, f)
       \/ UNCHANGED <<at, fn, asked>>
    /\ pc' = "loop" /\ UNCHANGED size

\* mutant: the close button ends the loop without asking the program
DeleteEnds(e) ==
    /\ e.type = "client" /\ UNCHANGED <<size, at, fn>>
    /\ IF e.proto = loopAtom /\ e.what \in {"close", "delete"}
       THEN Serves("close") /\ pc' = "destroy"
       ELSE pc' = "loop" /\ UNCHANGED asked

\* mutant: a redraw message is not recognised
RedrawIgnored(e) ==
    /\ e.type = "client" /\ UNCHANGED size
    /\ IF e.proto = loopAtom /\ e.what = "delete"
       THEN Calls(Loop, "close") /\ pc' = "loop"
       ELSE /\ IF e.proto = loopAtom /\ e.what = "close"
               THEN Serves("close") /\ pc' = "destroy"
               ELSE pc' = "loop" /\ UNCHANGED asked
            /\ UNCHANGED <<at, fn>>

\* mutant: the close breaks out of the switch instead of returning
CloseBreaks(e) ==
    /\ e.type = "client" /\ pc' = "loop" /\ UNCHANGED size
    /\ IF e.proto # loopAtom \/ e.what = None
       THEN UNCHANGED <<at, fn, asked>>
       ELSE \/ e.what \in Fns /\ Serves(e.what) /\ UNCHANGED <<at, fn>>
            \/ e.what = "delete" /\ Calls(Loop, "close")

Message(e) ==
    /\ e.type = "client" /\ UNCHANGED size
    /\ IF e.proto # loopAtom \/ e.what = None
       THEN pc' = "loop" /\ UNCHANGED <<at, fn, asked>>
       ELSE \/ e.what = "redraw" /\ Serves("redraw") /\ pc' = "loop" /\ UNCHANGED <<at, fn>>
            \/ e.what = "delete" /\ Calls(Loop, "close") /\ pc' = "loop"
            \/ e.what = "close" /\ Serves("close") /\ pc' = "destroy" /\ UNCHANGED <<at, fn>>

\* XNextEvent finds nothing among the events Xlib has read: it sends the buffer and waits
Block ==
    /\ pc = "loop" /\ at[Loop] = "out"
    /\ Flush
    /\ pc' = "blocked"
    /\ UNCHANGED <<created, dpy, conn, held, res, err, size, interned, loopAtom, users>>

\* XNextEvent has an event, read before or just come in
NextEvent ==
    /\ pc \in {"loop", "blocked"} /\ at[Loop] = "out" /\ queue # << >>
    /\ queue' = Tail(queue)
    /\ Expose(Head(queue)) \/ Input(Head(queue)) \/ Message(Head(queue))
    /\ UNCHANGED <<created, dpy, conn, held, res, err, interned, out, loopAtom, static, calls, events>>
-----------------------------------------------------------------------------
(* frame_redraw and frame_close, by any process *)

Goes(p, to) == at' = [at EXCEPT ![p] = to]
InCall == <<created, dpy, conn, held, res, size, interned, loopAtom, fn, calls, events, asked>>

\* "if (!once)" and "once = true" are two accesses
TestOnce(p) ==
    /\ at[p] = "test"
    /\ Goes(p, IF once[fn[p]] THEN "send" ELSE "mark")
    /\ UNCHANGED <<InCall, pc, err, queue, out, static>>

MarkOnce(p) ==
    /\ at[p] = "mark"
    /\ once' = [once EXCEPT ![fn[p]] = TRUE]
    /\ Goes(p, "protocols")
    /\ UNCHANGED <<InCall, pc, err, queue, out, protoAtom, msgAtom>>

InternProtocols(p) ==
    /\ at[p] = "protocols" /\ Usable
    /\ protoAtom' = [protoAtom EXCEPT ![fn[p]] = Looked]
    /\ LookUp
    /\ Goes(p, "message")
    /\ UNCHANGED <<InCall, pc, err, once, msgAtom>>

\* mutant: the atom of the message is never looked up
InternMessageForgotten(p) ==
    /\ at[p] = "message" /\ Usable
    /\ Goes(p, "send")
    /\ UNCHANGED <<InCall, pc, err, queue, out, static>>

InternMessage(p) ==
    /\ at[p] = "message" /\ Usable
    /\ msgAtom' = [msgAtom EXCEPT ![fn[p]] = fn[p]]
    /\ LookUp
    /\ Goes(p, "send")
    /\ UNCHANGED <<InCall, pc, err, once, protoAtom>>

\* XSendEvent only buffers the request.  With a window that could not be made it is an error;
\* when self->win still is 0 it goes to the window the pointer happens to be in.
Send(p) ==
    /\ at[p] = "send" /\ Usable
    /\ IF "win" \in res
       THEN out' = Append(out, Client(protoAtom[fn[p]], msgAtom[fn[p]])) /\ UNCHANGED err
       ELSE err' = (err \/ "win" \in held) /\ UNCHANGED out
    /\ Goes(p, "out")
    /\ UNCHANGED <<InCall, pc, queue, static>>

\* the display is NULL or closed
Crash(p) ==
    /\ at[p] \in {"protocols", "message", "send"} /\ ~Usable
    /\ pc' = "crashed"
    /\ UNCHANGED <<InCall, err, queue, out, at, static>>

Requests(p) ==
    /\ pc # "crashed"
    /\ TestOnce(p) \/ MarkOnce(p) \/ InternProtocols(p) \/ InternMessage(p) \/ Send(p) \/ Crash(p)

HelperCalls(h) ==
    /\ pc # "crashed"
    /\ at[h] = "out" /\ calls[h] < MaxRequests
    /\ calls' = [calls EXCEPT ![h] = @ + 1]
    /\ \E f \in Fns : Calls(h, f)
    /\ UNCHANGED <<life, traffic, static, events>>
-----------------------------------------------------------------------------
(* frame_destroy, at the end of a frame_create that failed or after the loop *)

\* mutant: forgets the context
DestroyWindowOnly ==
    /\ pc = "destroy"
    /\ IF ~dpy THEN pc' = "done" /\ UNCHANGED res
       ELSE IF conn = "open" THEN pc' = "disconnect" /\ res' = res \ (held \cap {"win"})
       ELSE pc' = "crashed" /\ UNCHANGED res
    /\ UNCHANGED <<created, dpy, conn, held, err, size, traffic, users>>

\* nobody waits for threads that are in frame_redraw or frame_close
Destroy ==
    /\ pc = "destroy"
    /\ IF ~dpy THEN pc' = "done" /\ UNCHANGED res
       ELSE IF conn = "open" THEN pc' = "disconnect" /\ res' = res \ held
       ELSE pc' = "crashed" /\ UNCHANGED res
    /\ UNCHANGED <<created, dpy, conn, held, err, size, traffic, users>>

\* XCloseDisplay drops what the server has for the connection, not the context, which the
\* GLX library keeps; frame_create then says "return true" all the same
Disconnect ==
    /\ pc = "disconnect"
    /\ conn' = "closed" /\ dpy' = FALSE /\ held' = {} /\ res' = res \ {"cmap", "win"}
    /\ queue' = << >> /\ out' = << >>
    /\ IF created = "unknown" THEN created' = "true" /\ pc' = "intern"
       ELSE pc' = "done" /\ UNCHANGED created
    /\ UNCHANGED <<err, size, interned, loopAtom, users>>
-----------------------------------------------------------------------------
(* the X server on behalf of the user and the window manager (external) *)

Occurs ==
    /\ pc # "crashed"
    /\ "win" \in res /\ events < MaxEvents
    /\ events' = events + 1
    /\ \/ \E s \in Sizes : queue' = Append(queue, Exposed(s))
       \/ queue' = Append(queue, [type |-> "input"])
       \/ pc \in {"loop", "blocked"} /\ queue' = Append(queue, Client(WmProtocols, "delete"))
    /\ UNCHANGED <<life, interned, out, loopAtom, at, fn, static, calls, asked>>

LoopSteps ==
    OpenDisplay \/ ChooseVisual \/ CreateColormap \/ CreateWindow \/ MapWindow \/ CreateContext
    \/ MakeCurrent \/ InternAtoms \/ SetWMProtocols \/ Block \/ NextEvent
    \/ Destroy \/ Disconnect \/ Requests(Loop)

HelperSteps(h) == Requests(h)

Next == LoopSteps \/ (\E h \in Helpers : HelperSteps(h) \/ HelperCalls(h)) \/ Occurs

Spec == Init /\ [][Next]_vars

\* the threads are scheduled; nobody has to ask for anything, nor anything to occur
FairSpec == Spec /\ WF_vars(LoopSteps) /\ \A h \in Helpers : WF_vars(HelperSteps(h))
-----------------------------------------------------------------------------
(* Properties *)

\* Every variable has the values the code can give it.
TypeOK ==
    /\ pc \in {"open", "visual", "colormap", "window", "map", "context", "current", "intern",
              "protocols", "loop", "blocked", "destroy", "disconnect", "done", "crashed"}
    /\ created \in {"unknown", "true", "false"} /\ dpy \in BOOLEAN
    /\ conn \in {"none", "open", "closed"} /\ held \subseteq {"win", "glc"}
    /\ res \subseteq {"cmap", "win", "glc"} /\ err \in BOOLEAN
    /\ size \in {"asked", "shown"} /\ interned \in BOOLEAN
    /\ out \in Seq(Event) /\ queue \in Seq(Event) /\ loopAtom \in {None, WmProtocols}
    /\ at \in [Procs -> {"out", "test", "mark", "protocols", "message", "send"}]
    /\ fn \in [Procs -> Fns] /\ once \in [Fns -> BOOLEAN]
    /\ protoAtom \in [Fns -> {None, WmProtocols}] /\ msgAtom \in [Fns -> Fns \cup {None}]
    /\ calls \in [Helpers -> 0..MaxRequests] /\ events \in 0..MaxEvents
    /\ asked \in [Fns -> {"never", "early", "owed", "served"}]

\* Where a step may lead: into a loop only with a whole frame, and to the end of the program
\* only outside the loop.
UsableOrOver ==
    /\ pc' \in {"protocols", "loop", "blocked"} => (Usable /\ {"win", "glc"} \subseteq res)'
    /\ pc' = "crashed" => \/ pc \in {"open", "intern", "done", "crashed"}
                          \/ pc = "destroy" /\ created = "false"

\* frame.h promises its threads nothing, and this is what they get: the loop runs with a
\* window, a context and an open connection, whatever went wrong on the way and however late
\* the errors came in, and nobody's call ends the program meanwhile, nor while the frame is
\* made or being taken down.  The program only ends over a display that is not there yet, that
\* frame_create gave up, or that frame_destroy has closed under a thread it did not wait for.
DisplayUsable == [][UsableOrOver]_vars

\* Wherever frame_create failed, with as much of the frame as there was by then, and however
\* the loop ended, no connection, colormap, window or context is left.
Released == pc = "done" \/ (pc = "intern" /\ ~dpy) => conn # "open" /\ res = {}

\* Of the threads that race through "if (!once)", as long as one is still looking the atoms
\* up the others may send garbage; when none is, the statics hold what the loop compares with.
StaticsInitialised ==
    \A f \in Fns :
        once[f] => \/ \E p \in Procs : fn[p] = f /\ at[p] \in {"protocols", "message"}
                   \/ protoAtom[f] = WmProtocols /\ msgAtom[f] = f

\* What frame.h:6 says of frame_create, "it returns false on failure": a frame it returned
\* true for has its window, its context and its connection until it is destroyed.
CreatedMeansUsable ==
    created = "true" /\ pc \in {"intern", "protocols", "loop", "blocked"}
        => Usable /\ {"win", "glc"} \subseteq res

\* The close button only asks: the loop never ends unless frame_close has been called.
OnlyCloseEndsLoop ==
    [][pc' = "destroy" /\ pc \in {"loop", "blocked"} => asked["close"] # "never"]_vars

\* Messages lie in the output buffer, and the loop waits for an event with nothing to read.
Unsent == pc = "blocked" /\ queue = << >> /\ out # << >>

\* The loop's own thread, in a callback, is about to send f with its atoms known.
SendsFromLoop(f) ==
    at[Loop] = "send" /\ fn[Loop] = f /\ protoAtom[f] = loopAtom /\ msgAtom[f] = f

\* frame.h:11, "Calling frame_close makes it fall out of the loop": from a callback it always
\* does, once its atoms are known; from a thread, and however its call races with others over
\* the statics, it does unless the message stays in the output buffer for good, which nothing
\* in frame.h sends.  The frame is then destroyed, if no thread uses it while that happens.
CloseEndsLoop ==
    /\ SendsFromLoop("close") ~> pc \in {"done", "crashed"}
    /\ asked["close"] = "owed" ~> (pc \in {"done", "crashed"} \/ []Unsent)

\* frame.h:10, "Calling frame_redraw forces a render event": a call is followed by a
\* rendering even when its own message is lost to the race, unless the loop is over; that of a
\* thread, unless the message stays in the output buffer for good.
RedrawRenders ==
    LET Over == pc \in {"destroy", "disconnect", "done", "crashed"}
    IN  /\ SendsFromLoop("redraw") ~> (asked["redraw"] = "served" \/ Over)
        /\ asked["redraw"] = "owed" ~> (asked["redraw"] = "served" \/ Over \/ []Unsent)
=============================================================================
