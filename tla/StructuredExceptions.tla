------------------------- MODULE StructuredExceptions ------------------------
(***************************************************************************)
(* What the try_catch macro of base.h imitates: nested scopes where an     *)
(* error raised while a scope is being tried goes to the innermost such    *)
(* scope, wherever in the calls below it was raised, and ends the program  *)
(* when there is none.  There is no stack of handlers here: the handler is *)
(* found by looking at the scopes themselves.                              *)
(***************************************************************************)
EXTENDS Naturals, Sequences

CONSTANT MaxDepth      \* bound: how deep calls and scopes nest

VARIABLES scopes,      \* what is active, outermost first
          status       \* "running", or how the program ended

exc == <<scopes, status>>

\* "call" is a function being executed; "trying", "body" and "handler" are the three
\* parts of a try_catch statement: try_catch(trying) body else handler.
Scope == {"call", "trying", "body", "handler"}

Top == scopes[Len(scopes)]
Trying == {i \in DOMAIN scopes : scopes[i] = "trying"}
Running == status = "running"

\* everything above scope i ends, and i itself goes on as s
UnwindTo(i, s) == scopes' = Append(SubSeq(scopes, 1, i - 1), s)

Start == scopes = <<"call">> /\ status = "running"

Call ==
    /\ Running /\ Len(scopes) < MaxDepth
    /\ scopes' = Append(scopes, "call")
    /\ UNCHANGED status

\* statements run everywhere but in the expression being tried, which can only call
Try ==
    /\ Running /\ Top # "trying" /\ Len(scopes) < MaxDepth
    /\ scopes' = Append(scopes, "trying")
    /\ UNCHANGED status

Tried ==
    /\ Running /\ Top = "trying"
    /\ UnwindTo(Len(scopes), "body")
    /\ UNCHANGED status

Leave ==
    /\ Running /\ Top \in {"body", "handler"}
    /\ scopes' = SubSeq(scopes, 1, Len(scopes) - 1)
    /\ UNCHANGED status

\* return from the innermost function, out of any body or handler it is in
Return ==
    /\ Running /\ Top # "trying"
    /\ \E c \in DOMAIN scopes :
        /\ scopes[c] = "call"
        /\ \A i \in DOMAIN scopes : i > c => scopes[i] # "call"
        /\ IF c = 1 THEN status' = "returned" /\ UNCHANGED scopes
                    ELSE scopes' = SubSeq(scopes, 1, c - 1) /\ UNCHANGED status

Raise ==
    /\ Running
    /\ \/ \E i \in Trying :
            /\ \A j \in Trying : j <= i
            /\ UnwindTo(i, "handler")
            /\ UNCHANGED status
       \/ Trying = {} /\ status' = "failed" /\ UNCHANGED scopes

\* no memory to enter a scope: the program ends even if an outer scope could catch
Abort ==
    /\ Running /\ Top # "trying"
    /\ status' = "failed"
    /\ UNCHANGED scopes

ExcNext == Call \/ Try \/ Tried \/ Leave \/ Return \/ Raise \/ Abort

ExcSpec == Start /\ [][ExcNext]_exc
=============================================================================
