------------------------------ MODULE TryCatch ------------------------------
(***************************************************************************)
(* try_catch and exitf of base.h.  The program keeps a global stack of     *)
(* jmp_bufs, catch_stack; a jmp_buf is modelled by the position, among the *)
(* active scopes, of the try_catch statement whose setjmp filled it.       *)
(* Nothing ties the stack to the scopes: entering pushes, the loop         *)
(* condition after the tried expression pops whatever is on top, and exitf *)
(* jumps to whatever is on top.                                            *)
(*                                                                         *)
(* The C program is the environment: it may call, enter a try_catch, leave *)
(* a body or a handler (by its end, a break or a return) and call exitf    *)
(* anywhere.  The tried text is an expression, so control leaves it only   *)
(* by its value or by longjmp.                                             *)
(***************************************************************************)
EXTENDS Naturals, Sequences

CONSTANT MaxDepth      \* bound: how deep calls and scopes nest

ASSUME MaxDepthAssumption == MaxDepth \in Nat \ {0}

VARIABLES scopes,       \* the C stack: functions and try_catch statements, outermost first
          catch_stack,  \* the jmp_bufs, oldest first
          status        \* "running", or how the program ended

vars == <<scopes, catch_stack, status>>

Scope == {"call", "trying", "body", "handler"}

Top == scopes[Len(scopes)]
Running == status = "running"
Popped(s) == SubSeq(s, 1, Len(s) - 1)

\* setjmp returns into the statement at position i, whose control is then at s
ResumesAt(i, s) == scopes' = Append(SubSeq(scopes, 1, i - 1), s)

Init == scopes = <<"call">> /\ catch_stack = << >> /\ status = "running"

Call ==
    /\ Running /\ Len(scopes) < MaxDepth
    /\ scopes' = Append(scopes, "call")
    /\ UNCHANGED <<catch_stack, status>>

\* mutant: setjmp(*dyarr_push(&catch_stack)), after the test has pushed already
EnterTryPushesTwice ==
    /\ Running /\ Top # "trying" /\ Len(scopes) < MaxDepth
    /\ \/ /\ catch_stack' = catch_stack \o <<Len(scopes) + 1, Len(scopes) + 1>>
          /\ scopes' = Append(scopes, "trying")
          /\ UNCHANGED status
       \/ status' = "failed" /\ UNCHANGED <<scopes, catch_stack>>

\* if (!dyarr_push(&catch_stack)) notif("OOM"), exit(1); .. if (!setjmp(..)) for (expression; ..)
EnterTry ==
    /\ Running /\ Top # "trying" /\ Len(scopes) < MaxDepth
    /\ \/ /\ catch_stack' = Append(catch_stack, Len(scopes) + 1)
          /\ scopes' = Append(scopes, "trying")
          /\ UNCHANGED status
       \/ status' = "failed" /\ UNCHANGED <<scopes, catch_stack>>

\* mutant: the condition lets the body run without popping
ExprDoneKeepsEntry ==
    /\ Running /\ Top = "trying"
    /\ ResumesAt(Len(scopes), "body")
    /\ UNCHANGED <<catch_stack, status>>

\* first evaluation of the condition: _try_catch_scope ? catch_stack.len--, true : false
ExprDone ==
    /\ Running /\ Top = "trying"
    /\ catch_stack' = Popped(catch_stack)
    /\ ResumesAt(Len(scopes), "body")
    /\ UNCHANGED status

\* _try_catch_scope = false, and the condition is evaluated again: nothing is popped
StatementDone ==
    /\ Running /\ Top \in {"body", "handler"}
    /\ scopes' = Popped(scopes)
    /\ UNCHANGED <<catch_stack, status>>

Return ==
    /\ Running /\ Top # "trying"
    /\ \E c \in DOMAIN scopes :
        /\ scopes[c] = "call"
        /\ \A i \in DOMAIN scopes : i > c => scopes[i] # "call"
        /\ IF c = 1 THEN status' = "returned" /\ UNCHANGED scopes
                    ELSE scopes' = SubSeq(scopes, 1, c - 1) /\ UNCHANGED status
    /\ UNCHANGED catch_stack

\* mutant: jumps to the top jmp_buf and leaves it on the stack
ExitfKeepsEntry ==
    /\ Running
    /\ IF catch_stack # << >>
       THEN /\ ResumesAt(catch_stack[Len(catch_stack)], "handler")
            /\ UNCHANGED <<catch_stack, status>>
       ELSE status' = "failed" /\ UNCHANGED <<scopes, catch_stack>>

\* catch_stack.len ? longjmp(catch_stack.ptr[--catch_stack.len], 1) : exit(EXIT_FAILURE)
Exitf ==
    /\ Running
    /\ IF catch_stack # << >>
       THEN /\ catch_stack' = Popped(catch_stack)
            /\ ResumesAt(catch_stack[Len(catch_stack)], "handler")
            /\ UNCHANGED status
       ELSE status' = "failed" /\ UNCHANGED <<scopes, catch_stack>>

Next == Call \/ EnterTry \/ ExprDone \/ StatementDone \/ Return \/ Exitf

Spec == Init /\ [][Next]_vars
-----------------------------------------------------------------------------
(* Properties *)

\* The C stack, the stack of jmp_bufs and the status have the shapes the macros give them, and
\* the global stack never outgrows the C stack, however many errors a program recovers from.
TypeOK ==
    /\ scopes \in Seq(Scope) /\ Len(scopes) \in 1..MaxDepth
    /\ catch_stack \in Seq(1..MaxDepth) /\ Len(catch_stack) <= Len(scopes)
    /\ status \in {"running", "returned", "failed"}

\* catch_stack holds exactly the scopes being tried, outermost first, at every moment: a jump
\* never lands in a function that returned, in a statement that is over or in a body
\* (try_catch protects its expression only), and no scope loses its handler, however calls,
\* nested scopes, errors in bodies and errors in handlers follow one another.
CatchStackMirrorsScopes ==
    /\ \A k \in DOMAIN catch_stack : /\ catch_stack[k] \in DOMAIN scopes
                                     /\ scopes[catch_stack[k]] = "trying"
    /\ \A j, k \in DOMAIN catch_stack : j < k => catch_stack[j] < catch_stack[k]
    /\ \A i \in DOMAIN scopes :
            scopes[i] = "trying" => \E k \in DOMAIN catch_stack : catch_stack[k] = i

\* setjmp, longjmp and the global stack implement structured exceptions: exitf reaches the
\* innermost scope being tried, and ends the program exactly when there is none.
Exceptions == INSTANCE StructuredExceptions
ImplementsExceptions == Exceptions!ExcSpec
=============================================================================
