------------------------------ MODULE BipaType ------------------------------
(***************************************************************************)
(* What adapt_bipa_type of base.h offers of one bipa format: X_build,      *)
(* X_parse and X_free, and bipa_parse_X, which starts anywhere in its      *)
(* source.  Between a build and a parse the bytes travel: they may come    *)
(* behind other bytes, be cut short, or be bytes that no builder made.     *)
(***************************************************************************)
EXTENDS Bipa

CONSTANTS Jobs,     \* records [fmt, val, own, tagged, noisy]: a format, a value of it,
                    \* whether the format finds its own end, whether no tag of it is
                    \* void, whether to parse Noise too
          Budgets,  \* how many allocations the program gets before malloc fails
          Leads,    \* the bytes before the ones to parse
          Tails,    \* the bytes after them
          Noise     \* bytes that no builder made

VARIABLES job,
          pc,      \* "new", "built", "given", "parsed", "failed", "freed", "exitf"
          built,   \* the buf of X_build
          src,     \* what is given to the parser, and where its cursor starts
          start,
          whole,   \* whether src holds all that was built
          out      \* the cursor after the parse, with the value

vars == <<job, pc, built, src, start, whole, out>>

Init ==
    /\ job \in Jobs
    /\ pc = "new"
    /\ \E left \in Budgets : built = EmptyBuf(left)
    /\ src = << >> /\ start = 0 /\ whole = FALSE
    /\ out = Cursor(0, 0, FALSE)

\* X_build: exitf where bipa_build_X fails
BuildIt ==
    /\ pc = "new"
    /\ built' = Build(job.fmt, job.val, job.val, built)
    /\ pc' = IF built'.ok THEN "built" ELSE "exitf"
    /\ UNCHANGED <<job, src, start, whole, out>>

\* the bytes travel (external)
Give(lead, bytes) ==
    /\ src' = lead \o bytes
    /\ start' = Len(lead)
    /\ pc' = "given"
    /\ UNCHANGED <<job, built, out>>
GiveWhole ==
    /\ pc = "built"
    /\ \E lead \in Leads, tail \in Tails :
          /\ job.own \/ tail = << >>
          /\ Give(lead, built.bytes \o tail)
    /\ whole' = TRUE
GiveCut ==
    /\ pc = "built"
    /\ \E lead \in Leads, n \in 0..(Len(built.bytes) - 1) :
          Give(lead, SubSeq(built.bytes, 1, n))
    /\ UNCHANGED whole
GiveNoise ==
    /\ pc = "new" /\ job.noisy
    /\ \E lead \in Leads, bytes \in Noise : Give(lead, bytes)
    /\ UNCHANGED whole

\* bipa_parse_X; X_parse is the one that starts at 0, and calls exitf when it fails
ParseIt ==
    /\ pc = "given"
    /\ \E past \in BOOLEAN :
          out' = Parse(job.fmt, << >>, src, Cursor(start, built.left, past))
    /\ pc' = IF out'.ok THEN "parsed" ELSE "failed"
    /\ UNCHANGED <<job, built, src, start, whole>>

\* X_free
FreeIt ==
    /\ pc = "parsed"
    /\ out' = [out EXCEPT !.blocks = @ - Freed(job.fmt, out.val)]
    /\ pc' = "freed"
    /\ UNCHANGED <<job, built, src, start, whole>>

Next == BuildIt \/ GiveWhole \/ GiveCut \/ GiveNoise \/ ParseIt \/ FreeIt

Spec == Init /\ [][Next]_vars
-----------------------------------------------------------------------------
\* What was built whole is parsed to the same value, up to its last byte and
\* not further, unless malloc fails (build and parse of every macro).  When
\* malloc fails the parse fails, or a union with a void tag gives that kind.
RoundTrip ==
    whole => /\ pc = "failed" => out.left = 0
             /\ pc = "parsed" /\ (job.tagged \/ out.left > 0)
                  => out.val = job.val /\ out.at = start + Len(built.bytes)

\* Whatever bytes a parse accepts, building the value it gives makes those
\* bytes again: nothing of them is dropped, reordered or made up.  (Packed
\* fields that leave bits of their number unused would drop those.)
Rebuilt ==
    pc = "parsed" =>
        Build(job.fmt, out.val, out.val, EmptyBuf(-1)).bytes = SubSeq(src, start + 1, out.at)

\* A parse that fails leaves the cursor where it was, so that the caller can
\* try something else there: the unions and the arrays rely on it.
CursorKept == pc = "failed" => out.at = start

\* Of what a successful parse allocated, bipa_free_X frees every block, once,
\* when no kind of a union can be given up after its tag has matched: with a
\* void tag the kind given up keeps what it allocated.
NothingOrphaned ==
    pc = "freed" => /\ job.tagged => out.blocks = 0
                    /\ out.blocks >= 0

\* No part of what was built is taken for the whole, not even where memcmp
\* of an array's "while" reads past the end of the source.
TruncationRefused ==
    (pc = "parsed" /\ job.own /\ job.tagged /\ ~whole /\ built.bytes # << >>) => FALSE

\* The builders of numbers double the capacity once, the ones of strings as
\* often as needed: no byte is written past it.
FitsRoom == built.fits
=============================================================================
