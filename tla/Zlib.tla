-------------------------------- MODULE Zlib --------------------------------
(***************************************************************************)
(* What deflate_dumb writes, given to inflate: the writer of module        *)
(* Deflate, then the reader of module Inflate on the writer's blocks.      *)
(***************************************************************************)
EXTENDS Deflate

VARIABLES stream, cut, xnfo, header, rpc, at, has, cur, sym, r, last_at

reader == <<stream, cut, xnfo, header, rpc, at, has, cur, sym, r, last_at>>

\* the cmf and flg that deflate_dumb writes
Written == [cm |-> 8, cinfo |-> 0, fdict |-> FALSE]

R == INSTANCE Inflate WITH pc <- rpc, Streams <- {}, Headers <- {Written}

ZlibInit ==
    /\ Init
    /\ stream = << >> /\ cut = 0 /\ xnfo \in BOOLEAN /\ header = Written
    /\ rpc = "none" /\ at = 0 /\ has = 0 /\ cur = 0 /\ sym = 0 /\ r = << >> /\ last_at = 0

\* the caller passes the writer's buffer on
PassOn ==
    /\ pc = "done" /\ rpc = "none"
    /\ stream' = blocks /\ rpc' = "header"
    /\ UNCHANGED <<vars, cut, xnfo, header, at, has, cur, sym, r, last_at>>

Write == Next /\ UNCHANGED reader
Read == R!Next /\ UNCHANGED vars

ZlibNext == Write \/ PassOn \/ Read

ZlibSpec == ZlibInit /\ [][ZlibNext]_<<vars, reader>>
-----------------------------------------------------------------------------
(* Properties *)

\* inflate of deflate_dumb of a source is that source, read with its trailer at the writer's last
\* four bytes, and nothing but a lack of memory stops the reader: for every source that is not a
\* number of full blocks.
RoundTrip ==
    /\ rpc = "done" => /\ r = [i \in 1..n |-> i - 1]
                       /\ xnfo => last_at = wrote - 4
    /\ n % BLOCK_MAX # 0 => rpc \notin {"exitf", "lost"}
=============================================================================
