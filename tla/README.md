# Verification of bidoof

bidoof is a C "binary doofery" kit: a header-only core (`src/bidoof/base.h`), small generic
libraries (`src/bidoof/utils`) and tools for concrete formats (`src/bidoof/tools`), from which a
program like `src/example.c` is assembled and built by `src/run` and `src/Makefile`. This
directory holds TLA+ modules that model its parts, TLC configurations that check them on small
instances, and TLAPS proofs that hold for every instance. Paths below are relative to
`src/bidoof` unless they start with `src/`.

## 1. Inventory

| Part | Source | State it keeps | Operations | Talks to |
|---|---|---|---|---|
| dyarr | `utils/dyarr.h`, `base.h` 357-366 | structs `{ptr, len, cap}`, the heap | clear, resize, push, pop, insert, remove, replace; bufcpy, bufcat | everything below allocates with it |
| try_catch / exitf | `base.h` 135-148 | `catch_stack`, a global dyarr of `jmp_buf` | try_catch, exitf | every tool reports errors with exitf |
| temporary and plain files | `base.h` 110-128, 497-535 | none | with_buf_as_*, file_read, file_write, dir_list | stdio, exitf |
| strings, numbers, paths | `base.h` 357-495, 537-562 | none | buf*, parsenum, peek*, poke*, path_* | dyarr, exitf |
| printing | `base.h` 163-351 | none | xxd, xxdiff, xxdhi, putb, putbhi, binstr | stdout |
| command line | `base.h` 568-630, `src/example.c` | none | make_main, make_cmd, make_arg_* | the tools |
| bipa | `utils/bipa.h`, `base.h` 638-659 | cursor `at`, growing `res` | build, parse, dump, bytesz, free of structs, unions, arrays, packed fields, strings | dyarr, malloc |
| buizel | `utils/buizel.h` | bit reader, bit writer | read, left, align, write, right, pad | dyarr |
| paras | `utils/paras.h` | cursor, label table | scan, asmbl, disasm | dyarr |
| frame | `utils/frame.h` | `Frame`, X connection, function statics | frame_create, _loop, _redraw, _close, _destroy | X server, user callbacks, threads |
| views | `tools/views.h` | one frame | view_rgba, view_rgb | frame |
| images | `tools/images.h` | png chunks | parse, build, filter, unfilter, add chunk | bipa, compressions, checks |
| compressions | `tools/compressions.h` | bit accumulator, output | inflate, deflate_dumb | dyarr, checks |
| archives | `tools/archives.h` | zip_data: two arrays and an end record | reserve, add, get, fix entries | bipa, checks |
| jvm | `tools/jvm.h` | class file, constant pool | find and add members, attributes, code | bipa, paras |
| encodings, encryptions, checks | `tools/*.h` | none | base64, utf8, rot, vigenere, crc32, adler32 | dyarr |
| barcodes | `tools/barcodes.h` | - | an empty stub | - |

What is hard, and what makes each part correct:

* **dyarr.** realloc moves blocks or fails; pointers into arrays outlive calls; the sizes are
  unsigned. Correct when sizes and blocks agree, each block has one owner, pointers stay valid
  until a real growth, and the arrays behave as sequences even on failure.
* **try_catch.** The stack of jmp_bufs and the C stack are only tied by discipline: the one who
  finishes pops "the top". Correct when an error reaches the innermost scope being tried and
  never a scope that is gone.
* **frame.** The loop blocks in one thread, requests come from callbacks and other threads
  through unlocked statics, creation fails at several points. Correct when nobody uses a closed
  connection, nothing leaks, only frame_close ends the loop and it does.
* **bipa, archives, jvm, images.** Partial failure of nested parsers and builders; counts kept
  beside arrays; handles that become stale. Correct when parse inverts build, a failed parse
  leaves the cursor where it was, and counts match arrays.
* **compressions, buizel.** Bits carried between bytes, block boundaries, sizes computed ahead.
  Correct when the reader inverts the writer and the output fits.
* **encodings, encryptions, checks, strings.** Pure functions, correct against a reference
  definition; boundaries (empty input, last position, digit 0).

`PROJECT.json` lists each hazard at its line, with the properties that cover it or the reason
why none does.

## 2. Modules

| Module | Models | How |
|---|---|---|
| `ArrayStore` | what dyarr promises | abstract: each array is a finite sequence, a failed call is a stuttering step |
| `Dyarr` | `utils/dyarr.h`, bufcpy, bufcat, buf_free | detailed: structs, blocks, cells, and a pointer the caller keeps |
| `MCDyarr` | - | two arrays over three blocks, for TLC |
| `DyarrProofs` | - | memory safety and the refinement of `ArrayStore`, for every instance |
| `StructuredExceptions` | what try_catch imitates | abstract: a stack of scopes, an error goes to the innermost one being tried |
| `TryCatch` | the macros of `base.h` 135-148 | detailed: scopes, and the stack of jmp_bufs that is pushed and popped on its own |
| `MCTryCatch` | - | nesting up to six, for TLC |
| `TryCatchProofs` | - | invariant and refinement for every depth |
| `Frame` | `utils/frame.h` 210-387 | the loop thread, helper threads, the server's queue and atoms |
| `MCFrame` | - | two helper threads, for TLC |
| `FrameProofs` | - | the thread-safety invariants for any number of helpers |
| `Deflate` | `tools/compressions.h` 321-360, deflate_dumb | the writer, one block at a time |
| `Inflate` | `tools/compressions.h` 39-319, inflate | the reader, as positions in bits of the parts of a stream |
| `InflateProofs` | - | the reader, for every stream and every cut of it |
| `Zlib` | - | the reader composed with the writer: what is written, read back |
| `ZlibProofs` | - | the writer's blocks and the round trip, for every block size and source |
| `MCZlib`, `MCInflate` | - | small blocks, and streams of every readable and some unreadable kinds, for TLC |
| `Bipa` | `utils/bipa.h`, the formats' macros | operators: a format is data; build, parse, free and bytesz over it |
| `BipaType` | `base.h` 638-659, adapt_bipa_type | the life of one value: built, given with other bytes around it, parsed, freed |
| `ClassFile` | the formats of `tools/jvm.h` | as data for `Bipa` |
| `MCBipa` | - | values of every shape of format the library uses, for TLC |
| `Growth` | `utils/dyarr.h` as Zip and Jvm need it | an array is its items and its capacity; a call may fail |
| `Zip` | `tools/archives.h`, making an archive | two arrays, the end record, and the entries a caller holds |
| `ZipFile` | the formats of `tools/archives.h` | what `Zip` makes, built and parsed with `Bipa` |
| `Jvm` | `tools/jvm.h`, editing a class | pool, fields, methods and attributes, with the counts beside them |
| `MCZip`, `MCJvm` | - | two entries; two names of which one begins as the other, for TLC |
| `GrowthProofs` | - | arrays in step, handles, and counts and sizes beside them, of `Zip` and of `Jvm`, for every instance |
| `Encodings`, `Ciphers`, `Checks` | `tools/encodings.h`, `encryptions.h`, `checks.h` | operators, each beside a definition of what the standard says |
| `Totals` | - | the sum of a sequence of numbers |
| `Buizel` | `utils/buizel.h` | operators on the state of a reader and of a writer |
| `Filters` | `tools/images.h`, the filters | operators on the rows of an image |
| `Png` | `tools/images.h`, the chunks | chunks over `Bipa` |
| `Text`, `Paras` | parsenum and path_* of `base.h`; `utils/paras.h` | operators on sequences of characters |
| `Huffman` | `tools/compressions.h`, the code tables | operators: lengths, codes, and the search for a symbol |
| `Codecs` | the calls for both ways of each of these | something is made, then read back |
| `Library` | the chunks of an image, and code | the same of what is made with `Bipa` and `Paras` |
| `MCCodecs` | - | inputs at the limits of every codec, for TLC |
| `OperatorProofs` | - | induction, and facts about sequences and sums that several proofs need |
| `CodecsProofs` | - | what is made is what the standards say, and every codec undone, for every text |

### Dyarr

`arr[a]` is the C struct of array `a`, `heap[b]` the cells of the block at address `b`, or
`Free`. One action per macro: `Resize`, `Push`, `Pop`, `Insert`, `Remove`, `Replace` (which is
also `bufcat`), `Clear` (also `buf_free`), `BufCpy`. `Resizes` is the set of memories a
successful realloc can leave: the block stays where it is or moves to any free address, and what
is new holds `Junk`; a call that needs to grow may also fail (`OutOfMemory`) and then changes
nothing. memmove and memcpy are `Moved` and `Copied`, applied in the code's order. `held` is a
pointer some call returned (array, block, offset); the caller may keep it and `Write` through
it, which is how `*dyarr_push(a) = v` fills its element; the operations that reallocate take it
away, as the comment "can invalidate previously held" of `tools/archives.h` 138-140 asks of its
callers.

Preconditions taken from the source: dyarr_resize is not given 0 (`utils/dyarr.h` 28), nor less
than `len`; arrays that grow own their memory (a view made with mkbuf has cap 0 and is never
grown); dyarr_replace copies from another array; ranges are inside the array (`utils/dyarr.h`
38, "doesn't check bounds"). Arithmetic on `size_t` is taken unbounded: with `MaxCap` elements
nothing wraps, and sizes near 2^64 bytes cannot be allocated.

bufcpy of an empty buf asks malloc for 0 bytes. Where that gives NULL it calls exitf; where it
gives a block, that block has no cells, the struct's cap is 0, and neither buf_free nor
dyarr_clear ever frees it (`NoCells`). `OwnedOnce` leaves out such blocks, and no others.

### TryCatch

`scopes` is the C stack, outermost first: `"call"` for a function, and for each try_catch
statement `"trying"` while its expression runs, `"body"` after it, `"handler"` in the else
branch. A jmp_buf is the position of its statement among the scopes. `EnterTry` pushes,
`ExprDone` is the loop condition evaluated for the first time (it pops the top, whatever it is),
`StatementDone` the second evaluation (or a break), which does not pop, `Return` unwinds a
function, out of bodies and handlers, and `Exitf` pops and jumps, or ends the program. The tried
text is an expression, so a `"trying"` scope is left by its value or by longjmp only. One
thread; `catch_stack` is an ordinary global in the code.

### Frame

The loop thread goes through `pc` = open, visual, colormap, window, map, context, current
(frame_create, one step for each call that can fail), intern, protocols, loop and blocked
(frame_loop), destroy and disconnect (frame_destroy), and done; `"crashed"` is the end of the
whole program over a display that is NULL or closed. `conn` is what became of the connection and
`dpy` whether `self->dpy` is non-NULL: the two differ after a failure to choose a visual. `held`
is which of `self->win` and `self->glc` are not 0, `res` what really exists: XCreateWindow names
the window before the server has made it, so an identifier may be of nothing. Errors of requests
come in some time later (`err`), at one of the tests of `_errreceived` or at none; `Faults` are
the parts of frame_create that can fail. The colormap is never freed by itself: it goes with the
connection, as the window does; the context has to be destroyed.

`at[p]` and `fn[p]` place each process inside frame_redraw or frame_close; the test and the
setting of `once` and each look-up of an atom are separate steps, because nothing locks the
statics. A callback runs the two functions in the loop thread (`at[Loop]`); the helpers call them
whenever they like, before frame_create, after frame_destroy and in between, because nothing in
frame.h keeps them out, and frame_destroy waits for none of them. A call that gets
to the display before there is one, or after it was closed, ends the program (`Crash`). With
`self->win` still 0 the message goes to the window that the
pointer is in (0 is PointerWindow), and is none of the frame's.

XSendEvent only appends to the output buffer of the connection (`out`). The buffer is sent when
the loop finds nothing to read and blocks (`Block`) and by a look-up of an atom that Xlib does
not remember (`LookUp`, both ways). Nothing in frame.h sends it otherwise, so what a thread asks
while the loop is blocked stays there until another event wakes the loop up. Xlib also sends a
buffer that is full (16 kB, several hundred of these messages), which is left out. `queue` is the
connection's queue of events, in order; `Occurs` is the outside: exposures, input, the close
button. Both examples' ends are modelled: after a frame_create that returned false the program
leaves (main_nothread) or runs frame_destroy all the same (the cleanup handler of main_threaded).
`asked` remembers, for the properties only, whether something was asked of a frame that had a
window (`"owed"`) and whether it was served since; a rendering that an exposure causes does not
count. Calls into Xlib are atomic, as libX11 makes them since 1.8 by locking each display. vi,
which XFree would free, is left to the C library, as the code does.

### Deflate, Inflate, Zlib

`Deflate` has one action per part of deflate_dumb: `Alloc` (the one allocation, and cmf and
flg), `Block` (one turn of the loop, with the header byte, len, its complement and the copy),
`Finish` (the checksum). A block is the record of the offset, the length and the final bit;
`room` is r.cap and `wrote` r.len, so that nothing written beyond the allocation goes unseen.

`Inflate` reads a stream whose blocks are known with their sizes in bits. `at` and `has` are the
code's: the byte cursor, and the number of bits in `acc` that come before it. `Acc` and `Drop`
are the macros `_accbits` and `_dropbits`. The places of things are those of RFC 1950 and 1951
(`SymEnds`, `BlockEnd`, `EndOf`, `Trailer`, external definitions), and `Expansion` is the
reference for what a stream stands for, by what each symbol and each block adds (`Made`,
`Unpacked`). Streams are `WellFormed`, as RFC 1951 has it: only the last block is final, a coded
block ends with the end symbol and has no other, and no distance reaches before the first byte;
and they are `Complete`: the last block is final. `StreamsAssumption` says both of the constant
`Streams`; the streams that Zlib's writer makes need not be complete. Where the reader looks for
a block where none starts it is `"lost"`: the code would go on with bits that are not what it
takes them for, and nothing is said of what it returns. The source may be cut after any byte
(`cut`). A symbol is looked for with a look-ahead of 15 bits, a distance with one of 9, codes of
one bit and longer distance codes are not found, fixed codes are refused: `Readable` says which
streams this reader is made for. The tables of a coded block are one step (`CodeTables`) of so
many bits: the construction of the codes from their lengths and the search for a symbol in them
are the operators of `Huffman`, which Inflate does not call; tables that use a code they did not
declare (`found` FALSE) are refused. `header` has what the first two bytes say: another method
than 8, a window beyond 32 K and a preset dictionary are refused (`Refused`), the check bits are
not looked at. Block type 3, which no stream has, is refused as fixed codes are. Streams in
which a repeat instruction crosses from the literals to the distances (the FIXME of line 157)
are in neither. A caller that passes `xnfo` is assumed to have a source that does not end inside
its trailer, which peek32be reads unchecked.

`Zlib` runs the writer, hands its blocks to the reader (`PassOn`) and runs the reader.

### Bipa, BipaType, ClassFile

The macros of bipa.h generate a builder, a parser, a free and a bytesz for a format that is
written as macro arguments. Here a format is a record (`UInt`, `Cstr`, `Lstr`, `Packed`,
`Struct`, `Union`, `Array`, `Void`), and `Build`, `Parse`, `Freed` and `Bytesz` recurse over it
as the generated functions call each other. A builder's state is `res` with its capacity, and
`fits`, which becomes false on a byte written outside it; a parser's is the cursor `at`, how
many allocations still succeed and how many blocks were allocated. A length or a "while", which
are C expressions over `self`, are given by the path of the field they read: `Count`, `Flagged`,
`Signature`, `More` and `Until` are the ones the library uses. The parser of an array pushes an
item before it parses it; when that fails bipa_parse_one puts the cursor back, and leaves the item
in the count of a value that its caller then has no use for (what it allocated is not freed, and
`NothingOrphaned` is about parses that succeed); a union gives a kind up and
tries the next one when the tag does not match or malloc fails.

`BipaType` is one value's life: `BuildIt`; the bytes are given whole, moved, with others behind
them (`GiveWhole`), cut after any byte (`GiveCut`), or replaced (`GiveNoise`); `ParseIt`;
`FreeIt`. `Budgets` bounds the allocations that succeed.

What the model showed of bipa.h: a packed format drops the bits none of its fields has
(jvm_class_access_flags names 15 of 16); when malloc fails in a union whose last kind has a void
tag, the parse succeeds with that kind, and the blocks of the kind it gave up are lost; bytesz
of a Cstr does not count its sentinel.

### Growth, Zip, ZipFile, Jvm

`Pushes`, `Reserves` and `MayFail` say what dyarr_push and dyarr_resize may leave of an array:
Dyarr has the blocks, here only items and capacity are needed. An item is used by pointer;
`held` are the entries or members a caller has pointers to, and a growth takes away those of the
array that grew, as the comment of `tools/archives.h` 138-140 asks.

Zip has an action for each function of archives.h that changes an archive or hands an entry out:
reserve_entries, add_entry, get_entry, the three setters of an entry (name, extra field, data),
fix_entry, fix_central_dir and central_dir_comment. A call may fail between the two arrays; then
`failed` holds and the arrays stay as it left them. `ZipFile` builds what was made, and reads it
back in two ways: with zip_data's own parser, and as other programs do, from the end record to the
directory to the files. W16 and W32 stand for 2^16 and 2^32, so that a length that does not fit
its 16-bit field happens in the model: `Readable` then expects the part of it that the field tells
(`Fitting`); nothing reaches W32 in the run. zip_central_dir_comment frees the old comment before
it copies the new one, so when bufcpy calls exitf the record is left with a pointer to a freed
block (`Dangling`). `fixed` and `listed` remember which entries, and whether the directory, were
fixed since something they tell of changed: `Paired` says of those that the sizes, the checksum,
the offset of the local file and the record of the end are what they are of, besides that the two
arrays are the same entries in the same order.

Jvm has the three kinds of additions and look-ups. jvm_get_* compare an index with
`constant_pool_count`, which lets one index behind the pool through, and a name with memcmp over
the constant's length: `ConstantsAt` and `Called` give every answer these reads may have. A new
member is not zeroed; the caller sets all of it. jvm_list_* collect names and change nothing.

### Codecs and what it uses

`Make` is a call of the function for one way and `Read` of the function for the other; a task
says of which codec, and with what. A function that may read behind its source or call exitf
returns a set of results, `Exits` (empty) for exitf. The loops of the code are recursive
functions here, never recursive operators, so that theorems can be stated about all that
`Codecs` uses (`PowerOf2` is the 1 << n of the code in that form, for the same reason); only
what goes through `Bipa` and `Paras` (`Library`) has recursive operators. The run `codecs`
checks `LibrarySpec`, the steps of `Codecs` and those two. `Given` says what a task may be:
where the code asks something of its input, it is asked there. Each codec is translated from its
loops and bit operations; beside it stands what a standard says in another way: `IsBase64` over
bits, `LayoutOfUtf8` by the length of the bits of a code point and `IsUtf8` as the grammar of
RFC 3629, `IsCrc32` as the remainder of a division, `IsAdler32` as sums, `Filtered` with the
Paeth predictor of the PNG specification, and `CanonicalBits` of RFC 1951.

`Paras` has the scanner with its cursor, the assembler and the disassembler over instruction
sets that are data (masks, codes, operands), with the two switch instructions, whose padding
bytes the assembler leaves uninitialised (`junk`). `Buizel` has the writer's growth and its
failure half way.

What the models showed here, and where the properties say so by a condition:

* utf8_encode and utf8_decode check neither of the limits of RFC 3629: numbers up to 2^21 - 1
  and the surrogates go both ways. `Standard` says that the bytes always have the layout of the
  standard, and are in its grammar exactly when the number is a scalar value;
* parsenum adds up in a long long and looks for no overflow: from 2^63 on, r * 10 and r << shft
  wrap in the build (`Wraps`) and are undefined in C. `Undone` has numbers below `LongLong` and
  their opposites. The arguments of paras are ints in the same way (`ArgLimit`), and the
  numbers of its tasks fit them;
* parsenum and the scanner of paras.h do not accept the number 0, and take a letter behind a 0
  for a base; the last line of a source without a newline is dropped, blanks before a newline
  are refused (`utils/paras.h` 86), and a failed check behind an operand leaves the cursor
  moved. A line of text is written into the 256 bytes of `_buf` (`utils/paras.h` 160), which the
  model does not bound: the lines of the tasks are shorter;
* buizel_read returns its whole accumulator when it holds at least what is asked, and does not
  drop it, so that pieces within one byte are read wrongly; beyond 24 bits its int shift is
  wrong (line 33); a write that fails leaves the bits that finished the last byte;
* b64_decode takes '=' and newlines in the middle for padding and blanks;
* `p` of the Paeth filter is one byte wide (`tools/images.h` 166): it differs from other
  programs' where a + b - c leaves the byte. And where the byte above and the one at its left are
  as near to p, line 170 takes the one at the left; the PNG specification, which line 66 names,
  takes the one above. The two choices differ exactly when a # c and b - c = 2 (c - a). An image
  with such bytes comes back altered: `NoWrap` and `NoTie` (Filters) leave them out of what is to
  be restored. The tie came up as the one case of the proof that had none;
  png_unfilter does not look at the length of its source. Its images have at least one row and
  one column: with a width of 0 the code writes the first four bytes to a row that has none, and
  dyarr_resize is not to be given 0;
* ROT_ONLY_NUM turns only '0', and a shift below minus the length of a range gives characters
  outside it;
* path_dirname without a '/' has length -1.

## 3. What is checked

All runs set `CHECK_DEADLOCK FALSE`: a program that has ended, a loop without events, arrays
without memory and a stream that was read may all stop.

| Run | Instance | Shows |
|---|---|---|
| `dyarr` | 2 arrays, 3 blocks, 1 value and junk, capacities to 3, first size 1, blocks symmetric | `TypeOK`, `FitsBlock`, `OwnedOnce`, `HeldPointerLive`, and that Dyarr implements ArrayStore |
| `try_catch` | nesting to 6 | `TypeOK`; the jmp_buf stack mirrors the scopes; TryCatch implements StructuredExceptions |
| `frame` | loop and 2 helpers, one call each at any time, 1 outside event, every failure of frame_create | `TypeOK`, `DisplayUsable`, `Released`, `StaticsInitialised`, `OnlyCloseEndsLoop`, `CloseEndsLoop`, `RedrawRenders` |
| `frame_create` | no requests | violated: frame_create answers true for a frame it destroyed |
| `frame_close` | an empty table of atoms | violated: frame_close is never recognised |
| `zlib` | blocks of 3 bytes, sources of 0 to 14 bytes | `TypeOK`, `Partition`, `FitsRoom`, `FinalIsLast` of the writer; `RoundTrip` |
| `inflate` | streams of 1 to 3 blocks, cut at every byte, codes of 1 to 15 bits, one good header and three bad | `TypeOK`, `DecodesExactly`, `ReadableIsRead`, `TrailerFound` |
| `deflate_final` | as `zlib` | violated: full blocks only, none of them final |
| `bipa` | values of all formats, 0 to 99 allocations, cut at every byte, 5 bytes of noise | `RoundTrip`, `Rebuilt`, `CursorKept`, `NothingOrphaned`, `TruncationRefused`, `FitsRoom` |
| `zip` | 2 entries, 16-bit fields modulo 6 and 32-bit fields modulo 65536, capacity 2, names that fit their field and that do not, data that begins like a file | `TypeOK`, `Paired`, `HandlesKept`, `Readable`, `ParsedBack` |
| `codecs` | inputs at the limits of every codec | `Undone`, `Standard`, `ChunksKept`, `BitsKept`, `Reassembled` |
| `jvm_attribute` | capacity 3, two names, an empty pool and one with constants | violated: the index of an added attribute is not its name's |

**Bounds.** Sources of up to 14 bytes in blocks of 3 include the empty one, every remainder,
sizes of full blocks only, and the sizes (7 and more) for which the count of blocks ahead of the
loop and the loop disagree. Streams start their coded blocks at every distance from a byte
boundary that the two table sizes and the texts give, put stored before stored, stored before
coded and coded before both, and include a copy longer than its distance and codes just out of
reach. Three blocks let one array move while the other stays and a copy is made, and let memory
run out; capacity 3 reaches the doubling (1, 2, then a refused 4), an exact growth by insert and
the reuse of spare capacity. Nesting 6 holds a try in a body in a handler in a function called
from a tried expression. Two helpers and the callbacks of the loop thread are enough for one
caller to send while another is between setting `once` and looking up either atom, which takes
two; the third shows that the late one repairs what the early one lost. One outside event is
enough for an exposure, a callback that asks, the close button, and a blocked loop that is woken
up with a message unsent; two of them give 412,943 states instead of 72,422, and nothing new.

The values of `bipa` are those of the comment that presents bipa.h, of all parts of a zip file,
of a class with every kind of constant, with members and attributes, of a code attribute, and
numbers that end around the capacities 8 and 16, where a single doubling is least. They are
parsed at the front of a buffer and behind a lead, with tails that look like one more item. In
`zip` a name of length 2 fits below W16 = 6 and one of length 7 does not; the first entry is
given the short one and the second the long one (`NameOfEach`, a constraint of the module of the
run), and the two arrays grow from one to two entries, each at another time once one of them was
reserved. `codecs` has groups of 3 and 4 with every
rest, the first and last code point of each length, of the surrogates and of Unicode, the corners
of the alphabets, second sums beyond adler32's modulus (the first one passes it from 257 bytes on,
more than TLC's stack takes: that is left to `AdlerStandard`), numbers up to `LongLong`, which is
2^26 here because TLC's integers have 32 bits, images with nothing, one byte and twelve behind
IEND, images of up to 3 by 2 or 2 by 3 with all five filters on each row, programs
of up to three instructions so that a switch starts at every alignment, writes of 0 to 17 bits
up to a growth of the buffer and past its failure, and all lengths of codes up to 4 bits for 3
to 5 symbols.

**Fairness.** `FairSpec` of Frame asks that the loop thread and each helper keep running
(the operating system schedules them). Nobody has to make a call, no outside event has to happen,
and no message is sent that no call of the code sends: whether a look-up sends the buffer is a
choice at each step, and a blocked loop sends nothing.

**Findings.** Four disagreements between the code and its own comments came up while modelling
and are kept as violated runs:

* `utils/frame.h` 271-272: when a step after the choice of a visual fails, frame_create runs
  frame_destroy and then returns *true*; line 6 says it returns false on failure. The caller
  enters frame_loop with a NULL display, which ends the program (`pc = "crashed"` in the model).
* `utils/frame.h` 276: frame_loop looks up WM_PROTOCOLS with only_if_exists before
  XSetWMProtocols creates it. On a server where no client interned it yet, the loop compares
  with 0 ever after and frame_close does not end it; line 11 says it does.
* `tools/compressions.h` 344: bfinal is `len < BLOCK_MAX`, commented "1 for last block"; a
  source whose length is a multiple of 65535 gets no final block, and inflate of it does not end
  where it should.
* `tools/jvm.h` 722: an attribute that is added gets as its name the pool's count after the name
  was pushed. The count is one more than the constants, so the name's index is the count before;
  line 389 says the field is the index of a Utf8 constant. The one stored is of no constant yet,
  or of whatever is pushed next.

Two more facts show in the models and are stated as conditions of properties rather than as runs
of their own: the allocation of deflate_dumb is short from 2 * 65535 + 1 bytes on (`FitsRoom`
holds up to there), and inflate misreads a stored block right after a coded one, because it
drops the rest of a byte but not the whole bytes it has looked ahead (`Readable` excludes it,
and the reader is `"lost"` on it in the `inflate` run).

What the header says of frame_close and frame_redraw (lines 10-11) holds with two conditions when
the atom exists (`AtomExists` TRUE). The race on the statics does no harm: a thread that sees
`once` too early sends a message without atoms that the loop drops, but the thread that set `once`
is still about to send its own. But a message of a thread has to be sent: while the loop is
blocked it may stay in the output buffer for good, since nothing calls XFlush, and then the call
has no effect; `CloseEndsLoop` and `RedrawRenders` say that this is the only way (`[]Unsent`).
From a callback, which runs in the loop thread, both always work once their atoms are known. And
nothing keeps a thread from calling while there is no display: `DisplayUsable` says where the
program may end over that, and that it never does while the frame is made, runs or is taken down.

## 4. What is proved

TLAPS proves the following for every value of the constants, under the named assumptions of the
modules.

* `DyarrProofs!MemorySafety`: `Spec => [](TypeOK /\ FitsBlock /\ OwnedOnce /\ HeldPointerLive)`.
  The conjunction is inductive: FitsBlock needs OwnedOnce (growing one array does not touch
  another's block), HeldPointerLive needs both. The proof has one lemma per operation, over
  lemmas on what a successful realloc leaves (`Resizes`) and on the typing of moved and copied
  cells. It assumes that NULL is not a block, that the first size is positive, and that `Free`
  is not a block's content.
* `TryCatchProofs!CatchStackIsExact`: `Spec => [](TypeOK /\ CatchStackMirrorsScopes)` for any
  `MaxDepth`. The mirror property is inductive given that an entry is pushed above every scope
  and that the innermost scope being tried is always the top entry; that there are at least as
  many scopes as jmp_bufs below any entry (`EntriesBelow`) gives the bound on the stack's length
  in TypeOK.
* `TryCatchProofs!Refinement`: `Spec => ImplementsExceptions`, from that invariant: the top
  jmp_buf is the innermost scope being tried, so Exitf maps to Raise; running out of memory in
  EnterTry maps to Abort.
* `FrameProofs!NoUseAfterClose`: `Spec => DisplayUsable /\ []Released`, for any number of
  helpers, calls, events and faults. `Life` is the inductive strengthening: it ties the pc of the
  loop thread to the state of the connection and of `self->dpy`, says what has been made by each
  step of frame_create, that what exists is held by `self->win` and `self->glc` but for the
  colormap, and what frame_destroy then finds. `DisplayUsable` is an action property: that a
  thread's call crashes only while the frame is not there (`Crash` is enabled where `Usable` is
  false, which `Life` gives at each pc).
* `FrameProofs!StaticsHeal`: `Spec => []StaticsInitialised`, assuming `AtomExists`. The
  strengthening `LookedUp` says that WM_PROTOCOLS stays interned, and that a process about to
  look the second atom up has the first one in its static.
* `FrameProofs!LoopEndsOnRequest`: `Spec => OnlyCloseEndsLoop`. `CloseIsAsked` says that as long
  as nobody has called frame_close, `NobodyCloses`: no message in the queue or the output buffer
  asks to close, no process is inside frame_close, and its static atom was never looked up.
* `ZlibProofs!StoredStream`: `Spec => [](TypeOK /\ Partition /\ FitsRoom /\ FinalIsLast)` for
  any block size and any source. `IInv` says that the blocks end at the cursor or the end of the
  source, that all but a final last one are full (so the cursor is a multiple of the block
  size), and counts what is written by the blocks; the allocation is bounded below for sources
  of one and of two blocks.
* `InflateProofs!TypeCorrect`, `DecodesWhatIsThere`, `FindsTheTrailer`, `ReadsWhatItCan`: `Spec =>
  []TypeOK`, `[]DecodesExactly`, `[]TrailerFound` and `[]ReadableIsRead`, for every set of well
  formed and complete streams, however long, and every cut of them. One inductive invariant,
  `IInv`, has all of it. `Placed` says that the reader is where it takes itself to be: `Position`,
  the 8 * at - has bits it has used, is the end of block `cur` between two blocks
  (`AtBoundary`), 3 bits after it behind a header (`InHeader`), and the end of symbol sym - 1
  between two symbols (`InSymbols`), and in each case `r` is what the stream stands for up to
  there. `TypeOK` bounds `has` by 20 between two symbols, and a stored block leaves none: that is
  why a stored block behind another, or at the front, is found where it is. `Followed`
  (`ReadableIsRead`, where the stream is complete) needs that each accumulation of a whole
  readable stream stays inside it, which the look-ahead of 15 bits does because of the four bytes
  of the trailer (`EnoughWhole`). The loop that copies byte by byte gives `Repeated`, by an
  induction over the copied bytes.
* `ZlibProofs!RoundTripKept`: `ZlibSpec => []RoundTrip`, for any block size and any source. While
  the reader has not started, the writer's invariant above holds; from `PassOn` on, what was
  written stays, the blocks are a well formed stream (complete, unless the source is full blocks
  only), and the reader's invariant is the one of InflateProofs, used through INSTANCE with the
  reader's variables. What the blocks stand for is the source, by an induction over the blocks.
* `FrameProofs!Typing`: `Spec => []TypeOK`, which the theorems above rest on.
* `GrowthProofs!EntriesPaired` and `TypeCorrect`: `Spec => []Paired` and `Spec => []TypeOK`, and
  `GrowthProofs!ReservedKeepsHandles`: `Spec => HandlesKept`, for any number of entries, names and
  contents, any widths of the fields, and every failure of realloc. `IInv` has three parts.
  `InStep` says that the arrays have one length and agree item by item; `Room`, that as long as
  nothing failed both have the capacity that was reserved, so that adding up to there moves
  neither and takes no handle away; `Shape`, that items have just their fields. `TInv` adds
  `Typed` and `Told`: what a fixed entry and a fixed record of the end tell, which needs that the
  data of an entry is what was set, all of it (`Filled`). Offsets and sizes of lists are
  recursive functions over the items: that they are sums modulo W32 and depend on the items they
  add up only is proved by induction, and so is that whatever changes an entry behind them leaves
  them alone.
* `GrowthProofs!CountsKept`: `Spec => []CountsMatch`, if W16 is a positive number and the pools
  that are parsed are sequences: through every order of additions that do not fail, each of the
  counts that go to the file is the length of its array, and that of the pool one more.
  `Counts`, the invariant, says it also of the member a caller is about to change; that counting
  modulo W16 stays in step (`CountedOn`) follows from the uniqueness of division. The one run on
  Jvm checks the property that is violated, so this one has no run; the hypotheses on the
  constants hold of its instance.
* `CodecsProofs!RotUndone`: rot with the opposite shift gives the text back, for every text of
  bytes, every target but ROT_ONLY_NUM, and every shift up to the length of the target's range,
  either way. One lemma per target; C's remainder of a negative number is split by sign.
* `CodecsProofs!VigenereUndone`: vigenere with the opposite key gives the text back, for every
  text of bytes and every key that has a character and none below 'A'. The place in the key
  depends on which characters of the text are letters, and on nothing else (`Places` of
  `Letters`); turning a letter leaves it a letter of its case.
* `CodecsProofs!Utf8Undone`: utf8_decode of utf8_encode is the code points, for all of them below
  2^21, which is what four bytes hold. Each turn of the decoder's loop begins at the start of a
  character and ends behind it; the first byte of each of the four lengths tells how many follow.
* `CodecsProofs!Base64Undone`: b64_decode of b64_encode is the bytes, for every sequence but the
  empty one, which b64_decode refuses. No check refuses what was encoded, the padding counts what
  the last group lacks, and each group of four characters gives its three bytes. Among the lemmas
  are what FlattenSeq of pieces has at each place, for pieces of any lengths and of equal ones.
* `CodecsProofs!PathUndone`: path_dirname and path_basename of what path_join made of a
  directory and a name are the two, for all of them, with or without a slash at the end of the
  directory and on either side of the name.
* `CodecsProofs!NumberUndone`: parsenum reads every spelling of a number that is below
  `LongLong`, in every base it knows, with a sign or without, as that number, and stops behind
  its last digit, whatever is in memory behind it; without a prefix the first digit is no 0,
  which it takes for one (section 2). What the loop has after k digits is the number that the
  first k spell, because it is no larger than the whole and so never wraps (`NotWrapped`); the
  limit is any positive number, 2^63 in C.
* `CodecsProofs!RowsUndone`: png_unfilter gives the pixels back, for every size of image from
  one row and one column on, of four channels, and any filter on each row, and of what
  png_filter_dumb makes. What the loops have restored so far is the pixels so far; each byte is
  then its filtered byte and a prediction from bytes that were restored. Where the Paeth filter
  is used, on images without such bytes as told above.
* `CodecsProofs!TablesUndone`: whatever the lengths of the codes, as long as they fit
  (`CodesFit`), and whatever the symbols, those that are written in the codes of RFC 1951 are
  found one behind the other, by the search that reads the code lengths and by inflate's look-up
  of reversed codes (whose table is taken for large enough). What dico has in next_code is the
  number of RFC 1951, written as a sum. Each code takes its share of the room of 15 bits; that the
  shares before it and its own leave none to a code that begins with it (`CanonRoom`, `NotBoth`,
  `OnlyOne`) is why no other code matches. Codes are compared reversed and by their low bits
  (`Low`, `Mirrored`).
* `CodecsProofs!CodecsUndone`: `Spec => []Undone`, for any tasks that `TasksAssumption` allows. It
  puts the eight of these together: `IMade` (below) says that what was read back is what the
  reader makes of what was made.
* `CodecsProofs!StreamsKept`: `Spec => []BitsKept`, for every sequence of writes, as many
  allocations as succeed, and every sequence of reads. `Filled` and `Holds` say of a writer that
  its bytes have the first L of the bits it was given, in order, with the space that is left and
  inside its capacity; Finish and the growth keep it, and a write whose allocation fails has
  finished the last byte and no more. `ReadsAt` says of a reader that its accumulator is the rest
  of the byte before the cursor; within a read, `ReadUpTo` that the value so far is the bits from
  where it began; over the reads, `ReadSoFar`. That each read asks for more than is left of the
  last byte is what keeps the accumulator below a byte: without it, the piece read is wrong, as
  told in section 2. Reads of more than 31 bits are left out, where the code shifts ints.
* `CodecsProofs!CodecsStandard`: `Spec => []Standard`, for any tasks that `TasksAssumption`
  allows. The invariant, `IMade`, says that what was made is what the codec makes of the task, and
  what was read back what the reader makes of that (`MadeOf`, `ReadOf`); that this is what the
  standard says is a theorem for each codec:
  * `Base64Standard`: the characters but the padding spell the bits of the text in order, then
    zeros. A group of three bytes and its four characters have the same 24 bits, and the bits of
    a sequence of groups are those of the groups in order.
  * `Utf8Standard`: the bytes of one number below 2^21 have the layout of RFC 3629, in the shortest
    form, and are in its grammar if and only if the number is at most 10FFFF and no surrogate; by
    the four lengths, by the bits of each byte, and by the ranges of the second one.
  * `CrcStandard`: crc32 is the remainder of the division bit by bit. The code xors a byte in at
    once and then shifts eight times; the division takes one bit at a time, and both are linear
    over xor, by an induction over the bytes.
  * `AdlerStandard`: the sums, taken modulo 65521 at each byte, are the sums of RFC 1950 taken
    modulo 65521 at the end.
  * `VigenereStandard`: the place in the key at a character is the number of letters before it,
    modulo the length of the key.
* `DyarrProofs!ArraysAreSequences`: `Spec => ImplementsStore`. From the invariant of MemorySafety,
  the first `len` cells of a struct's block are the sequence of ArrayStore; each action on blocks
  and cells maps to the action of that name on sequences, and a failed one to a stutter.

What induction these proofs need is done over least elements: the library's theorem on
well-founded sets says that a set of numbers has one, which gives induction along numbers, and
that a function that is defined from its value at n - 1 has such values (`Least`, `Induct`,
`Recursion` and what follows them in OperatorProofs).

The theorems on the constants rest on the named assumptions only, which TLC evaluates for the
instances. In Zip they are that contents are sequences of numbers, that widths are positive and
that checksums are numbers; in Inflate, the streams above; in Dyarr, what MemorySafety says; in
Codecs, what a task may be (`Given`) and that bytes are behind the text of a number (`Past`).

Left to TLC: the liveness properties, `CloseEndsLoop` and `RedrawRenders` (and with them
fairness), which are out of the prover's reach; and everything over recursive operators, about which
the prover takes no theorems: `Bipa` and with it BipaType (all of its properties), ClassFile,
ZipFile (`Readable`, `ParsedBack`), Png and Paras. `Library` adds these last two to Codecs, and
`ChunksKept` and `Reassembled` are about them only. The theorems on Codecs are about `Spec`, the
steps of Codecs without Library's; the run checks `Undone`, `Standard` and `BitsKept` under
`LibrarySpec`, whose further steps do not touch tasks of the codecs.

## 5. What is left

The plan was to model first the parts everything rests on (`Dyarr`, `TryCatch`, `Frame`), then
the ones that carry state through many steps (`Deflate`, `Inflate`, `Bipa`, `Zip`, `Jvm`), then
the pure functions (`Codecs` and what it uses). All of these are done, and so are the theorems on
all of them but the ones over recursive operators. What could come next: Bipa's builder and parser
as recursive functions, to be proved about; Huffman's operators inside Inflate; and a variant of
TryCatch whose scopes own an open file.

Not modelled, and why:

* the Win32 half of frame.h, whose header is not in the repository, and views, which draws with
  OpenGL between calls that Frame has;
* thread cancellation, by which the main_threaded example ends the loop thread at any point where
  it can be cancelled: Frame has the other ends of both examples;
* png_get_pixels as a whole: it composes unfilter, inflate and the chunks, each modelled on its
  own;
* fixed codes, which inflate refuses, and a repeat instruction that crosses from literals to
  distances, which it marks as not done;
* encryption and digital signatures of zip files, which the header declares and nothing uses,
  and zip_find_by_path, which is not implemented there;
* bufbeg, bufend, buftrim*, which nothing calls (buftrimbeg moves the pointer and keeps the
  length, bufbeg misses the last place of a text and bufend the first);
* jvm_list_* and the dump functions of bipa.h, which only read and print; the printing of
  base.h; plain file access; the command line, which handles one command per process;
* barcodes, an empty stub, and the build scripts.
