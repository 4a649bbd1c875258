----------------------------- MODULE RangeLocks -----------------------------
(***************************************************************************)
(* Open descriptions of namespace.cpp: a position and the byte ranges      *)
(* locked through it, shared by the handles that dup made from one open.   *)
(* Ranges are half-open, up to one past the largest signed offset; they    *)
(* are kept sorted, disjoint and joined.  Everything runs under the        *)
(* container's mutex.  The ghosts byte and exact follow a definition byte  *)
(* by byte and in unbounded integers.                                      *)
(***************************************************************************)
EXTENDS Integers, FiniteSets, SequencesExt

CONSTANTS
    Tokens,       \* handle tokens
    Files,        \* inodes of one view
    Descriptions, \* cursors that opens may make
    MaxOffset,    \* INT64_MAX
    MaxSize,      \* 256 KiB
    MaxRanges,    \* 128 lock ranges of a description
    Calls         \* what the handles of this instance are used for

VARIABLES
    handles,   \* token to description, <<>> when closed
    desc,      \* description: file, append flag, position, locks
    size,      \* bytes of each file
    byte,      \* description to the mode of each byte, by definition
    exact      \* description to its position, by definition

vars == <<handles, desc, size, byte, exact>>

Offsets == 0..MaxOffset
Modes == {"shared", "exclusive"}
Fresh(f, a) == [file |-> f, append |-> a, pos |-> 0, locks |-> <<>>]
Live == {t \in Tokens : handles[t] # <<>>}
Open(c) == \E t \in Live : handles[t] = <<c>>
Of(t) == handles[t][1]

Init ==
    /\ handles = [t \in Tokens |-> <<>>]
    /\ desc \in [Descriptions -> {Fresh(f, FALSE) : f \in {CHOOSE f \in Files : TRUE}}]
    /\ size \in [Files -> {1}]
    /\ byte = [c \in Descriptions |-> [b \in Offsets |-> "none"]]
    /\ exact = [c \in Descriptions |-> 0]

-----------------------------------------------------------------------------
(* try_lock_range                                                           *)

\* One past the last byte; a length of zero is the rest of the offset space.
End(start, length) == IF length = 0 THEN MaxOffset + 1 ELSE start + length
InSpace(start, length) == start <= MaxOffset /\ (length = 0 \/ length <= MaxOffset + 1 - start)

\* A plausible slip: a range that ends at another's last byte does not meet it.
ConflictsShort(r, mode, start, end) ==
    start < r.end - 1 /\ r.start < end /\ (mode = "exclusive" \/ r.mode = "exclusive")
\* Ranges that share a byte conflict unless both are shared.
Conflicts(r, mode, start, end) ==
    start < r.end /\ r.start < end /\ (mode = "exclusive" \/ r.mode = "exclusive")

\* The loop over the handles: another description of the same file.
Refused(c, mode, start, end) ==
    \E t \in Live :
        /\ Of(t) # c /\ desc[Of(t)].file = desc[c].file
        /\ \E r \in Range(desc[Of(t)].locks) : Conflicts(r, mode, start, end)

\* A plausible slip: what lies behind the range goes with it.
CutTailLost(r, start, end) ==
    IF start >= r.end \/ r.start >= end THEN {r}
    ELSE IF r.start < start THEN {[r EXCEPT !.end = start]} ELSE {}
\* What remains of a range beside the one that is set.
Cut(r, start, end) ==
    IF start >= r.end \/ r.start >= end THEN {r}
    ELSE (IF r.start < start THEN {[r EXCEPT !.end = start]} ELSE {})
         \union (IF end < r.end THEN {[r EXCEPT !.start = end]} ELSE {})

\* The sorted ranges with neighbours of one mode joined.
Normalized(ranges) ==
    FoldLeft(LAMBDA acc, r : IF acc # <<>> /\ Last(acc).end = r.start /\ Last(acc).mode = r.mode
                             THEN Front(acc) \o <<[Last(acc) EXCEPT !.end = r.end]>>
                             ELSE Append(acc, r),
             <<>>, SetToSortSeq(ranges, LAMBDA a, b : a.start < b.start))
NextLocks(c, mode, start, end) ==
    Normalized(UNION {Cut(r, start, end) : r \in Range(desc[c].locks)}
               \union (IF mode = "unlock" THEN {} ELSE {[start |-> start, end |-> end, mode |-> mode]}))

\* By definition: the bytes of the range get the mode, unless another description of the file has one of
\* them in a mode that excludes it, or the runs of equal bytes would be too many.
Given(c, mode, start, end) == [b \in Offsets |-> IF start <= b /\ b < end
                                                 THEN IF mode = "unlock" THEN "none" ELSE mode
                                                 ELSE byte[c][b]]
Runs(m) == {b \in Offsets : m[b] # "none" /\ (b = 0 \/ m[b - 1] # m[b])}
Grantable(c, mode, start, end) ==
    /\ mode # "unlock" =>
           ~ \E d \in Descriptions \ {c}, b \in start..(end - 1) :
                 /\ Open(d) /\ desc[d].file = desc[c].file
                 /\ byte[d][b] = "exclusive" \/ (byte[d][b] = "shared" /\ mode = "exclusive")
    /\ Cardinality(Runs(Given(c, mode, start, end))) <= MaxRanges

TryLockRange(t, mode, start, length) ==
    LET c == Of(t)
        end == End(start, length)
        next == NextLocks(c, mode, start, end)
        granted == ~(mode # "unlock" /\ Refused(c, mode, start, end)) /\ Len(next) <= MaxRanges
    IN  /\ "lock" \in Calls /\ t \in Live
        /\ InSpace(start, length)
        /\ desc' = IF granted THEN [desc EXCEPT ![c].locks = next] ELSE desc
        /\ byte' = IF Grantable(c, mode, start, end) THEN [byte EXCEPT ![c] = Given(c, mode, start, end)]
                   ELSE byte
        /\ UNCHANGED <<handles, size, exact>>

\* The commands fs-hlock, through try_lock, and fs-hrange-lock.
FsHLock(t, mode) == mode \in Modes \union {"unlock"} /\ TryLockRange(t, mode, 0, 0)
FsHRangeLock(t, mode, start, length) == mode \in Modes \union {"unlock"} /\ TryLockRange(t, mode, start, length)

-----------------------------------------------------------------------------
(* Handles                                                                  *)

OpenFile(t, f, append) ==
    /\ t \notin Live
    /\ \E c \in Descriptions :
           /\ ~Open(c)
           /\ handles' = [handles EXCEPT ![t] = <<c>>]
           /\ desc' = [desc EXCEPT ![c] = Fresh(f, append)]
    /\ UNCHANGED <<size, byte, exact>>

\* The new handle shares the description.
Dup(t, u) ==
    /\ t \in Live /\ u \notin Live
    /\ handles' = [handles EXCEPT ![u] = handles[t]]
    /\ UNCHANGED <<desc, size, byte, exact>>

\* The description goes with its last handle.
Close(t) ==
    /\ t \in Live
    /\ handles' = [handles EXCEPT ![t] = <<>>]
    /\ IF \E u \in Live \ {t} : handles[u] = handles[t] THEN UNCHANGED <<desc, byte, exact>>
       ELSE /\ desc' = [desc EXCEPT ![Of(t)] = Fresh(@.file, FALSE)]
            /\ byte' = [byte EXCEPT ![Of(t)] = [b \in Offsets |-> "none"]]
            /\ exact' = [exact EXCEPT ![Of(t)] = 0]
    /\ UNCHANGED size

-----------------------------------------------------------------------------
(* Positions                                                                *)

Signed == -(MaxOffset + 1)..MaxOffset
Word == 2 * (MaxOffset + 1)

\* A plausible slip: the most negative offset is negated as it is, and stays negative.
MagnitudeWraps(offset) == IF offset = -(MaxOffset + 1) THEN 0 ELSE -offset
\* The size of a negative offset, which has no negation in its own width.
Magnitude(offset) == (((-(offset + 1)) % Word) + 1) % Word

\* Seek: the position, or the old one when the call fails.
SeekResult(old, base, offset) ==
    IF base > MaxOffset THEN old
    ELSE IF offset < 0 THEN IF Magnitude(offset) <= base THEN base - Magnitude(offset) ELSE old
    ELSE IF offset <= MaxOffset - base THEN base + offset ELSE old

Seek(t, offset, origin) ==
    LET c == Of(t)
        base(p) == CASE origin = "set" -> 0 [] origin = "cur" -> p [] origin = "end" -> size[desc[c].file]
        sum == base(exact[c]) + offset
    IN  /\ "move" \in Calls /\ t \in Live
        /\ desc' = [desc EXCEPT ![c].pos = SeekResult(@, base(@), offset)]
        /\ exact' = [exact EXCEPT ![c] = IF sum \in Offsets THEN sum ELSE @]
        /\ UNCHANGED <<handles, size, byte>>

\* handle_read_next: at most the bytes there are.
ReadNext(t, count) ==
    LET c == Of(t)
        got(p) == IF p >= size[desc[c].file] THEN 0
                  ELSE IF count < size[desc[c].file] - p THEN count ELSE size[desc[c].file] - p
    IN  /\ "move" \in Calls /\ t \in Live
        /\ desc' = [desc EXCEPT ![c].pos = @ + got(@)]
        /\ exact' = [exact EXCEPT ![c] = @ + got(@)]
        /\ UNCHANGED <<handles, size, byte>>

\* handle_write_next: at the position, or at the end of the file for a description opened to append.
WriteNext(t, count) ==
    LET c == Of(t)
        f == desc[c].file
        at(p) == IF desc[c].append THEN size[f] ELSE p
        fits(p) == at(p) <= MaxSize /\ count <= MaxSize - at(p)
    IN  /\ "move" \in Calls /\ t \in Live /\ count > 0
        /\ size' = IF fits(desc[c].pos) /\ at(desc[c].pos) + count > size[f]
                   THEN [size EXCEPT ![f] = at(desc[c].pos) + count] ELSE size
        /\ desc' = IF fits(desc[c].pos) THEN [desc EXCEPT ![c].pos = at(@) + count] ELSE desc
        /\ exact' = IF fits(exact[c]) THEN [exact EXCEPT ![c] = at(@) + count] ELSE exact
        /\ UNCHANGED <<handles, byte>>

\* handle_truncate: the file's size; positions stay where they are.
Truncate(t, n) ==
    /\ "move" \in Calls /\ t \in Live
    /\ size' = [size EXCEPT ![desc[Of(t)].file] = n]
    /\ UNCHANGED <<handles, desc, byte, exact>>

Next ==
    \/ \E t \in Tokens, mode \in Modes \union {"unlock"} :
           \/ FsHLock(t, mode)
           \/ \E start, length \in 0..(MaxOffset + 1) : FsHRangeLock(t, mode, start, length)
    \/ \E t \in Tokens, f \in Files, a \in BOOLEAN : OpenFile(t, f, a)
    \/ \E t, u \in Tokens : Dup(t, u)
    \/ \E t \in Tokens : Close(t)
    \/ \E t \in Tokens, o \in Signed, from \in {"set", "cur", "end"} : Seek(t, o, from)
    \/ \E t \in Tokens, n \in 0..MaxSize : ReadNext(t, n) \/ WriteNext(t, n) \/ Truncate(t, n)

Spec == Init /\ [][Next]_vars

-----------------------------------------------------------------------------
(* What the descriptions promise                                            *)

ModeAt(locks, b) == LET here == {r \in Range(locks) : r.start <= b /\ b < r.end}
                    IN  IF here = {} THEN "none" ELSE (CHOOSE r \in here : TRUE).mode

\* try_lock_range: after any sequence of locks, unlocks, dups and closes the ranges of every open description
\* say of each byte what the granted requests made of it; a request is granted exactly when no other open
\* description of the file excludes it, and the ranges are as few as the bytes allow.
LocksExact ==
    \A c \in Descriptions :
        Open(c) => /\ \A b \in Offsets : ModeAt(desc[c].locks, b) = byte[c][b]
                   /\ Len(desc[c].locks) = Cardinality(Runs(byte[c]))

\* seek, handle_read_next, handle_write_next: a position is the sum that unbounded integers give, from the most
\* negative offset to the largest, and never leaves the signed offset space.
PositionsExact == \A c \in Descriptions : Open(c) => desc[c].pos = exact[c] /\ exact[c] \in Offsets
=============================================================================
