--------------------------------- MODULE Heap ---------------------------------
(***************************************************************************)
(* src/src/lib/heap.zig, the heap behind malloc, as functions of a heap:   *)
(*                                                                         *)
(*   head     the header in front of every block: its kind, its span (of a *)
(*            block of a class, the class's width), and its mark, whether  *)
(*            the block in front of it is free                             *)
(*   bins     the free blocks ("holes") by width, each bin a list          *)
(*   spares   the small blocks given back, a list for each class           *)
(*   run      what is left of the run small blocks are cut from            *)
(*   piece    how large the next shared piece is                           *)
(*   pieces   the pieces had from the source, each [at, len]               *)
(*                                                                         *)
(* Addresses and spans count alignments, so a header is one.  A footer is  *)
(* read as the span of the hole that ends there.  A header that a merge or *)
(* a wider block swallows leaves the domain of `head`: it is read no more. *)
(***************************************************************************)
EXTENDS Integers, SequencesExt

CONSTANTS CLASSES, RUN, PIECE_FIRST, PIECE_MAX, HOLE_MIN, BINS, FIT_SCAN,
          Memory        \* what the source has to give in all

ASSUME HeapAssumption ==
    /\ {CLASSES, RUN, PIECE_FIRST, PIECE_MAX, HOLE_MIN, BINS, FIT_SCAN} \subseteq Nat \ {0}
    /\ HOLE_MIN >= 3 /\ RUN >= HOLE_MIN

Fresh == [head |-> << >>, bins |-> [b \in 0..(BINS - 1) |-> << >>],
          spares |-> [c \in 0..(CLASSES - 1) |-> << >>],
          run |-> [at |-> 0, len |-> 0], piece |-> PIECE_FIRST, pieces |-> << >>]

needFor(size) == size + 1
widthOf(class) == 2^class
CLASS_MAX == widthOf(CLASSES - 1)
classOf(need) == CHOOSE c \in 0..(CLASSES - 1) :
                    widthOf(c) >= need /\ \A d \in 0..(CLASSES - 1) : widthOf(d) >= need => c <= d

Log(n) == CHOOSE k \in 0..n : 2^k <= n /\ n < 2^(k + 1)

binOf(span) == LET bin == Log(span) - Log(HOLE_MIN)
               IN  IF bin < BINS - 1 THEN bin ELSE BINS - 1

Written(h, at, kind, span, before) ==
    [h EXCEPT !.head = [a \in DOMAIN @ \cup {at} |->
        IF a = at THEN [kind |-> kind, span |-> span, before |-> before] ELSE @[a]]]

\* Headers strictly inside from..to-1 are swallowed.
Swallowed(h, from, to) ==
    [h EXCEPT !.head = [a \in {b \in DOMAIN @ : b <= from \/ b >= to} |-> @[a]]]

MarkBehind(h, at, yes) ==
    [h EXCEPT !.head[at + h.head[at].span].before = yes]

\* Nothing in front of a block that is hung is free.
hang(h, at, span) ==
    LET g == MarkBehind(Written(Swallowed(h, at, at + span), at, "hole", span, FALSE), at, TRUE)
    IN  [g EXCEPT !.bins[binOf(span)] = <<at>> \o @]

unlink(h, at) == [h EXCEPT !.bins[binOf(h.head[at].span)] = Remove(@, at)]

\* A plausible slip: a block given back is merged only with what is behind it.
giveBackForward(h, at, span) ==
    LET next == at + span
    IN  IF h.head[next].kind = "hole"
        THEN hang(unlink(h, next), at, span + h.head[next].span)
        ELSE hang(h, at, span)

giveBack(h, at, span) ==
    LET before == CHOOSE n \in 1..at : at - n \in DOMAIN h.head /\ h.head[at - n].span = n
        front  == IF h.head[at].before THEN at - before ELSE at
        g      == IF h.head[at].before THEN unlink(h, front) ELSE h
        next   == at + span
    IN  IF h.head[next].kind = "hole"
        THEN hang(unlink(g, next), front, next + h.head[next].span - front)
        ELSE hang(g, front, next - front)

\* The front becomes a block in use, all of it where too little would be left.
claim(h, at, need) ==
    LET span == h.head[at].span
        g == unlink(h, at)
    IN  IF span - need < HOLE_MIN
        THEN MarkBehind(Written(g, at, "cut", span, FALSE), at, FALSE)
        ELSE hang(Written(g, at, "cut", need, FALSE), at + need, span - need)

\* Where fit looks: a little of the request's own bin, the first of each
\* wider one, then the rest of its own.
Candidates(h, need) ==
    LET bin == binOf(IF need < HOLE_MIN THEN HOLE_MIN ELSE need)
        own == h.bins[bin]
        few == IF Len(own) < FIT_SCAN THEN Len(own) ELSE FIT_SCAN
        wider == [i \in 1..(BINS - 1 - bin) |-> SubSeq(h.bins[bin + i], 1,
                        IF h.bins[bin + i] = << >> THEN 0 ELSE 1)]
    IN  SubSeq(own, 1, few) \o FlattenSeq(wider) \o SubSeq(own, few + 1, Len(own))

\* An operation answers [heap, at], at being -1 where there is no memory.
Refused(h) == [heap |-> h, at |-> -1]

FirstOf(h, need, wide) ==
    IF wide = << >> THEN Refused(h) ELSE [heap |-> claim(h, Head(wide), need), at |-> Head(wide)]

fit(h, need) ==
    FirstOf(h, need, SelectSeq(Candidates(h, need), LAMBDA at : h.head[at].span >= need))

\* A piece of its own for a request past half of PIECE_MAX.
PieceFor(h, need) ==
    IF need + 1 > PIECE_MAX \div 2 THEN need + 1
    ELSE IF h.piece > need + 1 THEN h.piece ELSE need + 1

Taken(h) == FoldLeft(LAMBDA n, p : n + p.len, 0, h.pieces)

CanFetch(h, need) == Taken(h) + PieceFor(h, need) <= Memory

\* Pieces do not touch: each is a mapping of its own.
fetch(h, need) ==
    LET len == PieceFor(h, need)
        at == Taken(h) + Len(h.pieces)
        own == need + 1 > PIECE_MAX \div 2
        g == [h EXCEPT !.pieces = Append(@, [at |-> at, len |-> len]),
                       !.piece = IF own \/ @ >= PIECE_MAX THEN @ ELSE 2 * @]
    IN  hang(Written(g, at + len - 1, "edge", 0, FALSE), at, len - 1)

\* What the bins gave, or else what they give once a piece was fetched.
OrFetched(got, h, need) ==
    IF got.at # -1 \/ ~CanFetch(h, need) THEN got ELSE fit(fetch(h, need), need)

take(h, need) == OrFetched(fit(h, need), h, need)

\* The rest of a run too small to be free stays a block that nothing holds.
abandonRun(h) ==
    LET left == h.run
        g == [h EXCEPT !.run = [at |-> 0, len |-> 0]]
    IN  IF left.len = 0 THEN g
        ELSE IF left.len < HOLE_MIN THEN Written(g, left.at, "cut", left.len, h.head[left.at].before)
        ELSE giveBack(g, left.at, left.len)

\* The run is all of the block taken for it, which may be more than RUN.
RunTaken(got) ==
    IF got.at = -1 THEN got.heap
    ELSE [got.heap EXCEPT !.run = [at |-> got.at, len |-> got.heap.head[got.at].span]]

freshRun(h) == RunTaken(take(abandonRun(h), RUN))

CutFromRun(h, width) ==
    LET at == h.run.at
        left == [at |-> at + width, len |-> h.run.len - width]
        cutOff == Written([h EXCEPT !.run = left], at, "cut", width, h.head[at].before)
    IN  IF h.run.len < width THEN Refused(h)
        ELSE [heap |-> IF left.len > 0 THEN Written(cutOff, left.at, "cut", left.len, FALSE)
                       ELSE cutOff,
              at |-> at]

fromRun(h, width) == CutFromRun(IF h.run.len < width THEN freshRun(h) ELSE h, width)

OfClass(got, class) ==
    IF got.at = -1 THEN got
    ELSE [got EXCEPT !.heap.head[got.at].kind = "class",
                     !.heap.head[got.at].span = widthOf(class)]

fromClass(h, class) ==
    OfClass(IF h.spares[class] # << >>
            THEN [heap |-> [h EXCEPT !.spares[class] = Tail(@)], at |-> Head(h.spares[class])]
            ELSE fromRun(h, widthOf(class)), class)

alloc(h, size) ==
    IF needFor(size) <= CLASS_MAX THEN fromClass(h, classOf(needFor(size)))
    ELSE take(h, needFor(size))

\* A block of a class keeps its place in the tiling and goes on its list.
free(h, at) ==
    IF h.head[at].kind = "class"
    THEN [h EXCEPT !.spares[classOf(h.head[at].span)] = <<at>> \o @]
    ELSE giveBack(h, at, h.head[at].span)

shrink(h, at, need) ==
    LET span == h.head[at].span
    IN  IF span - need < HOLE_MIN \/ need < HOLE_MIN THEN h
        ELSE giveBack(Written([h EXCEPT !.head[at].span = need],
                              at + need, "cut", span - need, FALSE), at + need, span - need)

CanExtend(h, at, need) ==
    LET next == at + h.head[at].span
    IN  h.head[next].kind = "hole" /\ h.head[next].span >= need - h.head[at].span

extend(h, at, need) ==
    LET next == at + h.head[at].span
        room == h.head[next].span
        g == unlink(h, next)
        left == room - (need - h.head[at].span)
    IN  IF left < HOLE_MIN
        THEN MarkBehind(Swallowed([g EXCEPT !.head[at].span = @ + room], at, next + room), at, FALSE)
        ELSE hang(Swallowed([g EXCEPT !.head[at].span = need], at, at + need), at + need, left)

\* Moved, with what it held, if there was memory for it.
MovedTo(moved, at) ==
    IF moved.at = -1 THEN moved ELSE [heap |-> free(moved.heap, at), at |-> moved.at]

\* realloc: where it is when it can be.
realloc(h, at, size) ==
    LET need == needFor(size)
        span == h.head[at].span
    IN  IF h.head[at].kind # "cut" /\ need <= span THEN [heap |-> h, at |-> at]
        ELSE IF need <= span THEN [heap |-> shrink(h, at, need), at |-> at]
        ELSE IF h.head[at].kind = "cut" /\ CanExtend(h, at, need)
        THEN [heap |-> extend(h, at, need), at |-> at]
        ELSE MovedTo(alloc(h, size), at)

-----------------------------------------------------------------------------
\* The blocks of every piece stand end to end up to its edge, each mark says
\* truly whether the block in front is free, and no two free blocks touch.
Tiles(h) ==
    \A at \in DOMAIN h.head :
        LET block == h.head[at]
            next == at + block.span
        IN  block.kind # "edge" =>
                /\ next \in DOMAIN h.head
                /\ \A other \in DOMAIN h.head : other > at => other >= next
                /\ h.head[next].before <=> block.kind = "hole"
                /\ block.kind = "hole" => h.head[next].kind # "hole"

\* Every hole hangs once, on the bin of its width, and nothing else hangs.
Hung(h) ==
    /\ \A at \in DOMAIN h.head : h.head[at].kind = "hole" <=>
          \E b \in DOMAIN h.bins : Contains(h.bins[b], at)
    /\ \A b \in DOMAIN h.bins :
          /\ \A i \in DOMAIN h.bins[b] : binOf(h.head[h.bins[b][i]].span) = b
          /\ \A i, j \in DOMAIN h.bins[b] : i # j => h.bins[b][i] # h.bins[b][j]

\* The blocks a program holds are apart, hold what was asked for, and are
\* neither free, spare nor part of the run.
HeldApart(h, held) ==
    \A at \in DOMAIN held :
        /\ at \in DOMAIN h.head
        /\ h.head[at].kind \notin {"hole", "edge"}
        /\ h.head[at].span - 1 >= held[at]
        /\ at # h.run.at \/ h.run.len = 0
        /\ \A c \in DOMAIN h.spares : ~Contains(h.spares[c], at)

==============================================================================
