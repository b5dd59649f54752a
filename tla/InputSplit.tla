----------------------------- MODULE InputSplit -----------------------------
(***************************************************************************)
(* How an input file is cut along its lines: the slice a machine loads     *)
(* (load_slice) and the window the coordinator stages to it                *)
(* (line_aligned_window), the chunks of a chunked Input (load_chunk), and  *)
(* the shards of a sharded job (run_split) with the reducers that merge    *)
(* their results (run_merge).                                              *)
(*                                                                         *)
(* A file is a sequence of bytes, "n" for a newline and "c" for any other; *)
(* offsets are the code's, from 0.  A record is a pair <<a, b>>: the bytes *)
(* from offset a to b - 1, so the same line read twice is the same record  *)
(* and a torn line is a record that the file does not have.                *)
(***************************************************************************)
EXTENDS SortedSets, SequencesExt, Functions, TLC

Newline == "n"

Byte(f, p) == f[p + 1]

\* split(|b| b == '\n') of the bytes from lo to hi, without the empty lines.
Records(f, lo, hi) ==
    {r \in (lo .. hi) \X (lo .. hi) :
       /\ r[1] < r[2]
       /\ \A p \in r[1] .. r[2] - 1 : Byte(f, p) # Newline
       /\ r[1] = lo \/ Byte(f, r[1] - 1) = Newline
       /\ r[2] = hi \/ Byte(f, r[2]) = Newline}

\* Newlines at or after p and before q.
Newlines(f, p, q) == {x \in p .. q - 1 : Byte(f, x) = Newline}

-----------------------------------------------------------------------------
(* Slices                                                                  *)

\* A plausible slip: offset 0 is moved past the first line, too.
NextLineStartAlways(f, p) ==
    IF Newlines(f, p, Len(f)) = {} THEN Len(f) ELSE Min(Newlines(f, p, Len(f))) + 1

\* next_line_start: 0 is the start of a line; any other offset moves past
\* the next newline, or to the end of the file.
NextLineStart(f, p) ==
    IF p = 0 THEN 0
    ELSE IF Newlines(f, p, Len(f)) = {} THEN Len(f)
    ELSE Min(Newlines(f, p, Len(f))) + 1

\* The window of slice <<lo, hi, W>>: the line starts after lo/W and hi/W.
Window(f, slice) ==
    LET at(x) == (x * Len(f)) \div slice[3]
        to    == at(slice[2])
    IN  <<NextLineStart(f, at(slice[1])), IF to >= Len(f) THEN Len(f) ELSE NextLineStart(f, to)>>

\* load_slice; the file is not empty (mmap_file refuses one that is).
LoadSlice(f, slice) ==
    LET w == Window(f, slice) IN IF w[1] >= w[2] THEN {} ELSE Records(f, w[1], w[2])

\* line_aligned_window, and the bytes that are staged from it.
LineAlignedWindow(f, slice) ==
    LET w == Window(f, slice) IN IF w[1] >= w[2] THEN <<0, 0>> ELSE w

Staged(f, slice) ==
    LET w == LineAlignedWindow(f, slice) IN SubSeq(f, w[1] + 1, w[2])

\* What a worker loads from its staged copy, its slice rewritten to [0, 1],
\* as records of the original file.
LoadStaged(f, slice) ==
    LET w == LineAlignedWindow(f, slice)
    IN  {<<r[1] + w[1], r[2] + w[1]>> : r \in LoadSlice(Staged(f, slice), <<0, 1, 1>>)}

-----------------------------------------------------------------------------
(* Chunks                                                                  *)

\* A plausible slip: a line longer than the chunk is cut.
ChunkEndTorn(f, start, max) ==
    LET end == IF start + max < Len(f) THEN start + max ELSE Len(f)
    IN  IF end < Len(f) /\ Newlines(f, start, end) # {} THEN Max(Newlines(f, start, end)) + 1 ELSE end

\* load_chunk: the end of the chunk that starts at offset start.
ChunkEnd(f, start, max) ==
    LET end == IF start + max < Len(f) THEN start + max ELSE Len(f)
    IN  IF end = Len(f) THEN end
        ELSE IF Newlines(f, start, end) # {} THEN Max(Newlines(f, start, end)) + 1
        ELSE IF Newlines(f, end, Len(f)) # {} THEN Min(Newlines(f, end, Len(f))) + 1
        ELSE Len(f)

\* The chunks of a file: an Input loads one after the other until the end.
Chunks(f, max) ==
    LET load(acc, k) == IF acc.at >= Len(f) THEN acc
                        ELSE [at |-> ChunkEnd(f, acc.at, max),
                              out |-> Append(acc.out, Records(f, acc.at, ChunkEnd(f, acc.at, max)))]
    IN  FoldLeft(load, [at |-> 0, out |-> <<>>], f).out

-----------------------------------------------------------------------------
(* The records of a machine over its fan-out workers                       *)

\* split_input_contiguous: consecutive records, 8 bytes of framing each, go
\* to one worker until it has reached its cumulative share of the bytes; a
\* record moves on by one worker at most.
SplitContiguous(recs, n) ==
    LET size(r) == 8 + r[2] - r[1]
        total   == SumFunction([i \in DOMAIN recs |-> size(recs[i])])
        put(acc, r) ==
          LET w == acc.worker
              e == acc.emitted + size(r)
          IN  [out |-> [acc.out EXCEPT ![w] = @ \cup {r}], emitted |-> e,
               worker |-> IF w + 1 < n /\ e >= ((w + 1) * total) \div n THEN w + 1 ELSE w]
    IN  FoldLeft(put, [out |-> [w \in 0 .. n - 1 |-> {}], emitted |-> 0, worker |-> 0], recs).out

-----------------------------------------------------------------------------
(* Shards                                                                  *)

\* read_until: the lines of a file with their newlines, as <<a, b>>.
Lines(f) ==
    LET starts == {0} \cup {p + 1 : p \in Newlines(f, 0, Len(f))}
        begin  == Ascending({p \in starts : p < Len(f)})
        end(k) == IF k = Len(begin) THEN Len(f) ELSE begin[k + 1]
    IN  [k \in DOMAIN begin |-> <<begin[k], end(k)>>]

\* The shard that is open when a line is written: the next one once the
\* present one has its share of bytes.
NextShard(shard, n, written, share) == IF shard + 1 < n /\ written >= share THEN shard + 1 ELSE shard

\* run_split: shard i as the set of lines it gets.
Shards(f, n) ==
    LET share == Max({1, (Len(f) + n - 1) \div n})
        put(acc, line) ==
          LET s == NextShard(acc.shard, n, acc.written, share)
              w == IF s = acc.shard THEN acc.written ELSE 0
          IN  [shard |-> s, written |-> w + line[2] - line[1],
               out |-> IF s < n THEN [acc.out EXCEPT ![s] = @ \cup {line}] ELSE acc.out]
    IN  FoldLeft(put, [shard |-> 0, written |-> 0, out |-> [i \in 0 .. n - 1 |-> {}]], Lines(f)).out

\* The tally a shard executor outputs.  The key of a line is its length.
Tally(lines) ==
    [w \in {l[2] - l[1] : l \in lines} |-> Cardinality({l \in lines : l[2] - l[1] = w})]

\* A plausible slip: the last partial result wins.
FoldKeyNumsLast(partials) ==
    LET keys == UNION {DOMAIN partials[i] : i \in DOMAIN partials}
    IN  [k \in keys |-> partials[Max({i \in DOMAIN partials : k \in DOMAIN partials[i]})][k]]

\* fold_key_nums: the counts of all partial results, summed by key.
FoldKeyNums(partials) ==
    LET keys == UNION {DOMAIN partials[i] : i \in DOMAIN partials}
        with(k) == {i \in DOMAIN partials : k \in DOMAIN partials[i]}
    IN  [k \in keys |-> SumFunction([i \in with(k) |-> partials[i][k]])]

\* merge_topk: the k largest counts, ties by key.
TopK(counts, k) ==
    LET rank == SortSeq(Ascending(DOMAIN counts),
                  LAMBDA a, b : counts[a] > counts[b] \/ (counts[a] = counts[b] /\ a < b))
    IN  [i \in 1 .. Min({k, Len(rank)}) |-> <<rank[i], counts[rank[i]]>>]

=============================================================================
