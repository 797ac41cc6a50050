------------------------------ MODULE MCChunk ------------------------------
(* Small instances of Chunk: units of sizes at which the code decides,     *)
(* with a MaxSize that a few of them reach.                                *)
EXTENDS Chunk, TLC

CONSTANTS a, b, c, d, e, f, g, h, i, j, k, l

\* Entries of three bytes besides the unit: a, b, c, d and e; of four, which is
\* more than the padding: the others.  i and j are not refused, and too long with
\* any header; k is refused; a chunk of l alone is as long as a message may be.
Sizes ==
  [u \in Units |->
    CASE u \in {a, b} -> 130
      [] u = c -> 134
      [] u \in {d, e} -> 16383
      [] u \in {f, g} -> 16384
      [] u = h -> 32000
      [] u \in {i, j} -> 33070
      [] u = k -> 33073
      [] u = l -> 33055]

\* Sent whole; split in three chunks, which are two if the padding is forgotten;
\* with a first chunk, then a second, that is too long; refused.
SplitMessages ==
  {{}, {a}, {a, d}} \cup {{a, c, d, e, h}} \cup {{a, b, f, g, h}, {a, i}} \cup {{i, j}, {a, k}}
\* A first chunk that is too long, one that fits, one that is too long.
LongMessages == {{a, b, f, g, h, i}}
\* A chunk that is full, and a unit after it.
FullMessages == {{a, h, l, i}}
=============================================================================
