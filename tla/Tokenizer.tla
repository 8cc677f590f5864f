----------------------------- MODULE Tokenizer -----------------------------
(***************************************************************************)
(* The allocator of GL object names, swrender/Tokenizer.cpp.  A Tokenizer  *)
(* keeps the acquired names as a vector mRanges of runs [first, length],   *)
(* ordered by first.  Every operation of the class is an operator here     *)
(* that takes the vector and returns the new vector or the answer;         *)
(* TokenManager makes state out of them.                                   *)
(*                                                                         *)
(* Vectors are sequences, so a C++ index i is the TLA+ index i + 1.  The   *)
(* fields are uint32_t: all sums are taken modulo TokenCount.              *)
(***************************************************************************)
EXTENDS Integers, Sequences, SequencesExt

CONSTANT TokenCount      \* what a token can hold: 2^32 values in the code
ASSUME TokenAssumption == TokenCount \in Nat \ {0}

Wrap(x) == x % TokenCount

NAME_NOT_FOUND == -1

Run(first, length) == [first |-> first, length |-> length]

RunEnd(run) == Wrap(run.first + run.length)

\* One round of the binary search, unless it has ended: s.l .. s.h is where a
\* run that holds the token can be.
Round(r, token, s) ==
  LET mid  == s.l + (s.h - s.l) \div 2
      curr == r[mid]
  IN  IF s.l > s.h \/ s.index # NAME_NOT_FOUND THEN s
      ELSE IF token < curr.first                THEN [l |-> s.l, h |-> mid - 1, index |-> s.index]
      ELSE IF token >= RunEnd(curr)             THEN [l |-> mid + 1, h |-> s.h, index |-> s.index]
      ELSE [l |-> mid, h |-> s.h, index |-> mid]

\* The binary search.  index is the run that holds the token, or
\* NAME_NOT_FOUND; order is where a run for the token belongs.  As many rounds
\* as there are runs are enough.
indexOrderOf(r, token) ==
  LET search[k \in 0 .. Len(r)] ==
        IF k = 0 THEN [l |-> 1, h |-> Len(r), index |-> NAME_NOT_FOUND]
        ELSE Round(r, token, search[k - 1])
  IN  [index |-> search[Len(r)].index, order |-> search[Len(r)].l]

\* Mutant: a token that joins the previous run is not joined to the next one.
insertTokenAt_prevOnly(r, token, i) ==
  IF i > 1 /\ RunEnd(r[i - 1]) = token
  THEN [r EXCEPT ![i - 1].length = Wrap(@ + 1)]
  ELSE InsertAt(r, i, Run(token, 1))

\* Add a token before position i, joining it to the runs it touches.
insertTokenAt(r, token, i) ==
  LET joinsPrev == i > 1 /\ RunEnd(r[i - 1]) = token
      joinsNext == i <= Len(r) /\ Wrap(token + 1) = r[i].first
  IN  CASE joinsPrev /\ joinsNext ->
             RemoveAt([r EXCEPT ![i - 1] = Run(@.first, Wrap(@.length + 1 + r[i].length))], i)
        [] joinsPrev /\ ~joinsNext ->
             [r EXCEPT ![i - 1] = Run(@.first, Wrap(@.length + 1))]
        [] ~joinsPrev /\ joinsNext ->
             [r EXCEPT ![i] = Run(Wrap(@.first - 1), Wrap(@.length + 1))]
        [] OTHER -> InsertAt(r, i, Run(token, 1))

\* acquire: token 0 when it is free, otherwise the first run grows.
acquire(r) ==
  IF r = <<>> \/ r[1].first # 0
  THEN [ranges |-> insertTokenAt(r, 0, 1), token |-> 0]
  ELSE LET token == RunEnd(r[1])
       IN  [ranges |-> insertTokenAt(r, token, 2), token |-> token]

isAcquired(r, token) == indexOrderOf(r, token).index # NAME_NOT_FOUND

\* reserve leaves the vector alone when the token is taken (BAD_VALUE).
reserve(r, token) ==
  LET at == indexOrderOf(r, token)
  IN  IF at.index # NAME_NOT_FOUND THEN r
      ELSE insertTokenAt(r, token, at.order)

\* Mutant: a token inside a run truncates the run instead of splitting it.
release_truncate(r, token) ==
  LET i == indexOrderOf(r, token).index
  IN  CASE i = NAME_NOT_FOUND   -> r
        [] i # NAME_NOT_FOUND /\ token = r[i].first -> RemoveAt(r, i)
        [] OTHER                -> [r EXCEPT ![i].length = token - r[i].first]

\* release: shrink the run at the end where the token lies, drop the run when
\* it gets empty, split it when the token is strictly inside.
release(r, token) ==
  LET i    == indexOrderOf(r, token).index
      run  == r[i]
      last == Wrap(run.first + run.length - 1)
  IN  CASE i = NAME_NOT_FOUND -> r
        [] i # NAME_NOT_FOUND /\ token \in {run.first, last} ->
             IF run.length = 1 THEN RemoveAt(r, i)
             ELSE [r EXCEPT ![i] = Run(IF token = run.first THEN Wrap(token + 1)
                                                            ELSE run.first,
                                       run.length - 1)]
        [] OTHER ->
             InsertAt([r EXCEPT ![i] = Run(run.first, token - run.first)],
                      i + 1,
                      Run(token + 1, Wrap(RunEnd(run) - (token + 1))))
=============================================================================
