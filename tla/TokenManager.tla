---------------------------- MODULE TokenManager ----------------------------
(***************************************************************************)
(* swrender/TokenManager.cpp: the names of one kind of GL object.  Every   *)
(* method holds mLock from its first to its last statement, so a call is   *)
(* one action.                                                             *)
(***************************************************************************)
EXTENDS Tokenizer, FiniteSets, FiniteSetsExt

CONSTANTS MaxBatch,     \* bound: names generated or recycled by one call
          NameLimit     \* bound: names in use at a time

\* With all names in use the length of the only run would wrap to 0.
ASSUME BoundsAssumption == MaxBatch \in Nat /\ NameLimit \in 1 .. TokenCount - 1

VARIABLES mRanges,      \* the runs of mTokenizer
          call          \* the last call and the array its caller gets or gave

tokenVars == <<mRanges, call>>

Tokens == 0 .. TokenCount - 1

\* The names a vector of runs stands for.
NamesOf(r) == UNION {run.first .. run.first + run.length - 1 : run \in Range(r)}

\* token 0 is always reserved
TokenInit == mRanges = reserve(<<>>, 0) /\ call = [op |-> "none", tokens |-> <<>>]

\* acquire() called n times in a row.
acquireMany(r, n) ==
  LET many[i \in 0 .. n] ==
        IF i = 0 THEN [ranges |-> r, tokens |-> <<>>]
        ELSE LET prev == many[i - 1]
                 a    == acquire(prev.ranges)
             IN  [ranges |-> a.ranges, tokens |-> Append(prev.tokens, a.token)]
  IN  many[n]

getToken(n) ==
  /\ Cardinality(NamesOf(mRanges)) + n <= NameLimit
  /\ LET a == acquireMany(mRanges, n)
     IN  mRanges' = a.ranges /\ call' = [op |-> "getToken", tokens |-> a.tokens]

\* release() called for each of the tokens but 0.
releaseMany(r, ts) ==
  LET many[i \in 0 .. Len(ts)] ==
        IF i = 0 THEN r
        ELSE IF ts[i] # 0 THEN release(many[i - 1], ts[i]) ELSE many[i - 1]
  IN  many[Len(ts)]

\* The recycled array is in the caller's order and may repeat a name.
recycleTokens(ts) ==
  /\ mRanges' = releaseMany(mRanges, ts)
  /\ call' = [op |-> "recycleTokens", tokens |-> ts]

TokenNext == \/ \E n \in 0 .. MaxBatch : getToken(n)
             \/ \E ts \in SeqOf(Tokens, MaxBatch) : recycleTokens(ts)

TokenSpec == TokenInit /\ [][TokenNext]_tokenVars
-----------------------------------------------------------------------------
\* The vector stays what the binary search and "just extend the first run"
\* need it to be: runs in increasing order, never empty, never overlapping
\* and never adjacent, so the run that starts at 0 ends at a free name; and
\* the search, isTokenValid(), finds exactly the names in the runs.
RunsSortedAndMerged ==
  /\ \A i \in 1 .. Len(mRanges) : mRanges[i].length > 0
  /\ \A i \in 1 .. Len(mRanges) - 1 :
       mRanges[i].first + mRanges[i].length < mRanges[i + 1].first
  /\ \A n \in Tokens : isAcquired(mRanges, n) <=> n \in NamesOf(mRanges)

\* The manager implements the abstract set of names: getToken hands out free
\* and different names, recycleTokens frees what it was given and nothing else.
NameSpec == INSTANCE NameSpace WITH Names <- Tokens, used <- NamesOf(mRanges)
ImplementsNameSpace == NameSpec!Spec
=============================================================================
