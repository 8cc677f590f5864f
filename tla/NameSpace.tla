----------------------------- MODULE NameSpace -----------------------------
(***************************************************************************)
(* What TokenManager promises its clients (glGenBuffers, glGenTextures and *)
(* the matching glDelete calls): a set of names in use, of which 0 is      *)
(* always one and is never handed out.                                     *)
(***************************************************************************)
EXTENDS Naturals, Sequences

CONSTANT Names          \* all names a GLuint can hold
VARIABLES used,         \* the names in use
          call          \* the last call and the names it stored or was given

NamesIn(ns) == {ns[i] : i \in 1 .. Len(ns)}

\* Name 0 is in use from the start and belongs to no client.
Init == used = {0} /\ call = [op |-> "none", tokens |-> <<>>]

\* A call stores names that were free, all different, and they are in use now.
Generate ==
  LET ns == call'.tokens
  IN  /\ call'.op = "getToken"
      /\ \A i, j \in 1 .. Len(ns) : i # j => ns[i] # ns[j]
      /\ NamesIn(ns) \subseteq Names \ used
      /\ used' = used \union NamesIn(ns)

\* A call frees exactly the names it is given, except 0 and names not in use.
Recycle ==
  /\ call'.op = "recycleTokens"
  /\ used' = used \ (NamesIn(call'.tokens) \ {0})

Next == Generate \/ Recycle

Spec == Init /\ [][Next]_<<used, call>>
=============================================================================
