----------------------------- MODULE MCAppStash -----------------------------
(***************************************************************************)
(* Small instances of AppStash: a file below, one above and two on the     *)
(* bounds of the size thresholds.                                          *)
(***************************************************************************)
EXTENDS AppStash

CONSTANTS tiny, low, high, big, r1, r2, r3

\* A content stands for its SHA1 as well.
Identity == [c \in Content |-> c]
Sizes == tiny :> 1 @@ low :> 2 @@ high :> 3 @@ big :> 4
NoDirs == [k \in Key |-> {}]

Claim(c) == [sha |-> c, size |-> Sizes[c]]
Ask(kind, app, want) == [kind |-> kind, app |-> app, want |-> want]

AllOps ==
  {Ask("matches", <<>>, <<Claim(low), Claim(tiny)>>),
   Ask("matches", <<>>, <<Claim(high), [sha |-> low, size |-> 4]>>),
   Ask("entries", <<low, tiny>>, <<>>),
   Ask("entries", <<>>, <<>>),
   Ask("bundle", <<>>, <<Claim(low), Claim(high)>>),
   Ask("bundle", <<big, low>>, <<Claim(tiny)>>),
   Ask("package", <<high, tiny>>, <<Claim(low)>>)}

\* Pushes of one file, and who reads it.
SharedOps ==
  {Ask("matches", <<>>, <<Claim(low)>>), Ask("entries", <<low>>, <<>>),
   Ask("package", <<low>>, <<>>), Ask("bundle", <<>>, <<Claim(low)>>)}

Requests == Permutations(Req)
=============================================================================
