--------------------------- MODULE ContextWindow ---------------------------
(***************************************************************************)
(* backend/context: the messages of a conversation as the model is given    *)
(* them, and the choice of a prefix that a summary replaces. A message is   *)
(* a record of its role, its id (the answered call, for a result), whether  *)
(* it has text, and the calls it makes.                                     *)
(***************************************************************************)
EXTENDS Picking, Sequences, FiniteSetsExt

Said(role, id) == [role |-> role, id |-> id, text |-> TRUE, calls |-> <<>>]
Calling(id, calls) == [role |-> "assistant", id |-> id, text |-> FALSE, calls |-> calls]
Result(id) == [role |-> "tool", id |-> id, text |-> TRUE, calls |-> <<>>]

CallIds(m) == {m.calls[k].id : k \in DOMAIN m.calls}
IsResult(m) == m.role = "tool"

\* A provider takes a conversation only if every call is followed by its result, before
\* anything else, and every result by a call before it.
WellPaired(ms) ==
  /\ \A i \in DOMAIN ms : CallIds(ms[i]) # {} =>
       LET n == Len(ms[i].calls)
       IN  /\ i + n <= Len(ms)
           /\ \A k \in 1..n : IsResult(ms[i + k])
           /\ {ms[i + k].id : k \in 1..n} = CallIds(ms[i])
  /\ \A i \in DOMAIN ms : IsResult(ms[i]) =>
       \E j \in 1..(i - 1) :
         /\ i - j <= Len(ms[j].calls)
         /\ ms[i].id \in CallIds(ms[j])

-----------------------------------------------------------------------------
(* Repairing a history in which runs were broken off.                      *)

Answered(ms) == {ms[i].id : i \in {j \in DOMAIN ms : IsResult(ms[j])}}

Announced(ms, i) == (UNION {CallIds(ms[j]) : j \in 1..(i - 1)}) \cap Answered(ms)

\* A message without the calls nobody answered
Kept(ms, m) ==
  [m EXCEPT !.calls = Picked(m.calls, {k \in DOMAIN m.calls : m.calls[k].id \in Answered(ms)})]

\* Calls nobody answered and results nobody asked for are dropped, and with them the
\* messages that said nothing else.
Stays(ms, i) ==
  IF IsResult(ms[i]) THEN ms[i].id \in Announced(ms, i)
  ELSE CallIds(ms[i]) = {} \/ ms[i].text \/ CallIds(ms[i]) \cap Answered(ms) # {}

PairToolMessages(ms) ==
  Picked([i \in DOMAIN ms |-> IF IsResult(ms[i]) THEN ms[i] ELSE Kept(ms, ms[i])],
         {i \in DOMAIN ms : Stays(ms, i)})

-----------------------------------------------------------------------------
(* Compaction.                                                             *)

\* A slip: every message a round of its own.
RoundStartsLoose(ms) == DOMAIN ms

\* The first messages of the rounds: an assistant's calls and their results are one.
RoundStarts(ms) ==
  {i \in DOMAIN ms : IsResult(ms[i]) =>
     ~ \E j \in 1..(i - 1) : CallIds(ms[j]) # {} /\ \A k \in (j + 1)..i : IsResult(ms[k])}

LatestUser(ms) == Max({0} \cup {i \in DOMAIN ms : ms[i].role = "user"})

\* Where a conversation can be cut: what comes before is summarised, the request of the
\* user and all that follows it never is. Which of the cuts it is depends on the tokens.
Cuts(ms) == {i \in RoundStarts(ms) : 1 < i /\ i <= LatestUser(ms)}

\* The cut that is left when k rounds were given back to the tail because the summary's
\* own request was too long.
CutAfter(ms, cut, k) ==
  LET earlier == {i \in Cuts(ms) : i <= cut /\ Cardinality({j \in Cuts(ms) : i <= j /\ j <= cut}) <= k + 1}
  IN  Min(earlier)

Prefix(ms, cut) == SubSeq(ms, 1, cut - 1)
TailFrom(ms, cut) == SubSeq(ms, cut, Len(ms))

\* A slip: the rounds that were given back are in neither part.
SplitStale(ms, cut, k) ==
  [covered |-> Prefix(ms, CutAfter(ms, cut, k)), tail |-> TailFrom(ms, cut)]

\* What the summary stands for, and what stays as it was.
Split(ms, cut, k) ==
  [covered |-> Prefix(ms, CutAfter(ms, cut, k)), tail |-> TailFrom(ms, CutAfter(ms, cut, k))]
=============================================================================
