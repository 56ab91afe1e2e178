------------------------- MODULE RunnerStreamProofs -------------------------
(***************************************************************************)
(* Theorems about RunnerStream.  What a provider is let through to do is    *)
(* what the user's answer allows; what it says is shown once and in order;  *)
(* and whatever it does, the wire carries one well-formed run.              *)
(*                                                                         *)
(* The last two rest on one invariant: the events in the queue can be       *)
(* delivered one after the other, from what the translator and the client   *)
(* are now to where the mapping state says the client will be.  A lemma for *)
(* each event says what its delivery does; one for each function of the     *)
(* mapping says that what it emits can be delivered; one for each action    *)
(* says that the invariant is kept and the wire is well-formed.             *)
(***************************************************************************)
EXTENDS RunnerStream, TLAPS, SequenceTheorems, NaturalsInduction, WellFoundedInduction

-----------------------------------------------------------------------------
(* Rights.                                                                 *)

Authorizations ==
  [request : Requests \cup {None}, action : {"none", "approve", "deny", "cancel"},
   scope : {"once", "run"}, consumed : BOOLEAN]

\* What the rights of a run are made of.
RightsOK ==
  /\ kind \in Kinds
  /\ auth \in Authorizations
  /\ let \in Seq(Requests)
  /\ card \in Requests \cup {None}

\* Nothing is let through, and no tool allowed, before the answer has been consumed; a tool
\* is allowed by an answer for the whole run only, and it is the tool of its request.
Spent ==
  /\ ~ auth.consumed => let = <<>> /\ allowed = {}
  /\ allowed # {} => /\ kind = "claude_code"
                     /\ auth.action = "approve" /\ auth.scope = "run"
                     /\ allowed = {ToolOf[auth.request]}

GrantInv == RightsOK /\ Spent /\ GrantedOnce

\* Most steps have nothing to do with rights.
LEMMA Untouched ==
  ASSUME GrantInv, kind' = kind, UNCHANGED rights, card' \in Requests \cup {None}
  PROVE  GrantInv'
BY DEF GrantInv, RightsOK, Spent, GrantedOnce, rights, Authorizations

\* A new run, or one with a decision nobody used, has nothing let through.
LEMMA BeginKeeps ==
  ASSUME GrantInv, NEW a \in Authorizations, Begin(a)
  PROVE  GrantInv'
BY DEF GrantInv, RightsOK, Spent, GrantedOnce, Begin

\* At first nothing was granted.
LEMMA InitGrantInv == Init => GrantInv
<1> SUFFICES ASSUME Init PROVE GrantInv
  OBVIOUS
<1>1. RightsOK
  BY DEF Init, RightsOK, Unauthorised, Authorizations
<1>2. Spent /\ GrantedOnce
  BY DEF Init, Spent, GrantedOnce
<1> QED
  BY <1>1, <1>2 DEF GrantInv

\* The answer is consumed for the request it names.
LEMMA AuthorisedKeeps ==
  ASSUME GrantInv, NEW r \in Requests, Authorised(r)
  PROVE  GrantInv'
<1> USE DEF GrantInv, Authorised, Matches, Let
<1>1. /\ auth.request = r /\ ~ auth.consumed /\ let = <<>> /\ allowed = {}
      /\ kind' = kind /\ card' = card
  BY DEF Spent, broker
<1>2. /\ auth' \in Authorizations /\ auth'.request = r /\ auth'.consumed
      /\ auth'.action = auth.action /\ auth'.scope = auth.scope
  BY <1>1 DEF RightsOK, Authorizations
<1>3. let' = IF auth.action = "approve" THEN <<r>> ELSE <<>>
  BY <1>1
<1>4. RightsOK'
  BY <1>1, <1>2, <1>3 DEF RightsOK
<1>5. Spent'
  BY <1>1, <1>2 DEF Spent, AllowedAfter
<1>6. GrantedOnce'
  BY <1>1, <1>2, <1>3 DEF GrantedOnce
<1> QED
  BY <1>4, <1>5, <1>6

\* What is waved through uses the tool that was allowed for the run.
LEMMA WavedKeeps ==
  ASSUME GrantInv, NEW r \in Requests, Waved(r)
  PROVE  GrantInv'
<1> USE DEF GrantInv, Waved, Let
<1>1. /\ allowed = {ToolOf[auth.request]} /\ ToolOf[r] = ToolOf[auth.request]
      /\ auth.consumed /\ auth.action = "approve" /\ auth.scope = "run"
  BY DEF Spent
<1>2. /\ auth' = auth /\ allowed' = allowed /\ kind' = kind /\ card' = card
      /\ let' = Append(let, r)
  BY DEF broker
<1>3. RightsOK'
  BY <1>2 DEF RightsOK
<1>4. Spent'
  BY <1>1, <1>2 DEF Spent
<1>5. \A i \in DOMAIN let' : ToolOf[let'[i]] = ToolOf[auth.request]
  BY <1>1, <1>2 DEF RightsOK, GrantedOnce
<1>6. kind # "codex" /\ auth.scope # "once"
  BY <1>1
<1>7. GrantedOnce'
  BY <1>1, <1>2, <1>5, <1>6 DEF GrantedOnce
<1> QED
  BY <1>3, <1>4, <1>7

\* Every step keeps it.
LEMMA NextGrantInv == GrantInv /\ [Next]_vars => GrantInv'
<1> SUFFICES ASSUME GrantInv, [Next]_vars PROVE GrantInv'
  OBVIOUS
<1>1. CASE UNCHANGED vars
  BY <1>1, Untouched DEF vars, rights, broker, GrantInv, RightsOK
<1>2. CASE New
  <2>1. Unauthorised \in Authorizations
    BY DEF Unauthorised, Authorizations
  <2> QED
    BY <1>2, <2>1, BeginKeeps DEF New
<1>3. CASE Answer
  <2>1. PICK action \in {"approve", "deny", "cancel"}, scope \in {"once", "run"} :
          Begin([request |-> card, action |-> action, scope |-> scope, consumed |-> FALSE])
    BY <1>3 DEF Answer
  <2>2. [request |-> card, action |-> action, scope |-> scope, consumed |-> FALSE]
          \in Authorizations
    BY DEF GrantInv, RightsOK, Authorizations
  <2> QED
    BY <2>1, <2>2, BeginKeeps
<1>4. CASE Leave \/ Deliver \/ ShowCard \/ Drained \/ Report \/ Open
  <2>1. /\ kind' = kind /\ UNCHANGED rights
        /\ card' = card \/ card' = None
    BY <1>4 DEF Leave, Deliver, ShowCard, Drained, Report, Open, broker
  <2> QED
    BY <2>1, Untouched DEF GrantInv, RightsOK
<1>5. ASSUME NEW type \in {"text", "think"}, CliDelta(type) \/ CliBlock(type)
      PROVE  GrantInv'
  <2>1. kind' = kind /\ UNCHANGED rights /\ card' = card
    BY <1>5 DEF CliDelta, CliBlock, Take
  <2> QED
    BY <2>1, Untouched DEF GrantInv, RightsOK
<1>6. ASSUME NEW i \in Items, ItemStarts(i) \/ ItemEnds(i)
      PROVE  GrantInv'
  <2>1. kind' = kind /\ UNCHANGED rights /\ card' = card
    BY <1>6 DEF ItemStarts, ItemEnds, Take
  <2> QED
    BY <2>1, Untouched DEF GrantInv, RightsOK
<1>7. CASE \/ ErrorGiven \/ \E ok \in BOOLEAN : TurnEnds(ok) \/ ResultGiven(ok)
           \/ \E code \in 0..1 : Exits(code)
  <2>1. kind' = kind /\ UNCHANGED rights /\ card' = card
    BY <1>7 DEF TurnEnds, ErrorGiven, ResultGiven, Exits, Take
  <2> QED
    BY <2>1, Untouched DEF GrantInv, RightsOK
<1>8. ASSUME NEW r \in Requests, Asks(r)
      PROVE  GrantInv'
  <2>1. kind' = kind /\ UNCHANGED rights /\ (card' = card \/ card' = r)
    BY <1>8 DEF Asks
  <2> QED
    BY <2>1, Untouched DEF GrantInv, RightsOK
<1>9. CASE Unsupported \/ KThinks \/ KWrites \/ KCompletes \/ KOutputs \/ KObserves
           \/ KGivesUp \/ KCompacts \/ KFails
  <2>1. kind' = kind /\ UNCHANGED rights /\ card' = card
    BY <1>9 DEF Unsupported, KThinks, KWrites, KCompletes, KOutputs, KObserves, KGivesUp,
                KCompacts, KFails, Take
  <2> QED
    BY <2>1, Untouched DEF GrantInv, RightsOK
<1> QED
  BY <1>1, <1>2, <1>3, <1>4, <1>5, <1>6, <1>7, <1>8, <1>9, AuthorisedKeeps, WavedKeeps DEF Next

\* Whatever providers ask for, in whatever order and however often, they are let through
\* what the user's answer allows and no more (consume_resume_authorization and
\* _run_allowed_tools of Claude's bridge).
THEOREM AnswersAreSpent == Spec => []GrantedOnce
<1>1. GrantInv => GrantedOnce
  BY DEF GrantInv
<1> QED
  BY <1>1, InitGrantInv, NextGrantInv, PTL DEF Spec

-----------------------------------------------------------------------------
(* What a client sees, event by event.                                     *)

\* A set that has 0, and of each number before l the next one, has all up to l.
LEMMA UpTo ==
  ASSUME NEW l \in Nat, NEW S, 0 \in S, \A n \in 0..(l - 1) : n \in S => n + 1 \in S
  PROVE  \A n \in 0..l : n \in S
<1> DEFINE Bad == {n \in 0..l : n \notin S}
<1> SUFFICES ASSUME Bad # {} PROVE FALSE
  OBVIOUS
<1>1. Bad \subseteq Nat
  OBVIOUS
<1>2. PICK m \in Bad : \A k \in Bad : ~ (<<k, m>> \in OpToRel(<, Nat))
  <2> HIDE DEF Bad
  <2> QED BY <1>1, NatLessThanWellFounded, WFMin
<1>3. m \in 1..l /\ m - 1 \in 0..(l - 1) /\ m - 1 \in Nat /\ m - 1 < m
  <2>1. m \in 0..l /\ m # 0
    OBVIOUS
  <2> QED BY <2>1
<1>4. m - 1 \notin Bad
  BY <1>1, <1>2, <1>3 DEF OpToRel
<1>5. m - 1 \in S
  BY <1>3, <1>4
<1>6. m - 1 + 1 = m
  BY <1>3
<1> QED BY <1>2, <1>3, <1>5, <1>6

\* A client that is c becomes d by these events, each of which it accepts: k[n] is what it
\* is after n of them.
Along(c, ws, d, k) ==
  /\ k[0] = c /\ k[Len(ws)] = d
  /\ \A n \in 1..Len(ws) : Accepts(k[n - 1], ws[n]) /\ k[n] = Seen(k[n - 1], ws[n])
Follows(c, ws, d) == \E k : Along(c, ws, d, k)

\* Without events the client stays as it is.
LEMMA FollowsNone ==
  ASSUME NEW c PROVE Follows(c, <<>>, c)
<1> DEFINE k == [n \in 0..0 |-> c]
<1>1. Len(<<>>) = 0 /\ 1..0 = {} /\ k[0] = c
  OBVIOUS
<1>2. Along(c, <<>>, c, k)
  BY <1>1 DEF Along
<1> QED BY <1>2 DEF Follows

\* One event the client accepts.
LEMMA FollowsOne ==
  ASSUME NEW c, NEW w, Accepts(c, w)
  PROVE  Follows(c, <<w>>, Seen(c, w))
<1> DEFINE k == [n \in 0..1 |-> IF n = 0 THEN c ELSE Seen(c, w)]
<1>1. Len(<<w>>) = 1 /\ <<w>>[1] = w /\ k[0] = c /\ k[1] = Seen(c, w)
  OBVIOUS
<1> HIDE DEF k
<1>2. \A n \in 1..1 : n = 1 /\ n - 1 = 0
  OBVIOUS
<1>3. Along(c, <<w>>, Seen(c, w), k)
  BY <1>1, <1>2 DEF Along
<1> QED BY <1>3 DEF Follows

\* What follows from the one and then from the other follows from both.
LEMMA FollowsBoth ==
  ASSUME NEW T, NEW a \in Seq(T), NEW b \in Seq(T), NEW c, NEW d, NEW e,
         Follows(c, a, d), Follows(d, b, e)
  PROVE  Follows(c, a \o b, e)
<1>1. PICK f : Along(c, a, d, f)
  BY DEF Follows
<1>2. PICK g : Along(d, b, e, g)
  BY DEF Follows
<1> DEFINE la == Len(a)
           lb == Len(b)
           ab == a \o b
           k == [n \in 0..(la + lb) |-> IF n <= la THEN f[n] ELSE g[n - la]]
<1>3. /\ la \in Nat /\ lb \in Nat /\ Len(ab) = la + lb
      /\ \A n \in 1..(la + lb) : ab[n] = IF n <= la THEN a[n] ELSE b[n - la]
  BY ConcatProperties
<1>4. /\ f[0] = c /\ f[la] = d /\ g[0] = d /\ g[lb] = e
      /\ \A n \in 1..la : Accepts(f[n - 1], a[n]) /\ f[n] = Seen(f[n - 1], a[n])
      /\ \A n \in 1..lb : Accepts(g[n - 1], b[n]) /\ g[n] = Seen(g[n - 1], b[n])
  BY <1>1, <1>2 DEF Along
<1> HIDE DEF la, lb, ab
<1>5. /\ \A n \in 0..la : k[n] = f[n]
      /\ \A n \in 0..lb : k[n + la] = g[n]
  <2>1. ASSUME NEW n \in 0..la PROVE k[n] = f[n]
    BY <1>3
  <2>2. ASSUME NEW n \in 0..lb, NEW m, m = n + la PROVE k[m] = g[n]
    <3>1. m \in 0..(la + lb) /\ m - la = n
      BY <1>3, <2>2
    <3>2. CASE n = 0
      BY <1>3, <1>4, <2>2, <3>1, <3>2
    <3>3. CASE n # 0
      <4>1. ~ (m <= la)
        BY <1>3, <2>2, <3>3
      <4> QED BY <3>1, <4>1
    <3> QED BY <3>2, <3>3
  <2> QED BY <2>1, <2>2
<1> HIDE DEF k
<1>6. ASSUME NEW n \in 1..(la + lb)
      PROVE  Accepts(k[n - 1], ab[n]) /\ k[n] = Seen(k[n - 1], ab[n])
  <2>1. CASE n <= la
    <3>1. n \in 1..la /\ n \in 0..la /\ n - 1 \in 0..la
      BY <1>3, <2>1
    <3> QED BY <1>3, <1>4, <1>5, <2>1, <3>1
  <2>2. CASE ~ (n <= la)
    <3> DEFINE m == n - la
    <3>1. m \in 1..lb /\ m \in 0..lb /\ m - 1 \in 0..lb /\ m + la = n /\ m - 1 + la = n - 1
      BY <1>3, <2>2
    <3>2. ab[n] = b[m]
      BY <1>3, <2>2
    <3> HIDE DEF m
    <3>3. k[n] = g[m] /\ k[n - 1] = g[m - 1]
      <4>1. k[m + la] = g[m]
        BY <1>5, <3>1
      <4>2. k[m - 1 + la] = g[m - 1]
        BY <1>5, <3>1
      <4> QED BY <3>1, <4>1, <4>2
    <3> QED BY <1>4, <3>1, <3>2, <3>3
  <2> QED BY <2>1, <2>2
<1>7. k[0] = c /\ k[la + lb] = e
  <2>1. 0 \in 0..la /\ lb \in 0..lb /\ lb + la = la + lb
    BY <1>3
  <2>2. k[lb + la] = e
    BY <1>4, <1>5, <2>1
  <2> QED BY <1>4, <1>5, <2>1, <2>2
<1>8. Along(c, ab, e, k)
  BY <1>3, <1>6, <1>7 DEF Along
<1> QED BY <1>8 DEF Follows, ab

\* What is defined step by step is what is seen step by step.
LEMMA SeenAlong ==
  ASSUME NEW c, NEW ws, Len(ws) \in Nat, NEW d, NEW k, Along(c, ws, d, k)
  PROVE  SeenAfter(c, ws) = d
<1> DEFINE l == Len(ws)
           Chain(f) == f = [n \in 0..l |-> IF n = 0 THEN c ELSE Seen(f[n - 1], ws[n])]
           seen == CHOOSE f : Chain(f)
           g == [n \in 0..l |-> k[n]]
<1>1. k[0] = c /\ k[l] = d /\ \A n \in 1..l : k[n] = Seen(k[n - 1], ws[n])
  BY DEF Along
<1>2. Chain(g)
  <2>1. \A n \in 0..l : g[n] = IF n = 0 THEN c ELSE Seen(g[n - 1], ws[n])
    <3> SUFFICES ASSUME NEW n \in 0..l PROVE g[n] = IF n = 0 THEN c ELSE Seen(g[n - 1], ws[n])
      OBVIOUS
    <3>1. CASE n = 0
      BY <1>1, <3>1
    <3>2. CASE n # 0
      <4>1. n \in 1..l /\ n - 1 \in 0..l
        BY <3>2
      <4>2. g[n] = k[n] /\ g[n - 1] = k[n - 1]
        BY <4>1
      <4> HIDE DEF g
      <4> QED BY <1>1, <3>2, <4>1, <4>2
    <3> QED BY <3>1, <3>2
  <2> QED BY <2>1
<1>3. Chain(seen)
  <2>1. \E f : Chain(f)
    BY <1>2
  <2> QED BY <2>1
<1>4. \A n \in 0..l : seen[n] = IF n = 0 THEN c ELSE Seen(seen[n - 1], ws[n])
  <2> HIDE DEF seen
  <2> QED BY <1>3
<1>5. SeenAfter(c, ws) = seen[l]
  BY DEF SeenAfter
<1> HIDE DEF seen
<1> DEFINE Same == {n \in 0..l : seen[n] = k[n]}
<1>6. 0 \in Same
  BY <1>1, <1>4
<1>7. \A n \in 0..(l - 1) : n \in Same => n + 1 \in Same
  <2> SUFFICES ASSUME NEW n \in 0..(l - 1), n \in Same, NEW m, m = n + 1 PROVE m \in Same
    OBVIOUS
  <2>1. m \in 0..l /\ m \in 1..l /\ m - 1 = n /\ m # 0
    OBVIOUS
  <2>2. seen[m] = Seen(seen[n], ws[m]) /\ k[m] = Seen(k[n], ws[m])
    BY <1>1, <1>4, <2>1
  <2> QED BY <2>1, <2>2
<1> HIDE DEF Same
<1>8. l \in Same
  <2>1. l \in 0..l
    OBVIOUS
  <2> QED BY <1>6, <1>7, <2>1, UpTo
<1> QED BY <1>1, <1>5, <1>8 DEF Same

\* Events that follow are what Put shows and Protocol asks about.
LEMMA SeenFollows ==
  ASSUME NEW T, NEW ws \in Seq(T), NEW c, NEW d, Follows(c, ws, d)
  PROVE  /\ SeenAfter(c, ws) = d
         /\ \A i \in DOMAIN ws : Accepts(SeenAfter(c, SubSeq(ws, 1, i - 1)), ws[i])
<1>1. PICK k : Along(c, ws, d, k)
  BY DEF Follows
<1>2. SeenAfter(c, ws) = d
  BY <1>1, SeenAlong
<1>3. ASSUME NEW i \in DOMAIN ws PROVE Accepts(SeenAfter(c, SubSeq(ws, 1, i - 1)), ws[i])
  <2> DEFINE us == SubSeq(ws, 1, i - 1)
  <2>1. i \in 1..Len(ws) /\ i - 1 \in Nat /\ i - 1 <= Len(ws)
    OBVIOUS
  <2>2. Len(us) = i - 1 /\ \A n \in 1..(i - 1) : us[n] = ws[n] /\ n \in 1..Len(ws)
    BY <2>1
  <2> HIDE DEF us
  <2>3. Along(c, us, k[i - 1], k)
    BY <1>1, <2>2 DEF Along
  <2>4. SeenAfter(c, us) = k[i - 1]
    BY <2>1, <2>2, <2>3, SeenAlong
  <2>5. Accepts(k[i - 1], ws[i])
    BY <1>1, <2>1 DEF Along
  <2> QED BY <2>4, <2>5 DEF us
<1> QED BY <1>2, <1>3

-----------------------------------------------------------------------------
(* One event of a runner, on the wire.                                     *)

Clients == [run : {"running", "over"}, reasoning : Nat, thought : Nat, texts : SUBSET Nat,
            calls : SUBSET Nat, results : SUBSET Nat, text : Seq(Nat)]
Translators == [outer : Nat, inner : Nat, detail : Seq(Nat), ended : SUBSET Nat]
WireTypes == {"reasoning_start", "reasoning_message_start", "reasoning_content",
              "reasoning_message_end", "reasoning_end", "text_start", "text_content", "text_end",
              "tool_call", "tool_output", "tool_result", "run_finished", "run_error",
              "run_interrupted", "custom"}
Wires == [type : WireTypes, id : Nat, text : Seq(Nat)]
EventTypes == {"reasoning_start", "reasoning_delta", "reasoning_end", "thinking", "message_start",
               "delta", "message_end", "tool_start", "tool_output", "tool_result", "context",
               "final", "cli_session", "cli_error"}
Events == [type : EventTypes, id : Nat, text : Seq(Nat), active : BOOLEAN]

\* The translator and the client, and how they stand to each other while the run goes on.
Views == [agui : Translators, client : Clients]
InStep(u) ==
  /\ u.client.run = "running"
  /\ u.client.reasoning = u.agui.outer /\ u.client.thought = u.agui.inner
  /\ u.agui.outer = None <=> u.agui.inner = None

\* An event takes the one to the other, each event on the wire is accepted, and the client
\* is shown what the event says.
StepTo(u, e, v) ==
  /\ v.agui = StateAfter(u.agui, e)
  /\ Follows(u.client, WireOf(u.agui, e), v.client)
  /\ v.client.text = u.client.text \o Pieces(e)

\* Of a client, all but the reasoning.
Alike(c, d) ==
  d.run = c.run /\ d.texts = c.texts /\ d.calls = c.calls /\ d.results = c.results /\ d.text = c.text
Shut(c, d) == d \in Clients /\ Alike(c, d) /\ d.reasoning = None /\ d.thought = None

\* What is put on the wire are events of the wire, with the type and the id given.
LEMMA WireIs ==
  /\ \A type \in WireTypes, id \in Nat :
       /\ Wire(type, id) \in Wires
       /\ Wire(type, id).type = type /\ Wire(type, id).id = id
  /\ \A type \in WireTypes, id \in Nat, text \in Seq(Nat) :
       WireText(type, id, text) \in Seq(Wires)
<1>1. ASSUME NEW type \in WireTypes, NEW id \in Nat
      PROVE  Wire(type, id) \in Wires /\ Wire(type, id).type = type /\ Wire(type, id).id = id
  <2>1. <<>> \in Seq(Nat)
    OBVIOUS
  <2> HIDE DEF WireTypes
  <2> QED BY <2>1 DEF Wire, Wires
<1>2. ASSUME NEW type \in WireTypes, NEW id \in Nat, NEW text \in Seq(Nat)
      PROVE  WireText(type, id, text) \in Seq(Wires)
  <2> DEFINE w == [type |-> type, id |-> id, text |-> text]
  <2>1. w \in Wires
    BY DEF Wires
  <2> HIDE DEF w
  <2>2. <<>> \in Seq(Wires) /\ << w >> \in Seq(Wires)
    BY <2>1
  <2> QED BY <2>2 DEF WireText, w
<1> QED BY <1>1, <1>2

\* A client that has seen an event is a client.
LEMMA SeenIs == ASSUME NEW c \in Clients, NEW w \in Wires PROVE Seen(c, w) \in Clients
<1>1. w.id \in Nat /\ w.text \in Seq(Nat)
  BY DEF Wires
<1>2. CASE w.type = "text_content"
  <2>1. c.text \o w.text \in Seq(Nat)
    BY <1>1 DEF Clients
  <2>2. Seen(c, w) = [c EXCEPT !.text = c.text \o w.text]
    BY <1>2 DEF Seen
  <2> QED BY <2>1, <2>2 DEF Clients
<1>3. CASE w.type \in {"reasoning_start", "reasoning_message_start", "reasoning_message_end", "reasoning_end"}
  BY <1>1, <1>3 DEF Seen, Clients, None
<1>4. CASE w.type \in {"text_start", "text_end", "tool_call", "tool_result"}
  BY <1>1, <1>4 DEF Seen, Clients
<1>5. CASE w.type \in {"run_finished", "run_error", "run_interrupted"}
  BY <1>5 DEF Seen, Clients
<1>6. CASE w.type \notin {"text_content", "reasoning_start", "reasoning_message_start",
                         "reasoning_message_end", "reasoning_end", "text_start", "text_end",
                         "tool_call", "tool_result", "run_finished", "run_error", "run_interrupted"}
  BY <1>6 DEF Seen
<1> QED BY <1>2, <1>3, <1>4, <1>5, <1>6

\* Once closed, the translator has no reasoning open.
LEMMA ClosedIs ==
  ASSUME NEW t \in Translators
  PROVE  Closed(t) \in Translators /\ Closed(t).outer = None /\ Closed(t).inner = None
<1> DEFINE ended == IF t.outer # None /\ t.inner # None THEN t.ended \cup {t.inner} ELSE t.ended
<1>1. Closed(t) = [t EXCEPT !.outer = None, !.inner = None, !.detail = <<>>, !.ended = ended]
  BY DEF Closed
<1>2. ended \in SUBSET Nat /\ <<>> \in Seq(Nat) /\ None \in Nat
  BY DEF Translators, None
<1> HIDE DEF ended
<1> QED BY <1>1, <1>2 DEF Translators

\* What is open of the reasoning is closed.
LEMMA CloseFollows ==
  ASSUME NEW u \in Views, InStep(u)
  PROVE  /\ CloseReasoning(u.agui) \in Seq(Wires)
         /\ \E d : Follows(u.client, CloseReasoning(u.agui), d) /\ Shut(u.client, d)
<1> DEFINE c == u.client
           t == u.agui
<1>1. c \in Clients /\ t \in Translators
  BY DEF Views
<1>2. /\ c.run = "running" /\ c.reasoning = t.outer /\ c.thought = t.inner
      /\ t.outer = None <=> t.inner = None
  BY DEF InStep
<1> HIDE DEF c, t
<1>3. CASE t.outer = None
  <2>1. CloseReasoning(t) = <<>>
    BY <1>3 DEF CloseReasoning
  <2>2. Shut(c, c)
    BY <1>1, <1>2, <1>3 DEF Shut, Alike
  <2>3. <<>> \in Seq(Wires)
    OBVIOUS
  <2> QED BY <2>1, <2>2, <2>3, FollowsNone DEF c, t
<1>4. CASE t.outer # None
  <2> DEFINE a == Wire("reasoning_message_end", t.inner)
             b == Wire("reasoning_end", t.outer)
             m == Seen(c, a)
             d == Seen(m, b)
  <2>1. CloseReasoning(t) = <<a>> \o <<b>>
    BY <1>2, <1>4 DEF CloseReasoning
  <2>2. /\ a \in Wires /\ b \in Wires /\ a.type = "reasoning_message_end" /\ b.type = "reasoning_end"
        /\ a.id = t.inner /\ b.id = t.outer
    <3>1. t.inner \in Nat /\ t.outer \in Nat
      BY <1>1 DEF Translators
    <3> QED BY <3>1, WireIs DEF WireTypes
  <2> HIDE DEF a, b
  <2>3. Accepts(c, a)
    BY <1>2, <2>2 DEF Accepts
  <2>4. m = [c EXCEPT !.thought = None]
    BY <2>2 DEF Seen
  <2>5. m \in Clients /\ Alike(c, m) /\ m.thought = None /\ m.reasoning = c.reasoning
    BY <1>1, <2>4 DEF Clients, Alike, None
  <2>6. Follows(c, <<a>>, m)
    BY <2>3, FollowsOne
  <2> HIDE DEF m
  <2>7. Accepts(m, b)
    BY <1>2, <2>2, <2>5 DEF Accepts, Alike
  <2>8. d = [m EXCEPT !.reasoning = None]
    BY <2>2 DEF Seen
  <2>9. Shut(c, d)
    BY <2>5, <2>8 DEF Clients, Alike, Shut, None
  <2>10. Follows(m, <<b>>, d)
    BY <2>7, FollowsOne
  <2> HIDE DEF d
  <2>11. <<a>> \in Seq(Wires) /\ <<b>> \in Seq(Wires)
    BY <2>2
  <2>12. <<a>> \o <<b>> \in Seq(Wires)
    BY <2>11
  <2>13. Follows(c, <<a>> \o <<b>>, d)
    BY <2>6, <2>10, <2>11, FollowsBoth
  <2> QED BY <2>1, <2>9, <2>12, <2>13 DEF c, t
<1> QED BY <1>3, <1>4

\* An event that ends the reasoning and is one event on the wire.
LEMMA Crosses ==
  ASSUME NEW u \in Views, InStep(u), NEW e, e.type \in EventTypes \ {"thinking", "reasoning_start"},
         ~Untranslatable(u.agui, e), Boundary(e), NEW w \in Wires, Plain(e) = <<w>>,
         \A d : Shut(u.client, d) => Accepts(d, w)
  PROVE  \E d : /\ Shut(u.client, d)
                /\ Follows(u.client, WireOf(u.agui, e), Seen(d, w))
                /\ StateAfter(u.agui, e) = Closed(u.agui)
                /\ Closed(u.agui) \in Translators
                /\ Closed(u.agui).outer = None /\ Closed(u.agui).inner = None
<1>1. PICK d : Follows(u.client, CloseReasoning(u.agui), d) /\ Shut(u.client, d)
  BY CloseFollows
<1>2. CloseReasoning(u.agui) \in Seq(Wires) /\ <<w>> \in Seq(Wires)
  BY CloseFollows
<1>3. WireOf(u.agui, e) = CloseReasoning(u.agui) \o <<w>>
  BY DEF WireOf
<1>4. Follows(d, <<w>>, Seen(d, w))
  BY <1>1, FollowsOne
<1>5. Follows(u.client, WireOf(u.agui, e), Seen(d, w))
  BY <1>1, <1>2, <1>3, <1>4, FollowsBoth
<1>6. StateAfter(u.agui, e) = Closed(u.agui)
  <2>1. e.type # "reasoning_end"
    BY DEF Boundary
  <2> QED BY <2>1 DEF StateAfter
<1>7. u.agui \in Translators
  BY DEF Views
<1>8. /\ Closed(u.agui) \in Translators
      /\ Closed(u.agui).outer = None /\ Closed(u.agui).inner = None
  BY <1>7, ClosedIs
<1> QED BY <1>1, <1>5, <1>6, <1>8

\* An event that leaves the reasoning alone.
LEMMA Passes ==
  ASSUME NEW u \in Views, NEW e, e.type \in EventTypes \ {"thinking", "reasoning_start", "reasoning_end"},
         ~Untranslatable(u.agui, e), ~Boundary(e), NEW w \in Wires, Plain(e) = <<w>>,
         Accepts(u.client, w)
  PROVE  /\ Follows(u.client, WireOf(u.agui, e), Seen(u.client, w))
         /\ StateAfter(u.agui, e) = u.agui
<1>1. <<>> \o <<w>> = <<w>>
  OBVIOUS
<1>2. WireOf(u.agui, e) = <<w>>
  BY <1>1 DEF WireOf
<1>3. StateAfter(u.agui, e) = u.agui
  BY DEF StateAfter
<1> QED BY <1>2, <1>3, FollowsOne

\* A step after which the client has these texts open, calls and results.
Reaches(u, e, v, texts, calls, results) ==
  /\ v \in Views /\ StepTo(u, e, v) /\ InStep(v)
  /\ v.client.texts = texts /\ v.client.calls = calls /\ v.client.results = results

\* The fields of events.
LEMMA EventIs ==
  /\ \A type, id : LET e == Event(type, id) IN
       e.type = type /\ e.id = id /\ e.text = <<>> /\ e.active = FALSE
  /\ \A type, id, text : LET e == Delta(type, id, text) IN
       e.type = type /\ e.id = id /\ e.text = text /\ e.active = FALSE
  /\ \A id, text, active : LET e == Thinking(id, text, active) IN
       e.type = "thinking" /\ e.id = id /\ e.text = text /\ e.active = active
BY DEF Event, Delta, Thinking

\* What the runners emit are events.
LEMMA EventsAre ==
  /\ \A type \in EventTypes, id \in Nat : Event(type, id) \in Events
  /\ \A type \in EventTypes, id \in Nat, text \in Seq(Nat) : Delta(type, id, text) \in Events
  /\ \A id \in Nat, text \in Seq(Nat), active \in BOOLEAN : Thinking(id, text, active) \in Events
<1>1. <<>> \in Seq(Nat) /\ "thinking" \in EventTypes
  BY DEF EventTypes
<1> QED BY <1>1 DEF Event, Delta, Thinking, Events

\* Nothing to add.
LEMMA NothingAdded ==
  ASSUME NEW c \in Clients
  PROVE  c.text \o <<>> = c.text /\ c.text \in Seq(Nat)
<1>1. c.text \in Seq(Nat)
  BY DEF Clients
<1> QED BY <1>1

\* An event that ends the reasoning leaves the client and the translator in step.
LEMMA CrossedTo ==
  ASSUME NEW u \in Views, InStep(u), NEW e, e.type \in EventTypes \ {"thinking", "reasoning_start"},
         ~Untranslatable(u.agui, e), Boundary(e), NEW w \in Wires, Plain(e) = <<w>>,
         w.type \in {"text_start", "text_content", "tool_call", "custom", "run_finished"},
         Pieces(e) = IF w.type = "text_content" THEN w.text ELSE <<>>,
         \A d : Shut(u.client, d) => Accepts(d, w)
  PROVE  \E v : /\ v \in Views /\ StepTo(u, e, v)
                /\ w.type # "run_finished" => InStep(v)
                /\ \E d : Shut(u.client, d) /\ v.client = Seen(d, w)
<1>1. PICK d : /\ Shut(u.client, d)
               /\ Follows(u.client, WireOf(u.agui, e), Seen(d, w))
               /\ StateAfter(u.agui, e) = Closed(u.agui)
               /\ Closed(u.agui) \in Translators
               /\ Closed(u.agui).outer = None /\ Closed(u.agui).inner = None
  BY Crosses
<1> DEFINE c == Seen(d, w)
           v == [agui |-> Closed(u.agui), client |-> c]
<1>2. d \in Clients /\ Alike(u.client, d) /\ d.reasoning = None /\ d.thought = None
  BY <1>1 DEF Shut
<1>3. c \in Clients
  BY <1>2, SeenIs
<1>4. /\ c.reasoning = None /\ c.thought = None
      /\ w.type # "run_finished" => c.run = d.run
  <2>1. d.reasoning = None /\ d.thought = None
    BY <1>2
  <2> QED BY <1>2, <2>1 DEF Seen, Clients
<1>5. c.text = d.text \o Pieces(e)
  <2>1. CASE w.type = "text_content"
    BY <1>2, <2>1 DEF Seen, Clients
  <2>2. CASE w.type # "text_content"
    <3>1. c.text = d.text
      BY <1>2, <2>2 DEF Seen, Clients
    <3> QED BY <1>2, <2>2, <3>1, NothingAdded
  <2> QED BY <2>1, <2>2
<1>6. d.run = u.client.run /\ d.text = u.client.text /\ u.client.run = "running"
  BY <1>2 DEF Alike, InStep
<1>7. v.agui = Closed(u.agui) /\ v.client = c /\ v \in Views
  BY <1>1, <1>3 DEF Views
<1> HIDE DEF v, c
<1>8. StepTo(u, e, v)
  BY <1>1, <1>5, <1>6, <1>7 DEF StepTo, c
<1>9. w.type # "run_finished" => InStep(v)
  BY <1>1, <1>4, <1>6, <1>7 DEF InStep
<1> QED BY <1>1, <1>7, <1>8, <1>9 DEF c

\* A text that is not open can be started.
LEMMA TextStarts ==
  ASSUME NEW u \in Views, InStep(u), NEW id \in Nat, id \notin u.client.texts
  PROVE  \E v : Reaches(u, Event("message_start", id), v, u.client.texts \cup {id},
                        u.client.calls, u.client.results)
<1> DEFINE e == Event("message_start", id)
           w == Wire("text_start", id)
<1>1. e.type = "message_start" /\ e.id = id /\ e.text = <<>>
  BY EventIs
<1>2. w \in Wires /\ w.type = "text_start" /\ w.id = id
  BY WireIs DEF WireTypes
<1>3. Plain(e) = <<w>>
  BY <1>1 DEF Plain
<1> HIDE DEF e, w
<1>4. /\ ~Untranslatable(u.agui, e) /\ Boundary(e) /\ Pieces(e) = <<>>
      /\ e.type \in EventTypes \ {"thinking", "reasoning_start"}
  BY <1>1 DEF Untranslatable, Boundary, Pieces, EventTypes
<1>5. \A d : Shut(u.client, d) => Accepts(d, w)
  BY <1>2 DEF Shut, Alike, Accepts, InStep
<1>6. PICK v : /\ v \in Views /\ StepTo(u, e, v) /\ InStep(v)
               /\ \E d : Shut(u.client, d) /\ v.client = Seen(d, w)
  BY <1>2, <1>3, <1>4, <1>5, CrossedTo
<1>7. PICK d : Shut(u.client, d) /\ v.client = Seen(d, w)
  BY <1>6
<1>8. d \in Clients /\ d.texts = u.client.texts /\ d.calls = u.client.calls /\ d.results = u.client.results
  BY <1>7 DEF Shut, Alike
<1>9. v.client.texts = d.texts \cup {id} /\ v.client.calls = d.calls /\ v.client.results = d.results
  BY <1>2, <1>7, <1>8 DEF Seen, Clients
<1> QED BY <1>6, <1>8, <1>9 DEF Reaches, e

\* An open text goes on, and the client is shown the pieces.
LEMMA TextGoesOn ==
  ASSUME NEW u \in Views, InStep(u), NEW id \in Nat, id \in u.client.texts,
         NEW text \in Seq(Nat), text # <<>>
  PROVE  \E v : /\ Reaches(u, Delta("delta", id, text), v, u.client.texts,
                           u.client.calls, u.client.results)
                /\ v.client.text = u.client.text \o text
<1> DEFINE e == Delta("delta", id, text)
           w == [type |-> "text_content", id |-> id, text |-> text]
<1>1. e.type = "delta" /\ e.id = id /\ e.text = text
  BY EventIs
<1>2. w \in Wires /\ w.type = "text_content" /\ w.id = id /\ w.text = text
  BY DEF WireTypes, Wires
<1>3. Plain(e) = <<w>>
  BY <1>1 DEF Plain, WireText
<1> HIDE DEF e, w
<1>4. /\ ~Untranslatable(u.agui, e) /\ Boundary(e) /\ Pieces(e) = text
      /\ e.type \in EventTypes \ {"thinking", "reasoning_start"}
  BY <1>1 DEF Untranslatable, Boundary, Pieces, EventTypes
<1>5. \A d : Shut(u.client, d) => Accepts(d, w)
  BY <1>2 DEF Shut, Alike, Accepts, InStep
<1>6. PICK v : /\ v \in Views /\ StepTo(u, e, v) /\ InStep(v)
               /\ \E d : Shut(u.client, d) /\ v.client = Seen(d, w)
  BY <1>2, <1>3, <1>4, <1>5, CrossedTo
<1>7. PICK d : Shut(u.client, d) /\ v.client = Seen(d, w)
  BY <1>6
<1>8. d \in Clients /\ d.texts = u.client.texts /\ d.calls = u.client.calls /\ d.results = u.client.results
  BY <1>7 DEF Shut, Alike
<1>9. v.client.texts = d.texts /\ v.client.calls = d.calls /\ v.client.results = d.results
  BY <1>2, <1>7, <1>8 DEF Seen, Clients
<1>10. v.client.text = u.client.text \o text
  BY <1>4, <1>6 DEF StepTo
<1> QED BY <1>6, <1>8, <1>9, <1>10 DEF Reaches, e

\* A call with a new id can be announced.
LEMMA CallStarts ==
  ASSUME NEW u \in Views, InStep(u), NEW id \in Nat, id \notin u.client.calls
  PROVE  \E v : Reaches(u, Event("tool_start", id), v, u.client.texts,
                        u.client.calls \cup {id}, u.client.results)
<1> DEFINE e == Event("tool_start", id)
           w == Wire("tool_call", id)
<1>1. e.type = "tool_start" /\ e.id = id /\ e.text = <<>>
  BY EventIs
<1>2. w \in Wires /\ w.type = "tool_call" /\ w.id = id
  BY WireIs DEF WireTypes
<1>3. Plain(e) = <<w>>
  BY <1>1 DEF Plain
<1> HIDE DEF e, w
<1>4. /\ ~Untranslatable(u.agui, e) /\ Boundary(e) /\ Pieces(e) = <<>>
      /\ e.type \in EventTypes \ {"thinking", "reasoning_start"}
  BY <1>1 DEF Untranslatable, Boundary, Pieces, EventTypes
<1>5. \A d : Shut(u.client, d) => Accepts(d, w)
  BY <1>2 DEF Shut, Alike, Accepts, InStep
<1>6. PICK v : /\ v \in Views /\ StepTo(u, e, v) /\ InStep(v)
               /\ \E d : Shut(u.client, d) /\ v.client = Seen(d, w)
  BY <1>2, <1>3, <1>4, <1>5, CrossedTo
<1>7. PICK d : Shut(u.client, d) /\ v.client = Seen(d, w)
  BY <1>6
<1>8. d \in Clients /\ d.texts = u.client.texts /\ d.calls = u.client.calls /\ d.results = u.client.results
  BY <1>7 DEF Shut, Alike
<1>9. v.client.texts = d.texts /\ v.client.calls = d.calls \cup {id} /\ v.client.results = d.results
  BY <1>2, <1>7, <1>8 DEF Seen, Clients
<1> QED BY <1>6, <1>8, <1>9 DEF Reaches, e

\* The budget is reported in passing.
LEMMA ContextCrosses ==
  ASSUME NEW u \in Views, InStep(u)
  PROVE  \E v : Reaches(u, Event("context", None), v, u.client.texts,
                        u.client.calls, u.client.results)
<1> DEFINE e == Event("context", None)
           w == Wire("custom", None)
<1>1. e.type = "context" /\ e.text = <<>>
  BY EventIs
<1>2. w \in Wires /\ w.type = "custom"
  BY WireIs DEF WireTypes, None
<1>3. Plain(e) = <<w>>
  BY <1>1 DEF Plain
<1> HIDE DEF e, w
<1>4. /\ ~Untranslatable(u.agui, e) /\ Boundary(e) /\ Pieces(e) = <<>>
      /\ e.type \in EventTypes \ {"thinking", "reasoning_start"}
  BY <1>1 DEF Untranslatable, Boundary, Pieces, EventTypes
<1>5. \A d : Shut(u.client, d) => Accepts(d, w)
  BY <1>2 DEF Shut, Alike, Accepts, InStep
<1>6. PICK v : /\ v \in Views /\ StepTo(u, e, v) /\ InStep(v)
               /\ \E d : Shut(u.client, d) /\ v.client = Seen(d, w)
  BY <1>2, <1>3, <1>4, <1>5, CrossedTo
<1>7. PICK d : Shut(u.client, d) /\ v.client = Seen(d, w)
  BY <1>6
<1>8. v.client.texts = d.texts /\ v.client.calls = d.calls /\ v.client.results = d.results
  BY <1>2, <1>7 DEF Seen
<1> QED BY <1>6, <1>7, <1>8 DEF Reaches, e, Shut, Alike

\* The end of the run.
LEMMA FinalEnds ==
  ASSUME NEW u \in Views, InStep(u), u.client.texts = {}
  PROVE  \E v : v \in Views /\ StepTo(u, Event("final", None), v)
<1> DEFINE e == Event("final", None)
           w == Wire("run_finished", None)
<1>1. e.type = "final" /\ e.text = <<>>
  BY EventIs
<1>2. w \in Wires /\ w.type = "run_finished"
  BY WireIs DEF WireTypes, None
<1>3. Plain(e) = <<w>>
  BY <1>1 DEF Plain
<1> HIDE DEF e, w
<1>4. /\ ~Untranslatable(u.agui, e) /\ Boundary(e) /\ Pieces(e) = <<>>
      /\ e.type \in EventTypes \ {"thinking", "reasoning_start"}
  BY <1>1 DEF Untranslatable, Boundary, Pieces, EventTypes
<1>5. \A d : Shut(u.client, d) => Accepts(d, w)
  BY <1>2 DEF Shut, Alike, Accepts, InStep
<1>6. \E v : v \in Views /\ StepTo(u, e, v)
  BY <1>2, <1>3, <1>4, <1>5, CrossedTo
<1> QED BY <1>6 DEF e

\* The sentinel of the command line runners: an error, behind the end of the reasoning.
LEMMA ErrorFollows ==
  ASSUME NEW u \in Views, InStep(u)
  PROVE  /\ Failed(u.agui) \in Seq(Wires)
         /\ \E c \in Clients : /\ Follows(u.client, Failed(u.agui), c)
                               /\ c.text = u.client.text /\ c.run = "over"
<1> DEFINE w == Wire("run_error", None)
<1>1. w \in Wires /\ w.type = "run_error"
  BY WireIs DEF WireTypes, None
<1>2. Failed(u.agui) = CloseReasoning(u.agui) \o <<w>>
  BY DEF Failed
<1> HIDE DEF w
<1>3. CloseReasoning(u.agui) \in Seq(Wires) /\ <<w>> \in Seq(Wires)
  BY <1>1, CloseFollows
<1>4. PICK d : Follows(u.client, CloseReasoning(u.agui), d) /\ Shut(u.client, d)
  BY CloseFollows
<1>5. Accepts(d, w)
  BY <1>1, <1>4 DEF Shut, Alike, Accepts, InStep
<1>6. Follows(d, <<w>>, Seen(d, w))
  BY <1>5, FollowsOne
<1>7. Follows(u.client, Failed(u.agui), Seen(d, w))
  BY <1>2, <1>3, <1>4, <1>6, FollowsBoth
<1>8. Failed(u.agui) \in Seq(Wires)
  BY <1>2, <1>3
<1>9. d \in Clients /\ d.text = u.client.text
  BY <1>4 DEF Shut, Alike
<1>10. Seen(d, w) \in Clients /\ Seen(d, w).text = d.text /\ Seen(d, w).run = "over"
  BY <1>1, <1>9 DEF Seen, Clients
<1> QED BY <1>7, <1>8, <1>9, <1>10

\* The error of a turn of Codex can be shown whenever the run goes on.
LEMMA SentinelEnds ==
  ASSUME NEW u \in Views, InStep(u)
  PROVE  \E v : v \in Views /\ StepTo(u, Event("cli_error", None), v)
<1> DEFINE e == Event("cli_error", None)
<1>1. e.type = "cli_error" /\ e.text = <<>>
  BY EventIs
<1> HIDE DEF e
<1>2. PICK c \in Clients : Follows(u.client, Failed(u.agui), c) /\ c.text = u.client.text
  BY ErrorFollows
<1>3. WireOf(u.agui, e) = Failed(u.agui)
  BY <1>1 DEF WireOf, Untranslatable
<1>4. StateAfter(u.agui, e) = u.agui /\ Pieces(e) = <<>>
  BY <1>1 DEF StateAfter, Boundary, Pieces
<1> DEFINE v == [agui |-> u.agui, client |-> c]
<1>5. v \in Views /\ v.agui = u.agui /\ v.client = c
  BY <1>2 DEF Views
<1> HIDE DEF v
<1>6. u.client.text \o <<>> = u.client.text
  <2>1. u.client \in Clients
    BY DEF Views
  <2> QED BY <2>1, NothingAdded
<1>7. StepTo(u, e, v)
  BY <1>2, <1>3, <1>4, <1>5, <1>6 DEF StepTo
<1> QED BY <1>5, <1>7 DEF e

\* An event that leaves the reasoning alone leaves the client and the translator in step.
LEMMA PassedTo ==
  ASSUME NEW u \in Views, InStep(u),
         NEW e, e.type \in EventTypes \ {"thinking", "reasoning_start", "reasoning_end"},
         ~Untranslatable(u.agui, e), ~Boundary(e), NEW w \in Wires, Plain(e) = <<w>>,
         w.type \in {"text_end", "tool_output", "tool_result", "custom"},
         Pieces(e) = <<>>, Accepts(u.client, w)
  PROVE  \E v : v \in Views /\ StepTo(u, e, v) /\ InStep(v) /\ v.client = Seen(u.client, w)
<1> DEFINE c == Seen(u.client, w)
           v == [agui |-> u.agui, client |-> c]
<1>1. Follows(u.client, WireOf(u.agui, e), c) /\ StateAfter(u.agui, e) = u.agui
  BY Passes
<1>2. u.client \in Clients /\ u.agui \in Translators
  BY DEF Views
<1>3. c \in Clients
  BY <1>2, SeenIs
<1>4. /\ c.reasoning = u.client.reasoning /\ c.thought = u.client.thought
      /\ c.run = u.client.run /\ c.text = u.client.text
  BY <1>2 DEF Seen, Clients
<1>5. v.agui = u.agui /\ v.client = c /\ v \in Views
  BY <1>2, <1>3 DEF Views
<1> HIDE DEF v, c
<1>6. u.client.text \o <<>> = u.client.text
  BY <1>2, NothingAdded
<1>7. StepTo(u, e, v)
  BY <1>1, <1>4, <1>5, <1>6 DEF StepTo
<1>8. InStep(v)
  BY <1>4, <1>5 DEF InStep
<1> QED BY <1>5, <1>7, <1>8 DEF c

\* An open text can be ended.
LEMMA TextEnds ==
  ASSUME NEW u \in Views, InStep(u), NEW id \in Nat, id \in u.client.texts
  PROVE  \E v : Reaches(u, Event("message_end", id), v, u.client.texts \ {id},
                        u.client.calls, u.client.results)
<1> DEFINE e == Event("message_end", id)
           w == Wire("text_end", id)
<1>1. e.type = "message_end" /\ e.id = id /\ e.text = <<>>
  BY EventIs
<1>2. w \in Wires /\ w.type = "text_end" /\ w.id = id
  BY WireIs DEF WireTypes
<1>3. Plain(e) = <<w>>
  BY <1>1 DEF Plain
<1> HIDE DEF e, w
<1>4. /\ ~Untranslatable(u.agui, e) /\ ~Boundary(e) /\ Pieces(e) = <<>>
      /\ e.type \in EventTypes \ {"thinking", "reasoning_start", "reasoning_end"}
  BY <1>1 DEF Untranslatable, Boundary, Pieces, EventTypes
<1>5. Accepts(u.client, w)
  BY <1>2 DEF Accepts, InStep
<1>6. PICK v : v \in Views /\ StepTo(u, e, v) /\ InStep(v) /\ v.client = Seen(u.client, w)
  BY <1>2, <1>3, <1>4, <1>5, PassedTo
<1>7. u.client \in Clients
  BY DEF Views
<1>8. /\ v.client.texts = u.client.texts \ {id}
      /\ v.client.calls = u.client.calls /\ v.client.results = u.client.results
  BY <1>2, <1>6, <1>7 DEF Seen, Clients
<1> QED BY <1>6, <1>8 DEF Reaches, e

\* A call that waits for its result may have output.
LEMMA OutputPasses ==
  ASSUME NEW u \in Views, InStep(u), NEW id \in Nat, id \in u.client.calls \ u.client.results
  PROVE  \E v : Reaches(u, Event("tool_output", id), v, u.client.texts,
                        u.client.calls, u.client.results)
<1> DEFINE e == Event("tool_output", id)
           w == Wire("tool_output", id)
<1>1. e.type = "tool_output" /\ e.id = id /\ e.text = <<>>
  BY EventIs
<1>2. w \in Wires /\ w.type = "tool_output" /\ w.id = id
  BY WireIs DEF WireTypes
<1>3. Plain(e) = <<w>>
  BY <1>1 DEF Plain
<1> HIDE DEF e, w
<1>4. /\ ~Untranslatable(u.agui, e) /\ ~Boundary(e) /\ Pieces(e) = <<>>
      /\ e.type \in EventTypes \ {"thinking", "reasoning_start", "reasoning_end"}
  BY <1>1 DEF Untranslatable, Boundary, Pieces, EventTypes
<1>5. Accepts(u.client, w)
  BY <1>2 DEF Accepts, InStep
<1>6. PICK v : v \in Views /\ StepTo(u, e, v) /\ InStep(v) /\ v.client = Seen(u.client, w)
  BY <1>2, <1>3, <1>4, <1>5, PassedTo
<1>7. v.client = u.client
  BY <1>2, <1>6 DEF Seen
<1> QED BY <1>6, <1>7 DEF Reaches, e

\* A call that waits for its result gets it.
LEMMA ResultPasses ==
  ASSUME NEW u \in Views, InStep(u), NEW id \in Nat, id \in u.client.calls \ u.client.results
  PROVE  \E v : Reaches(u, Event("tool_result", id), v, u.client.texts,
                        u.client.calls, u.client.results \cup {id})
<1> DEFINE e == Event("tool_result", id)
           w == Wire("tool_result", id)
<1>1. e.type = "tool_result" /\ e.id = id /\ e.text = <<>>
  BY EventIs
<1>2. w \in Wires /\ w.type = "tool_result" /\ w.id = id
  BY WireIs DEF WireTypes
<1>3. Plain(e) = <<w>>
  BY <1>1 DEF Plain
<1> HIDE DEF e, w
<1>4. /\ ~Untranslatable(u.agui, e) /\ ~Boundary(e) /\ Pieces(e) = <<>>
      /\ e.type \in EventTypes \ {"thinking", "reasoning_start", "reasoning_end"}
  BY <1>1 DEF Untranslatable, Boundary, Pieces, EventTypes
<1>5. Accepts(u.client, w)
  BY <1>2 DEF Accepts, InStep
<1>6. PICK v : v \in Views /\ StepTo(u, e, v) /\ InStep(v) /\ v.client = Seen(u.client, w)
  BY <1>2, <1>3, <1>4, <1>5, PassedTo
<1>7. u.client \in Clients
  BY DEF Views
<1>8. /\ v.client.texts = u.client.texts /\ v.client.calls = u.client.calls
      /\ v.client.results = u.client.results \cup {id}
  BY <1>2, <1>6, <1>7 DEF Seen, Clients
<1> QED BY <1>6, <1>8 DEF Reaches, e

\* The session of the provider is reported in passing.
LEMMA SessionPasses ==
  ASSUME NEW u \in Views, InStep(u)
  PROVE  \E v : Reaches(u, Event("cli_session", None), v, u.client.texts,
                        u.client.calls, u.client.results)
<1> DEFINE e == Event("cli_session", None)
           w == Wire("custom", None)
<1>1. e.type = "cli_session" /\ e.text = <<>>
  BY EventIs
<1>2. w \in Wires /\ w.type = "custom"
  BY WireIs DEF WireTypes, None
<1>3. Plain(e) = <<w>>
  BY <1>1 DEF Plain
<1> HIDE DEF e, w
<1>4. /\ ~Untranslatable(u.agui, e) /\ ~Boundary(e) /\ Pieces(e) = <<>>
      /\ e.type \in EventTypes \ {"thinking", "reasoning_start", "reasoning_end"}
  BY <1>1 DEF Untranslatable, Boundary, Pieces, EventTypes
<1>5. Accepts(u.client, w)
  BY <1>2 DEF Accepts, InStep
<1>6. PICK v : v \in Views /\ StepTo(u, e, v) /\ InStep(v) /\ v.client = Seen(u.client, w)
  BY <1>2, <1>3, <1>4, <1>5, PassedTo
<1>7. v.client = u.client
  BY <1>2, <1>6 DEF Seen
<1> QED BY <1>6, <1>7 DEF Reaches, e

-----------------------------------------------------------------------------
(* Reasoning.                                                              *)

\* Of a client, another with this reasoning.
Reads(c, d, outer, inner) ==
  d \in Clients /\ Alike(c, d) /\ d.reasoning = outer /\ d.thought = inner

\* Where no reasoning is open the client accepts the start of one.
LEMMA BlockOpens ==
  ASSUME NEW c \in Clients, c.run = "running", c.reasoning = None, NEW id \in Nat
  PROVE  \E d : Follows(c, <<Wire("reasoning_start", id)>>, d) /\ Reads(c, d, id, c.thought)
<1> DEFINE w == Wire("reasoning_start", id)
           d == Seen(c, w)
<1>1. w \in Wires /\ w.type = "reasoning_start" /\ w.id = id
  BY WireIs DEF WireTypes
<1> HIDE DEF w
<1>2. Accepts(c, w)
  BY <1>1 DEF Accepts
<1>3. d = [c EXCEPT !.reasoning = id]
  BY <1>1 DEF Seen
<1>4. Reads(c, d, id, c.thought)
  BY <1>3 DEF Clients, Reads, Alike
<1> QED BY <1>2, <1>4, FollowsOne DEF w

\* In an open reasoning a message of it may start.
LEMMA ThoughtStarts ==
  ASSUME NEW c \in Clients, c.run = "running", c.reasoning # None, c.thought = None, NEW id \in Nat
  PROVE  \E d : Follows(c, <<Wire("reasoning_message_start", id)>>, d) /\ Reads(c, d, c.reasoning, id)
<1> DEFINE w == Wire("reasoning_message_start", id)
           d == Seen(c, w)
<1>1. w \in Wires /\ w.type = "reasoning_message_start" /\ w.id = id
  BY WireIs DEF WireTypes
<1> HIDE DEF w
<1>2. Accepts(c, w)
  BY <1>1 DEF Accepts
<1>3. d = [c EXCEPT !.thought = id]
  BY <1>1 DEF Seen
<1>4. Reads(c, d, c.reasoning, id)
  BY <1>3 DEF Clients, Reads, Alike
<1> QED BY <1>2, <1>4, FollowsOne DEF w

\* The message of reasoning that is open can end.
LEMMA ThoughtEnds ==
  ASSUME NEW c \in Clients, c.run = "running"
  PROVE  \E d : /\ Follows(c, <<Wire("reasoning_message_end", c.thought)>>, d)
                /\ Reads(c, d, c.reasoning, None)
<1> DEFINE w == Wire("reasoning_message_end", c.thought)
           d == Seen(c, w)
<1>0. c.thought \in Nat /\ c.reasoning \in Nat
  BY DEF Clients
<1>1. w \in Wires /\ w.type = "reasoning_message_end" /\ w.id = c.thought
  BY <1>0, WireIs DEF WireTypes
<1> HIDE DEF w
<1>2. Accepts(c, w)
  BY <1>1 DEF Accepts
<1>3. d = [c EXCEPT !.thought = None]
  BY <1>1 DEF Seen
<1> HIDE DEF d
<1>4. Reads(c, d, c.reasoning, None)
  <2>1. d \in Clients
    BY <1>3 DEF Clients, None
  <2>2. d.thought = None /\ d.reasoning = c.reasoning /\ Alike(c, d)
    BY <1>3 DEF Clients, Alike
  <2> QED BY <2>1, <2>2 DEF Reads
<1> QED BY <1>2, <1>4, FollowsOne DEF w, d

\* Reasoning without an open message can end.
LEMMA BlockEnds ==
  ASSUME NEW c \in Clients, c.run = "running", c.thought = None
  PROVE  \E d : /\ Follows(c, <<Wire("reasoning_end", c.reasoning)>>, d)
                /\ Reads(c, d, None, None)
<1> DEFINE w == Wire("reasoning_end", c.reasoning)
           d == Seen(c, w)
<1>0. c.reasoning \in Nat
  BY DEF Clients
<1>1. w \in Wires /\ w.type = "reasoning_end" /\ w.id = c.reasoning
  BY <1>0, WireIs DEF WireTypes
<1> HIDE DEF w
<1>2. Accepts(c, w)
  BY <1>1 DEF Accepts
<1>3. d = [c EXCEPT !.reasoning = None]
  BY <1>1 DEF Seen
<1>4. Reads(c, d, None, None)
  BY <1>3 DEF Clients, Reads, Alike, None
<1> QED BY <1>2, <1>4, FollowsOne DEF w

\* The message of reasoning that is open goes on.
LEMMA ThoughtGoesOn ==
  ASSUME NEW c \in Clients, c.run = "running", NEW text \in Seq(Nat)
  PROVE  /\ Follows(c, WireText("reasoning_content", c.thought, text), c)
         /\ WireText("reasoning_content", c.thought, text) \in Seq(Wires)
<1>0. WireText("reasoning_content", c.thought, text) \in Seq(Wires)
  BY WireIs DEF WireTypes, Clients
<1>1. CASE text = <<>>
  BY <1>0, <1>1, FollowsNone DEF WireText
<1>2. CASE text # <<>>
  <2> DEFINE w == [type |-> "reasoning_content", id |-> c.thought, text |-> text]
  <2>1. w.type = "reasoning_content" /\ w.id = c.thought
    OBVIOUS
  <2>2. WireText("reasoning_content", c.thought, text) = <<w>>
    BY <1>2 DEF WireText
  <2> HIDE DEF w
  <2>3. Accepts(c, w) /\ Seen(c, w) = c
    BY <2>1 DEF Accepts, Seen
  <2>4. Follows(c, <<w>>, c)
    BY <2>3, FollowsOne
  <2> QED BY <1>0, <2>2, <2>4
<1> QED BY <1>1, <1>2

\* A message of reasoning that starts with this text.
LEMMA ThoughtStartsWith ==
  ASSUME NEW c \in Clients, c.run = "running", c.reasoning # None, c.thought = None,
         NEW id \in Nat, NEW text \in Seq(Nat)
  PROVE  LET ws == <<Wire("reasoning_message_start", id)>> \o WireText("reasoning_content", id, text)
         IN  ws \in Seq(Wires) /\ \E d : Follows(c, ws, d) /\ Reads(c, d, c.reasoning, id)
<1> DEFINE a == <<Wire("reasoning_message_start", id)>>
           b == WireText("reasoning_content", id, text)
<1>1. PICK d : Follows(c, a, d) /\ Reads(c, d, c.reasoning, id)
  BY ThoughtStarts
<1>2. d \in Clients /\ d.run = "running" /\ d.thought = id
  BY <1>1 DEF Reads, Alike
<1>3. Follows(d, b, d) /\ b \in Seq(Wires)
  BY <1>2, ThoughtGoesOn
<1>4. a \in Seq(Wires)
  BY WireIs DEF WireTypes
<1> HIDE DEF a, b
<1>5. Follows(c, a \o b, d) /\ a \o b \in Seq(Wires)
  BY <1>1, <1>3, <1>4, FollowsBoth
<1> QED BY <1>1, <1>5 DEF a, b

\* Two events one after the other.
LEMMA Pair ==
  ASSUME NEW T, NEW x \in T, NEW y \in T
  PROVE  <<x>> \o <<y>> = <<x, y>>
<1> DEFINE s == <<x>> \o <<y>>
<1>1. <<x>> \in Seq(T) /\ <<y>> \in Seq(T) /\ <<x, y>> \in Seq(T)
  OBVIOUS
<1>2. s \in Seq(T) /\ Len(s) = 2 /\ s[1] = x /\ s[2] = y
  BY <1>1, ConcatProperties
<1> HIDE DEF s
<1>3. Len(<<x, y>>) = 2 /\ <<x, y>>[1] = x /\ <<x, y>>[2] = y
  OBVIOUS
<1>4. \A i \in 1..Len(s) : s[i] = <<x, y>>[i]
  <2>1. \A i \in 1..2 : i = 1 \/ i = 2
    OBVIOUS
  <2> QED BY <1>2, <1>3, <2>1
<1>5. s = <<x, y>>
  BY <1>1, <1>2, <1>3, <1>4, SeqEqual
<1> QED BY <1>5 DEF s

\* What is shown of the reasoning becomes what the snapshot says: the part in the middle.
LEMMA SnapshotShows ==
  ASSUME NEW t \in Translators, NEW c \in Clients, c.run = "running",
         c.reasoning # None, c.thought = t.inner, NEW e \in Events, e.id # None
  PROVE  LET ws == IF t.inner = e.id THEN Grown(t, e) ELSE Entered(t, e)
         IN  ws \in Seq(Wires) /\ \E d : Follows(c, ws, d) /\ Reads(c, d, c.reasoning, e.id)
<1> DEFINE ws == IF t.inner = e.id THEN Grown(t, e) ELSE Entered(t, e)
           sw == <<Wire("reasoning_message_start", e.id)>> \o WireText("reasoning_content", e.id, e.text)
           ew == <<Wire("reasoning_message_end", t.inner)>>
<1>1. e.id \in Nat /\ e.text \in Seq(Nat) /\ t.inner \in Nat /\ t.detail \in Seq(Nat)
  BY DEF Events, Translators
<1>2. /\ Wire("reasoning_message_end", t.inner) \in Wires
      /\ Wire("reasoning_message_start", e.id) \in Wires
      /\ ew \in Seq(Wires)
  <2>1. "reasoning_message_end" \in WireTypes /\ "reasoning_message_start" \in WireTypes
    BY DEF WireTypes
  <2>2. Wire("reasoning_message_end", t.inner) \in Wires /\ Wire("reasoning_message_start", e.id) \in Wires
    BY <1>1, <2>1, WireIs
  <2> QED BY <2>2
<1>3. CASE t.inner = e.id /\ IsPrefix(t.detail, e.text)
  <2> DEFINE tail == SubSeq(e.text, Len(t.detail) + 1, Len(e.text))
  <2>1. tail \in Seq(Nat)
    BY <1>1
  <2> HIDE DEF tail
  <2>2. /\ Follows(c, WireText("reasoning_content", c.thought, tail), c)
        /\ WireText("reasoning_content", c.thought, tail) \in Seq(Wires)
    BY <2>1, ThoughtGoesOn
  <2>3. ws = WireText("reasoning_content", c.thought, tail)
    BY <1>3 DEF Grown, tail
  <2>4. Reads(c, c, c.reasoning, e.id)
    BY <1>3 DEF Reads, Alike
  <2> QED BY <2>2, <2>3, <2>4
<1>4. ASSUME NEW b \in Clients, b.run = "running", b.reasoning = c.reasoning, b.thought = None, Alike(c, b)
      PROVE  sw \in Seq(Wires) /\ \E d : Follows(b, sw, d) /\ Reads(c, d, c.reasoning, e.id)
  <2>1. sw \in Seq(Wires) /\ \E d : Follows(b, sw, d) /\ Reads(b, d, b.reasoning, e.id)
    BY <1>1, <1>4, ThoughtStartsWith
  <2> HIDE DEF sw
  <2> QED BY <1>4, <2>1 DEF Reads, Alike
<1>5. CASE t.inner # e.id /\ t.inner = None
  <2>1. ws = <<>> \o sw
    <3>1. <<>> \o (<<Wire("reasoning_message_start", e.id)>>) = <<Wire("reasoning_message_start", e.id)>>
      OBVIOUS
    <3>2. <<>> \o sw = sw
      <4>1. sw \in Seq(Wires)
        BY <1>4, <1>5 DEF Alike
      <4> HIDE DEF sw
      <4> QED BY <4>1
    <3> QED BY <1>5, <3>1, <3>2 DEF Entered
  <2>2. sw \in Seq(Wires) /\ \E d : Follows(c, sw, d) /\ Reads(c, d, c.reasoning, e.id)
    BY <1>4, <1>5 DEF Alike
  <2> HIDE DEF sw, ws
  <2>3. ws = sw
    BY <2>1, <2>2
  <2> QED BY <2>2, <2>3 DEF ws
<1>6. CASE (t.inner = e.id /\ ~ IsPrefix(t.detail, e.text)) \/ (t.inner # e.id /\ t.inner # None)
  <2>1. PICK b : Follows(c, ew, b) /\ Reads(c, b, c.reasoning, None)
    BY ThoughtEnds
  <2>2. /\ b \in Clients /\ b.run = "running" /\ b.reasoning = c.reasoning /\ b.thought = None
        /\ Alike(c, b)
    BY <2>1 DEF Reads, Alike
  <2>3. PICK d : Follows(b, sw, d) /\ Reads(c, d, c.reasoning, e.id)
    BY <1>4, <2>2
  <2>4. sw \in Seq(Wires)
    BY <1>4, <2>2
  <2>5. ws = ew \o sw
    <3>1. WireText("reasoning_content", e.id, e.text) \in Seq(Wires)
      BY <1>1, WireIs DEF WireTypes
    <3> DEFINE x == Wire("reasoning_message_end", t.inner)
               y == Wire("reasoning_message_start", e.id)
               z == WireText("reasoning_content", e.id, e.text)
    <3>2. ws = IF t.inner = e.id THEN <<x, y>> \o z ELSE (<<x>> \o <<y>>) \o z
      BY <1>6 DEF Grown, Entered
    <3>3. x \in Wires /\ y \in Wires /\ z \in Seq(Wires)
      BY <1>2, <3>1
    <3> HIDE DEF x, y, z
    <3>4. <<x>> \o <<y>> = <<x, y>>
      BY <3>3, Pair
    <3>5. (<<x>> \o <<y>>) \o z = <<x>> \o (<<y>> \o z)
      <4>1. \A p, q, r \in Seq(Wires) : (p \o q) \o r = p \o (q \o r)
        BY ConcatAssociative
      <4>2. <<x>> \in Seq(Wires) /\ <<y>> \in Seq(Wires)
        BY <3>3
      <4> QED BY <3>3, <4>1, <4>2
    <3> QED BY <3>2, <3>4, <3>5 DEF x, y, z
  <2> HIDE DEF ws, sw, ew
  <2>6. Follows(c, ew \o sw, d) /\ ew \o sw \in Seq(Wires)
    BY <1>2, <2>1, <2>3, <2>4, FollowsBoth
  <2> QED BY <2>3, <2>5, <2>6 DEF ws
<1> QED BY <1>3, <1>5, <1>6

\* One view more, in step, from the wire and the state of an event that adds no text.
LEMMA ShownTo ==
  ASSUME NEW u \in Views, InStep(u), NEW e, NEW d, NEW t \in Translators,
         Follows(u.client, WireOf(u.agui, e), d), StateAfter(u.agui, e) = t,
         Reads(u.client, d, t.outer, t.inner), t.outer = None <=> t.inner = None, Pieces(e) = <<>>
  PROVE  \E v : /\ Reaches(u, e, v, u.client.texts, u.client.calls, u.client.results)
                /\ v.agui = t
<1> DEFINE v == [agui |-> t, client |-> d]
<1>1. v.agui = t /\ v.client = d
  OBVIOUS
<1>2. d \in Clients /\ Alike(u.client, d) /\ d.reasoning = t.outer /\ d.thought = t.inner
  BY DEF Reads
<1>3. v \in Views
  BY <1>2 DEF Views
<1> HIDE DEF v
<1>4. u.client.text \o <<>> = u.client.text
  <2>1. u.client \in Clients
    BY DEF Views
  <2> QED BY <2>1, NothingAdded
<1>5. StepTo(u, e, v)
  BY <1>1, <1>2, <1>4 DEF StepTo, Alike
<1>6. InStep(v)
  BY <1>1, <1>2 DEF InStep, Alike
<1> QED BY <1>1, <1>2, <1>3, <1>5, <1>6 DEF Reaches, Alike

\* A snapshot of a step of reasoning.
LEMMA ThinkingShown ==
  ASSUME NEW u \in Views, InStep(u), NEW id \in Nat, id # None, NEW text \in Seq(Nat),
         NEW active \in BOOLEAN
  PROVE  \E v : Reaches(u, Thinking(id, text, active), v, u.client.texts,
                        u.client.calls, u.client.results)
<1> DEFINE e == Thinking(id, text, active)
           c == u.client
           t == u.agui
<1>1. /\ e.type = "thinking" /\ e.id = id /\ e.text = text /\ e.active = active
      /\ e \in Events
  BY EventIs, EventsAre
<1>2. c \in Clients /\ t \in Translators
  BY DEF Views
<1>3. /\ c.run = "running" /\ c.reasoning = t.outer /\ c.thought = t.inner
      /\ t.outer = None <=> t.inner = None
  BY DEF InStep
<1>4. t.outer \in Nat /\ t.inner \in Nat /\ t.detail \in Seq(Nat) /\ t.ended \in SUBSET Nat
  BY <1>2 DEF Translators
<1> HIDE DEF e
<1>5. ~Untranslatable(t, e) /\ Pieces(e) = <<>>
  BY <1>1 DEF Untranslatable, Pieces
<1>6. WireOf(t, e) = SnapshotWire(t, e) /\ StateAfter(t, e) = SnapshotState(t, e)
  BY <1>1, <1>5 DEF WireOf, StateAfter
<1>7. CASE Late(t, e)
  <2>1. WireOf(t, e) = <<>> /\ StateAfter(t, e) = t
    BY <1>6, <1>7 DEF SnapshotWire, SnapshotState
  <2>2. Reads(c, c, t.outer, t.inner)
    BY <1>2, <1>3 DEF Reads, Alike
  <2>3. Follows(c, <<>>, c)
    BY FollowsNone
  <2> QED BY <1>2, <1>3, <1>5, <2>1, <2>2, <2>3, ShownTo DEF e
<1>8. CASE ~ Late(t, e)
  <2> DEFINE o == IF t.outer = None THEN e.id ELSE t.outer
             aw == IF t.outer = None THEN <<Wire("reasoning_start", e.id)>> ELSE <<>>
             bw == IF t.inner = e.id THEN Grown(t, e) ELSE Entered(t, e)
             cw == IF e.active THEN <<>>
                   ELSE <<Wire("reasoning_message_end", e.id), Wire("reasoning_end", o)>>
             left == IF t.inner \in {None, e.id} THEN t.ended ELSE t.ended \cup {t.inner}
             on == [outer |-> o, inner |-> e.id, detail |-> e.text, ended |-> left]
             off == [NoReasoning EXCEPT !.ended = left \cup {e.id}]
  <2>1. WireOf(t, e) = (aw \o bw) \o cw
    BY <1>6, <1>8 DEF SnapshotWire
  <2>2. StateAfter(t, e) = IF e.active THEN on ELSE off
    BY <1>1, <1>6, <1>8 DEF SnapshotState
  <2>3. o \in Nat /\ o # None /\ left \in SUBSET Nat
    BY <1>1, <1>4
  <2>4. /\ on \in Translators /\ on.outer = o /\ on.inner = e.id
        /\ off \in Translators /\ off.outer = None /\ off.inner = None
    <3>1. <<>> \in Seq(Nat) /\ None \in Nat
      BY DEF None
    <3> HIDE DEF o, left
    <3> QED BY <1>1, <2>3, <3>1 DEF Translators, NoReasoning
  <2>5. aw \in Seq(Wires) /\ \E d : Follows(c, aw, d) /\ Reads(c, d, o, t.inner)
    <3>1. CASE t.outer = None
      <4>1. \E d : Follows(c, <<Wire("reasoning_start", e.id)>>, d) /\ Reads(c, d, e.id, c.thought)
        BY <1>1, <1>2, <1>3, <3>1, BlockOpens
      <4>2. Wire("reasoning_start", e.id) \in Wires
        BY <1>1, WireIs DEF WireTypes
      <4> QED BY <1>3, <3>1, <4>1, <4>2
    <3>2. CASE t.outer # None
      <4>1. Follows(c, <<>>, c) /\ Reads(c, c, c.reasoning, c.thought)
        BY <1>2, FollowsNone DEF Reads, Alike
      <4>2. <<>> \in Seq(Wires)
        OBVIOUS
      <4> QED BY <1>3, <3>2, <4>1, <4>2
    <3> QED BY <3>1, <3>2
  <2> HIDE DEF on, off
  <2>6. PICK d : Follows(c, aw, d) /\ Reads(c, d, o, t.inner)
    BY <2>5
  <2>7. d \in Clients /\ d.run = "running" /\ d.reasoning = o /\ d.thought = t.inner /\ Alike(c, d)
    BY <1>3, <2>6 DEF Reads, Alike
  <2>8. bw \in Seq(Wires) /\ \E b : Follows(d, bw, b) /\ Reads(d, b, d.reasoning, e.id)
    <3> HIDE DEF o
    <3> QED BY <1>1, <1>2, <2>3, <2>7, SnapshotShows
  <2>9. PICK b : Follows(d, bw, b) /\ Reads(d, b, o, e.id)
    BY <2>7, <2>8
  <2>10. /\ b \in Clients /\ b.run = "running" /\ b.reasoning = o /\ b.thought = e.id
         /\ Reads(c, b, o, e.id)
    BY <2>7, <2>9 DEF Reads, Alike
  <2> HIDE DEF aw, bw, o
  <2>11. aw \o bw \in Seq(Wires) /\ Follows(c, aw \o bw, b)
    BY <2>5, <2>6, <2>8, <2>9, FollowsBoth
  <2>12. CASE e.active
    <3>1. (aw \o bw) \o <<>> = aw \o bw
      BY <2>11
    <3>2. WireOf(t, e) = aw \o bw /\ StateAfter(t, e) = on
      BY <2>1, <2>2, <2>12, <3>1
    <3>3. Reads(c, b, on.outer, on.inner)
      BY <2>4, <2>10
    <3>4. on.outer = None <=> on.inner = None
      BY <1>1, <2>3, <2>4
    <3>5. Follows(u.client, WireOf(u.agui, e), b)
      BY <2>11, <3>2
    <3> HIDE DEF c, t
    <3> QED BY <1>5, <2>4, <3>2, <3>3, <3>4, <3>5, ShownTo DEF e, c, t
  <2>13. CASE ~ e.active
    <3>1. PICK f : Follows(b, <<Wire("reasoning_message_end", e.id)>>, f) /\ Reads(b, f, o, None)
      BY <2>10, ThoughtEnds
    <3>2. f \in Clients /\ f.run = "running" /\ f.thought = None /\ f.reasoning = o
      BY <2>10, <3>1 DEF Reads, Alike
    <3>3. PICK g : Follows(f, <<Wire("reasoning_end", o)>>, g) /\ Reads(f, g, None, None)
      BY <3>2, BlockEnds
    <3> DEFINE x == Wire("reasoning_message_end", e.id)
               y == Wire("reasoning_end", o)
    <3>4. x \in Wires /\ y \in Wires
      <4>1. "reasoning_message_end" \in WireTypes /\ "reasoning_end" \in WireTypes
        BY DEF WireTypes
      <4> QED BY <1>1, <2>3, <4>1, WireIs
    <3>5. Follows(b, <<x>>, f) /\ Follows(f, <<y>>, g)
      BY <3>1, <3>3
    <3>6. cw = <<x, y>>
      BY <2>13
    <3> HIDE DEF x, y, cw
    <3>7. <<x>> \o <<y>> = <<x, y>>
      BY <3>4, Pair
    <3>8. <<x>> \in Seq(Wires) /\ <<y>> \in Seq(Wires)
      BY <3>4
    <3>9. Follows(b, <<x>> \o <<y>>, g)
      BY <3>5, <3>8, FollowsBoth
    <3>90. <<x, y>> \in Seq(Wires)
      BY <3>4
    <3>10. Follows(b, cw, g) /\ cw \in Seq(Wires)
      BY <3>6, <3>7, <3>9, <3>90
    <3>11. Follows(c, (aw \o bw) \o cw, g)
      BY <2>11, <3>10, FollowsBoth
    <3>12. Reads(c, g, None, None)
      BY <2>10, <3>1, <3>3 DEF Reads, Alike
    <3>13. WireOf(t, e) = (aw \o bw) \o cw /\ StateAfter(t, e) = off
      BY <2>1, <2>2, <2>13
    <3>14. Reads(c, g, off.outer, off.inner)
      BY <2>4, <3>12
    <3>15. off.outer = None <=> off.inner = None
      BY <2>4
    <3>16. Follows(u.client, WireOf(u.agui, e), g)
      BY <3>11, <3>13
    <3> HIDE DEF c, t
    <3> QED BY <1>5, <2>4, <3>13, <3>14, <3>15, <3>16, ShownTo DEF e, c, t
  <2> QED BY <2>12, <2>13
<1> QED BY <1>7, <1>8

-----------------------------------------------------------------------------
(* Reasoning as a stream.                                                  *)

\* Reasoning of the agent starts, whatever was open of it before.
LEMMA ReasoningStarts ==
  ASSUME NEW u \in Views, InStep(u), NEW id \in Nat, id # None
  PROVE  \E v : /\ Reaches(u, Event("reasoning_start", id), v, u.client.texts,
                           u.client.calls, u.client.results)
                /\ v.agui.inner = id /\ v.agui.outer = id
<1> DEFINE e == Event("reasoning_start", id)
           x == Wire("reasoning_start", id)
           y == Wire("reasoning_message_start", id)
           t == [Closed(u.agui) EXCEPT !.outer = id, !.inner = id]
           cw == CloseReasoning(u.agui)
<1>1. e.type = "reasoning_start" /\ e.id = id /\ e.text = <<>>
  BY EventIs
<1>2. x \in Wires /\ y \in Wires
  BY WireIs DEF WireTypes
<1>3. Plain(e) = <<x, y>>
  BY <1>1 DEF Plain
<1> HIDE DEF e
<1>4. ~Untranslatable(u.agui, e) /\ Boundary(e) /\ Pieces(e) = <<>>
  BY <1>1 DEF Untranslatable, Boundary, Pieces
<1>5. WireOf(u.agui, e) = cw \o <<x, y>>
  BY <1>1, <1>3, <1>4 DEF WireOf
<1>6. StateAfter(u.agui, e) = t
  BY <1>1 DEF StateAfter
<1>7. t \in Translators /\ t.outer = id /\ t.inner = id
  <2>1. u.agui \in Translators
    BY DEF Views
  <2>2. Closed(u.agui) \in Translators
    BY <2>1, ClosedIs
  <2> QED BY <2>2 DEF Translators
<1>8. cw \in Seq(Wires)
  BY CloseFollows
<1>9. PICK b : Follows(u.client, cw, b) /\ Shut(u.client, b)
  BY CloseFollows
<1>10. /\ b \in Clients /\ b.run = "running" /\ b.reasoning = None /\ b.thought = None
       /\ Alike(u.client, b)
  BY <1>9 DEF Shut, Alike, InStep
<1>11. PICK f : Follows(b, <<x>>, f) /\ Reads(b, f, id, b.thought)
  BY <1>10, BlockOpens
<1>12. f \in Clients /\ f.run = "running" /\ f.reasoning = id /\ f.thought = None
  BY <1>10, <1>11 DEF Reads, Alike
<1>13. PICK g : Follows(f, <<y>>, g) /\ Reads(f, g, f.reasoning, id)
  BY <1>12, ThoughtStarts
<1> HIDE DEF x, y, cw, t
<1>14. <<x>> \o <<y>> = <<x, y>> /\ <<x>> \in Seq(Wires) /\ <<y>> \in Seq(Wires)
  BY <1>2, Pair
<1>15. Follows(b, <<x, y>>, g) /\ <<x, y>> \in Seq(Wires)
  <2>1. Follows(b, <<x>> \o <<y>>, g)
    BY <1>11, <1>13, <1>14, FollowsBoth
  <2>2. <<x, y>> \in Seq(Wires)
    BY <1>2
  <2> QED BY <1>14, <2>1, <2>2
<1>16. Follows(u.client, WireOf(u.agui, e), g)
  BY <1>5, <1>8, <1>9, <1>15, FollowsBoth
<1>17. Reads(u.client, g, t.outer, t.inner)
  BY <1>7, <1>10, <1>11, <1>12, <1>13 DEF Reads, Alike
<1>18. t.outer = None <=> t.inner = None
  BY <1>7
<1>19. \E v : Reaches(u, e, v, u.client.texts, u.client.calls, u.client.results) /\ v.agui = t
  BY <1>4, <1>6, <1>7, <1>16, <1>17, <1>18, ShownTo
<1> QED BY <1>7, <1>19 DEF e

\* Reasoning of the agent goes on.
LEMMA ReasoningGoesOn ==
  ASSUME NEW u \in Views, InStep(u), u.agui.inner # None, NEW text \in Seq(Nat)
  PROVE  \E v : /\ Reaches(u, Delta("reasoning_delta", u.agui.inner, text), v, u.client.texts,
                           u.client.calls, u.client.results)
                /\ v.agui = u.agui
<1> DEFINE e == Delta("reasoning_delta", u.agui.inner, text)
<1>1. e.type = "reasoning_delta" /\ e.id = u.agui.inner /\ e.text = text
  BY EventIs
<1> HIDE DEF e
<1>2. ~Untranslatable(u.agui, e) /\ ~Boundary(e) /\ Pieces(e) = <<>>
  BY <1>1 DEF Untranslatable, Boundary, Pieces
<1>3. u.client \in Clients /\ u.agui \in Translators
  BY DEF Views
<1>4. /\ u.client.run = "running" /\ u.client.reasoning = u.agui.outer
      /\ u.client.thought = u.agui.inner /\ (u.agui.outer = None <=> u.agui.inner = None)
  BY DEF InStep
<1> DEFINE ws == WireText("reasoning_content", u.agui.inner, text)
<1>5. Follows(u.client, ws, u.client) /\ ws \in Seq(Wires)
  BY <1>3, <1>4, ThoughtGoesOn
<1>6. WireOf(u.agui, e) = <<>> \o ws
  BY <1>1, <1>2 DEF WireOf, Plain
<1> HIDE DEF ws
<1>7. WireOf(u.agui, e) = ws
  BY <1>5, <1>6
<1>8. StateAfter(u.agui, e) = u.agui
  BY <1>1, <1>2 DEF StateAfter
<1>9. Reads(u.client, u.client, u.agui.outer, u.agui.inner)
  BY <1>3, <1>4 DEF Reads, Alike
<1>10. Follows(u.client, WireOf(u.agui, e), u.client)
  BY <1>5, <1>7
<1>11. \E v : Reaches(u, e, v, u.client.texts, u.client.calls, u.client.results) /\ v.agui = u.agui
  BY <1>2, <1>3, <1>4, <1>8, <1>9, <1>10, ShownTo
<1> QED BY <1>11 DEF e

\* Reasoning of the agent ends.
LEMMA ReasoningEnds ==
  ASSUME NEW u \in Views, InStep(u), u.agui.inner # None, u.agui.outer = u.agui.inner
  PROVE  \E v : Reaches(u, Event("reasoning_end", u.agui.inner), v, u.client.texts,
                        u.client.calls, u.client.results)
<1> DEFINE e == Event("reasoning_end", u.agui.inner)
           x == Wire("reasoning_message_end", u.agui.inner)
           y == Wire("reasoning_end", u.agui.inner)
           t == Closed(u.agui)
<1>1. e.type = "reasoning_end" /\ e.id = u.agui.inner
  BY EventIs
<1>2. Plain(e) = <<x, y>>
  BY <1>1 DEF Plain
<1> HIDE DEF e
<1>3. ~Untranslatable(u.agui, e) /\ ~Boundary(e) /\ Pieces(e) = <<>>
  BY <1>1 DEF Untranslatable, Boundary, Pieces
<1>4. u.client \in Clients /\ u.agui \in Translators /\ u.agui.inner \in Nat
  BY DEF Views, Translators
<1>5. x \in Wires /\ y \in Wires
  <2>1. "reasoning_message_end" \in WireTypes /\ "reasoning_end" \in WireTypes
    BY DEF WireTypes
  <2> QED BY <1>4, <2>1, WireIs
<1>6. /\ u.client.run = "running" /\ u.client.reasoning = u.agui.inner
      /\ u.client.thought = u.agui.inner
  BY DEF InStep
<1>7. PICK f : Follows(u.client, <<x>>, f) /\ Reads(u.client, f, u.client.reasoning, None)
  BY <1>4, <1>6, ThoughtEnds
<1>8. f \in Clients /\ f.run = "running" /\ f.reasoning = u.agui.inner /\ f.thought = None
  BY <1>6, <1>7 DEF Reads, Alike
<1>9. PICK g : Follows(f, <<y>>, g) /\ Reads(f, g, None, None)
  BY <1>8, BlockEnds
<1>10. WireOf(u.agui, e) = <<>> \o <<x, y>>
  BY <1>1, <1>2, <1>3 DEF WireOf
<1>11. StateAfter(u.agui, e) = t
  BY <1>1 DEF StateAfter
<1>12. t \in Translators /\ t.outer = None /\ t.inner = None
  BY <1>4, ClosedIs
<1> HIDE DEF x, y, t
<1>13. <<x>> \o <<y>> = <<x, y>> /\ <<x>> \in Seq(Wires) /\ <<y>> \in Seq(Wires)
  BY <1>5, Pair
<1>14. Follows(u.client, <<x, y>>, g) /\ <<x, y>> \in Seq(Wires)
  <2>1. Follows(u.client, <<x>> \o <<y>>, g)
    BY <1>7, <1>9, <1>13, FollowsBoth
  <2>2. <<x, y>> \in Seq(Wires)
    BY <1>5
  <2> QED BY <1>13, <2>1, <2>2
<1>15. WireOf(u.agui, e) = <<x, y>>
  BY <1>10, <1>14
<1>16. Reads(u.client, g, t.outer, t.inner)
  BY <1>7, <1>9, <1>12 DEF Reads, Alike
<1>17. Follows(u.client, WireOf(u.agui, e), g)
  BY <1>14, <1>15
<1>18. t.outer = None <=> t.inner = None
  BY <1>12
<1>19. \E v : Reaches(u, e, v, u.client.texts, u.client.calls, u.client.results) /\ v.agui = t
  BY <1>3, <1>11, <1>12, <1>16, <1>17, <1>18, ShownTo
<1> QED BY <1>19 DEF e

-----------------------------------------------------------------------------
(* Events of a runner one after the other.                                 *)

\* p[n] is the view after n of the events.
Through(v, q, u, p) ==
  /\ p[0] = v /\ p[Len(q)] = u
  /\ \A n \in 0..Len(q) : p[n] \in Views
  /\ \A n \in 1..Len(q) : StepTo(p[n - 1], q[n], p[n])
Runs(v, q, u) == \E p : Through(v, q, u, p)

\* Events that can be delivered lead from a view to a view.
LEMMA RunsAre ==
  ASSUME NEW q \in Seq(Events), NEW v, NEW u, Runs(v, q, u)
  PROVE  v \in Views /\ u \in Views
<1>1. PICK p : Through(v, q, u, p)
  BY DEF Runs
<1>2. 0 \in 0..Len(q) /\ Len(q) \in 0..Len(q)
  OBVIOUS
<1> QED BY <1>1, <1>2 DEF Through

\* Without events the view stays.
LEMMA RunsNone ==
  ASSUME NEW v \in Views PROVE Runs(v, <<>>, v)
<1> DEFINE p == [n \in 0..0 |-> v]
<1>1. Len(<<>>) = 0 /\ 1..0 = {} /\ p[0] = v /\ \A n \in 0..0 : p[n] = v
  OBVIOUS
<1> HIDE DEF p
<1>2. Through(v, <<>>, v, p)
  BY <1>1 DEF Through
<1> QED BY <1>2 DEF Runs

\* One event that can be delivered.
LEMMA RunsOne ==
  ASSUME NEW v \in Views, NEW u \in Views, NEW e, StepTo(v, e, u)
  PROVE  Runs(v, <<e>>, u)
<1> DEFINE p == [n \in 0..1 |-> IF n = 0 THEN v ELSE u]
<1>1. Len(<<e>>) = 1 /\ <<e>>[1] = e /\ p[0] = v /\ p[1] = u
  OBVIOUS
<1> HIDE DEF p
<1>2. /\ \A n \in 1..1 : n = 1 /\ n - 1 = 0
      /\ \A n \in 0..1 : n = 0 \/ n = 1
  OBVIOUS
<1>3. Through(v, <<e>>, u, p)
  BY <1>1, <1>2 DEF Through
<1> QED BY <1>3 DEF Runs

\* Events that can be delivered, and others behind them.
LEMMA RunsBoth ==
  ASSUME NEW a \in Seq(Events), NEW b \in Seq(Events), NEW c, NEW d, NEW e,
         Runs(c, a, d), Runs(d, b, e)
  PROVE  Runs(c, a \o b, e)
<1>1. PICK f : Through(c, a, d, f)
  BY DEF Runs
<1>2. PICK g : Through(d, b, e, g)
  BY DEF Runs
<1> DEFINE la == Len(a)
           lb == Len(b)
           ab == a \o b
           k == [n \in 0..(la + lb) |-> IF n <= la THEN f[n] ELSE g[n - la]]
<1>3. /\ la \in Nat /\ lb \in Nat /\ Len(ab) = la + lb
      /\ \A n \in 1..(la + lb) : ab[n] = IF n <= la THEN a[n] ELSE b[n - la]
  BY ConcatProperties
<1>4. /\ f[0] = c /\ f[la] = d /\ g[0] = d /\ g[lb] = e
      /\ \A n \in 0..la : f[n] \in Views
      /\ \A n \in 0..lb : g[n] \in Views
      /\ \A n \in 1..la : StepTo(f[n - 1], a[n], f[n])
      /\ \A n \in 1..lb : StepTo(g[n - 1], b[n], g[n])
  BY <1>1, <1>2 DEF Through
<1> HIDE DEF la, lb, ab
<1>5. /\ \A n \in 0..la : k[n] = f[n]
      /\ \A n \in 0..lb : k[n + la] = g[n]
  <2>1. ASSUME NEW n \in 0..la PROVE k[n] = f[n]
    BY <1>3
  <2>2. ASSUME NEW n \in 0..lb, NEW m, m = n + la PROVE k[m] = g[n]
    <3>1. m \in 0..(la + lb) /\ m - la = n
      BY <1>3, <2>2
    <3>2. CASE n = 0
      BY <1>3, <1>4, <2>2, <3>1, <3>2
    <3>3. CASE n # 0
      <4>1. ~ (m <= la)
        BY <1>3, <2>2, <3>3
      <4> QED BY <3>1, <4>1
    <3> QED BY <3>2, <3>3
  <2> QED BY <2>1, <2>2
<1> HIDE DEF k
<1>6. ASSUME NEW n \in 1..(la + lb)
      PROVE  StepTo(k[n - 1], ab[n], k[n])
  <2>1. CASE n <= la
    <3>1. n \in 1..la /\ n \in 0..la /\ n - 1 \in 0..la
      BY <1>3, <2>1
    <3> QED BY <1>3, <1>4, <1>5, <2>1, <3>1
  <2>2. CASE ~ (n <= la)
    <3> DEFINE m == n - la
    <3>1. m \in 1..lb /\ m \in 0..lb /\ m - 1 \in 0..lb /\ m + la = n /\ m - 1 + la = n - 1
      BY <1>3, <2>2
    <3>2. ab[n] = b[m]
      BY <1>3, <2>2
    <3> HIDE DEF m
    <3>3. k[n] = g[m] /\ k[n - 1] = g[m - 1]
      <4>1. k[m + la] = g[m]
        BY <1>5, <3>1
      <4>2. k[m - 1 + la] = g[m - 1]
        BY <1>5, <3>1
      <4> QED BY <3>1, <4>1, <4>2
    <3> QED BY <1>4, <3>1, <3>2, <3>3
  <2> QED BY <2>1, <2>2
<1>7. k[0] = c /\ k[la + lb] = e
  <2>1. 0 \in 0..la /\ lb \in 0..lb /\ lb + la = la + lb
    BY <1>3
  <2>2. k[lb + la] = e
    BY <1>4, <1>5, <2>1
  <2> QED BY <1>4, <1>5, <2>1, <2>2
<1>8. ASSUME NEW n \in 0..(la + lb) PROVE k[n] \in Views
  <2>1. CASE n <= la
    <3>1. n \in 0..la
      BY <1>3, <2>1
    <3> QED BY <1>4, <1>5, <3>1
  <2>2. CASE ~ (n <= la)
    <3> DEFINE m == n - la
    <3>1. m \in 0..lb /\ m + la = n
      <4>1. n \in Int /\ la \in Int /\ lb \in Int /\ n <= la + lb /\ n > la
        BY <1>3, <2>2
      <4>2. m \in Int /\ 0 <= m /\ m <= lb /\ m + la = n
        BY <4>1
      <4> QED BY <1>3, <4>2
    <3> HIDE DEF m
    <3>2. k[m + la] = g[m]
      BY <1>5, <3>1
    <3> QED BY <1>4, <3>1, <3>2
  <2> QED BY <2>1, <2>2
<1>9. Through(c, ab, e, k)
  BY <1>3, <1>6, <1>7, <1>8 DEF Through
<1> QED BY <1>9 DEF Runs, ab

\* The first event, and those behind it.
LEMMA RunsHead ==
  ASSUME NEW q \in Seq(Events), q # <<>>, NEW v, NEW u, Runs(v, q, u)
  PROVE  \E w : w \in Views /\ StepTo(v, Head(q), w) /\ Runs(w, Tail(q), u)
<1>1. PICK p : Through(v, q, u, p)
  BY DEF Runs
<1> DEFINE l == Len(q)
           k == [n \in 0..(l - 1) |-> p[n + 1]]
<1>2. /\ l \in Nat /\ l # 0 /\ Len(Tail(q)) = l - 1 /\ Head(q) = q[1]
      /\ \A n \in 1..(l - 1) : Tail(q)[n] = q[n + 1]
  BY HeadTailProperties
<1>3. /\ p[0] = v /\ p[l] = u
      /\ \A n \in 0..l : p[n] \in Views
      /\ \A n \in 1..l : StepTo(p[n - 1], q[n], p[n])
  BY <1>1 DEF Through
<1> HIDE DEF l
<1>4. p[1] \in Views /\ StepTo(v, Head(q), p[1])
  <2>1. 1 \in 1..l /\ 1 \in 0..l /\ 1 - 1 = 0
    BY <1>2
  <2>2. StepTo(p[1 - 1], q[1], p[1])
    BY <1>3, <2>1
  <2> QED BY <1>2, <1>3, <2>1, <2>2
<1>5. k[0] = p[1] /\ k[l - 1] = u
  <2>1. 0 \in 0..(l - 1) /\ l - 1 \in 0..(l - 1) /\ l - 1 + 1 = l /\ 0 + 1 = 1
    BY <1>2
  <2>2. k[l - 1] = p[l - 1 + 1] /\ k[0] = p[0 + 1]
    BY <2>1
  <2> QED BY <1>3, <2>1, <2>2
<1>6. ASSUME NEW n \in 0..(l - 1), NEW m, m = n + 1 PROVE k[n] = p[m] /\ k[n] \in Views
  <2>1. m \in 0..l
    BY <1>2, <1>6
  <2>2. k[n] = p[m]
    BY <1>6
  <2> HIDE DEF k
  <2> QED BY <1>3, <2>1, <2>2
<1> HIDE DEF k
<1>7. ASSUME NEW n \in 1..(l - 1) PROVE StepTo(k[n - 1], Tail(q)[n], k[n])
  <2> DEFINE m == n + 1
  <2>1. m \in 1..l /\ m - 1 = n /\ n - 1 \in 0..(l - 1) /\ n \in 0..(l - 1) /\ n = n - 1 + 1
    BY <1>2
  <2>2. Tail(q)[n] = q[m]
    BY <1>2
  <2>3. k[n - 1] = p[n] /\ k[n] = p[m]
    BY <1>6, <2>1
  <2> HIDE DEF m
  <2>4. StepTo(p[m - 1], q[m], p[m])
    BY <1>3, <2>1
  <2> QED BY <2>1, <2>2, <2>3, <2>4
<1>8. Through(p[1], Tail(q), u, k)
  <2>1. \A n \in 0..(l - 1) : k[n] \in Views
    BY <1>6
  <2> QED BY <1>2, <1>5, <1>7, <2>1 DEF Through
<1> QED BY <1>4, <1>8 DEF Runs

-----------------------------------------------------------------------------
(* The text of a run of events.                                            *)

\* The pieces, counted from the first event, are those the definition gives.
LEMMA PiecesAre ==
  ASSUME NEW q \in Seq(Events)
  PROVE  \E f : /\ f[0] = <<>> /\ f[Len(q)] = PiecesIn(q)
               /\ \A n \in 1..Len(q) : f[n] = f[n - 1] \o Pieces(q[n])
<1> DEFINE l == Len(q)
           Upto(f, j) == f = [n \in 0..j |-> IF n = 0 THEN <<>> ELSE f[n - 1] \o Pieces(q[n])]
           All == {j \in 0..l : \E f : Upto(f, j)}
           pieces == CHOOSE f : Upto(f, l)
<1>1. l \in Nat
  OBVIOUS
<1>2. 0 \in All
  <2> DEFINE f == [n \in 0..0 |-> <<>>]
  <2>1. \A n \in 0..0 : n = 0
    OBVIOUS
  <2>2. f = [n \in 0..0 |-> IF n = 0 THEN <<>> ELSE f[n - 1] \o Pieces(q[n])]
    BY <2>1
  <2>3. Upto(f, 0)
    BY <2>2
  <2> HIDE DEF f, Upto
  <2> QED BY <1>1, <2>3
<1>3. \A j \in 0..(l - 1) : j \in All => j + 1 \in All
  <2> SUFFICES ASSUME NEW j \in 0..(l - 1), j \in All, NEW i, i = j + 1 PROVE i \in All
    OBVIOUS
  <2>1. PICK f : Upto(f, j)
    OBVIOUS
  <2> DEFINE g == [n \in 0..i |-> IF n = i THEN f[j] \o Pieces(q[i]) ELSE f[n]]
  <2>2. \A n \in 0..j : f[n] = IF n = 0 THEN <<>> ELSE f[n - 1] \o Pieces(q[n])
    BY <2>1
  <2>3. i \in 1..l /\ i # 0 /\ i - 1 = j /\ j \in 0..i /\ j # i
    BY <1>1
  <2>4. \A n \in 0..i : g[n] = IF n = 0 THEN <<>> ELSE g[n - 1] \o Pieces(q[n])
    <3> SUFFICES ASSUME NEW n \in 0..i
                 PROVE g[n] = IF n = 0 THEN <<>> ELSE g[n - 1] \o Pieces(q[n])
      OBVIOUS
    <3>1. CASE n = i
      <4>1. g[n] = f[j] \o Pieces(q[i]) /\ g[j] = f[j]
        BY <2>3, <3>1
      <4> HIDE DEF g
      <4> QED BY <2>3, <3>1, <4>1
    <3>2. CASE n # i
      <4>1. n \in 0..j
        BY <2>3, <3>2
      <4>2. g[n] = f[n]
        BY <3>2
      <4>3. CASE n = 0
        BY <2>2, <4>1, <4>2, <4>3
      <4>4. CASE n # 0
        <5>1. n - 1 \in 0..i /\ n - 1 # i
          BY <2>3, <4>1, <4>4
        <5>2. g[n - 1] = f[n - 1]
          BY <5>1
        <5> HIDE DEF g
        <5> QED BY <2>2, <4>1, <4>2, <4>4, <5>2
      <4> QED BY <4>3, <4>4
    <3> QED BY <3>1, <3>2
  <2>5. Upto(g, i)
    BY <2>4
  <2> HIDE DEF g, Upto
  <2> QED BY <2>3, <2>5
<1>4. l \in All
  <2> HIDE DEF All
  <2>1. l \in 0..l
    BY <1>1
  <2> QED BY <1>1, <1>2, <1>3, <2>1, UpTo
<1>5. Upto(pieces, l)
  <2>1. \E f : Upto(f, l)
    BY <1>4
  <2> QED BY <2>1
<1>6. PiecesIn(q) = pieces[l]
  BY DEF PiecesIn
<1> HIDE DEF pieces
<1>7. \A n \in 0..l : pieces[n] = IF n = 0 THEN <<>> ELSE pieces[n - 1] \o Pieces(q[n])
  BY <1>5
<1>8. pieces[0] = <<>> /\ \A n \in 1..l : pieces[n] = pieces[n - 1] \o Pieces(q[n])
  <2>1. 0 \in 0..l /\ \A n \in 1..l : n \in 0..l /\ n # 0
    BY <1>1
  <2> QED BY <1>7, <2>1
<1> QED BY <1>6, <1>8

\* What is shown in the end is what was shown before, and the pieces of the events.
LEMMA RunsText ==
  ASSUME NEW q \in Seq(Events), NEW v, NEW u, Runs(v, q, u)
  PROVE  v.client.text \o PiecesIn(q) = u.client.text
<1>1. PICK p : Through(v, q, u, p)
  BY DEF Runs
<1>2. PICK f : /\ f[0] = <<>> /\ f[Len(q)] = PiecesIn(q)
               /\ \A n \in 1..Len(q) : f[n] = f[n - 1] \o Pieces(q[n])
  BY PiecesAre
<1> DEFINE l == Len(q)
           c == v.client.text
           S == {n \in 0..l : f[n] \in Seq(Nat) /\ c \o f[n] = p[n].client.text}
<1>3. l \in Nat
  OBVIOUS
<1>4. c \in Seq(Nat)
  <2>1. v \in Views
    BY RunsAre
  <2> QED BY <2>1 DEF Views, Clients
<1>5. \A n \in 1..l : Pieces(q[n]) \in Seq(Nat)
  <2>1. \A n \in 1..l : q[n] \in Events
    OBVIOUS
  <2>2. <<>> \in Seq(Nat)
    OBVIOUS
  <2>3. ASSUME NEW e \in Events PROVE Pieces(e) \in Seq(Nat)
    <3>1. e.text \in Seq(Nat)
      BY DEF Events
    <3> QED BY <2>2, <3>1 DEF Pieces
  <2> QED BY <2>1, <2>3
<1>6. p[0] = v /\ p[l] = u /\ \A n \in 1..l : p[n].client.text = p[n - 1].client.text \o Pieces(q[n])
  BY <1>1 DEF Through, StepTo
<1>7. 0 \in S
  <2>1. f[0] \in Seq(Nat) /\ c \o f[0] = c
    BY <1>2, <1>4
  <2>2. p[0].client.text = c
    BY <1>6
  <2>3. 0 \in 0..l
    BY <1>3
  <2> HIDE DEF c, l
  <2> QED BY <2>1, <2>2, <2>3
<1> HIDE DEF l, c
<1>8. \A n \in 0..(l - 1) : n \in S => n + 1 \in S
  <2> SUFFICES ASSUME NEW n \in 0..(l - 1), n \in S, NEW m, m = n + 1 PROVE m \in S
    OBVIOUS
  <2>1. m \in 0..l /\ m \in 1..l /\ m - 1 = n
    BY <1>3
  <2>2. f[m] = f[n] \o Pieces(q[m]) /\ p[m].client.text = p[n].client.text \o Pieces(q[m])
    BY <1>2, <1>6, <2>1 DEF l
  <2>3. f[n] \in Seq(Nat) /\ c \o f[n] = p[n].client.text /\ Pieces(q[m]) \in Seq(Nat)
    BY <1>5, <2>1
  <2> DEFINE a == f[n]
             b == Pieces(q[m])
  <2>4. a \in Seq(Nat) /\ b \in Seq(Nat)
    BY <2>3
  <2> HIDE DEF a, b
  <2>5. a \o b \in Seq(Nat)
    BY <2>4
  <2>6. (c \o a) \o b = c \o (a \o b)
    BY <1>4, <2>4, ConcatAssociative, SMTT(30)
  <2>7. f[m] \in Seq(Nat) /\ c \o f[m] = p[m].client.text
    BY <2>2, <2>3, <2>5, <2>6 DEF a, b
  <2> QED BY <2>1, <2>7
<1> HIDE DEF S
<1>9. l \in S
  <2>1. l \in 0..l
    BY <1>3
  <2> QED BY <1>3, <1>7, <1>8, <2>1, UpTo
<1> QED BY <1>2, <1>6, <1>9 DEF S, c, l

-----------------------------------------------------------------------------
(* The mapping state and what the client will have seen.                   *)

Streams == [text : Nat, think : Nat, buffer : Seq(Nat), wrote : BOOLEAN,
            calls : UNION {[S -> Nat] : S \in SUBSET Items}, textDelta : Seq(Nat),
            thinkDelta : Seq(Nat), fresh : Nat \ {0}, out : Seq(Events)]

\* With all events delivered the client has open, and awaits the results of, just what
\* the mapping state says.
Stands(k, u, m) ==
  /\ InStep(u)
  /\ u.client.texts = IF m.text = None THEN {} ELSE {m.text}
  /\ u.client.calls \subseteq 1..(m.fresh - 1)
  /\ u.client.results \subseteq u.client.calls
  /\ \A i \in DOMAIN m.calls : m.calls[i] \in u.client.calls \ u.client.results
  /\ \A i, j \in DOMAIN m.calls : m.calls[i] = m.calls[j] => i = j
  /\ k = "k_agent" /\ m.think # None => u.agui.inner = m.think /\ u.agui.outer = m.think

Reach(k, v, q, m, t) ==
  /\ m \in Streams
  /\ \E u : Runs(v, q \o m.out, u) /\ Stands(k, u, m) /\ u.client.text = t

\* The same where nothing has to come after it.
Over(v, q, m, t) ==
  /\ m \in Streams
  /\ \E u : Runs(v, q \o m.out, u) /\ u.client.text = t

Quiet(k, m) == k = "k_agent" => m.think = None
Keeps(m, n) == n.wrote = m.wrote /\ n.calls = m.calls /\ n.textDelta = m.textDelta

\* An emission touches nothing but the events that go out.
LEMMA EmitIs ==
  ASSUME NEW m \in Streams, NEW es \in Seq(Events)
  PROVE  LET n == Emit(m, es)
         IN  /\ n \in Streams /\ n.out = m.out \o es
             /\ n.text = m.text /\ n.think = m.think /\ n.buffer = m.buffer
             /\ n.fresh = m.fresh /\ n.thinkDelta = m.thinkDelta /\ Keeps(m, n)
<1> DEFINE o == m.out \o es
           n == Emit(m, es)
<1>1. m.out \in Seq(Events)
  BY DEF Streams
<1>2. o \in Seq(Events)
  BY <1>1
<1>3. n = [m EXCEPT !.out = o]
  BY DEF Emit
<1> HIDE DEF o, n
<1>4. n \in Streams
  BY <1>2, <1>3 DEF Streams
<1>5. /\ n.out = o /\ n.text = m.text /\ n.think = m.think /\ n.buffer = m.buffer
      /\ n.fresh = m.fresh /\ n.thinkDelta = m.thinkDelta
  BY <1>3 DEF Streams
<1>6. Keeps(m, n)
  BY <1>3 DEF Streams, Keeps
<1> QED BY <1>4, <1>5, <1>6 DEF o, n

\* Two events emitted together are two emitted one after the other.
LEMMA EmitTwo ==
  ASSUME NEW m \in Streams, NEW a \in Events, NEW b \in Events
  PROVE  Emit(m, <<a, b>>) = Emit(Emit(m, <<a>>), <<b>>)
<1>1. <<a>> \in Seq(Events) /\ <<b>> \in Seq(Events) /\ m.out \in Seq(Events)
  BY DEF Streams
<1>2. <<a>> \o <<b>> = <<a, b>>
  BY Pair
<1>3. (m.out \o <<a>>) \o <<b>> = m.out \o <<a, b>>
  <2>1. (m.out \o <<a>>) \o <<b>> = m.out \o (<<a>> \o <<b>>)
    BY <1>1, ConcatAssociative
  <2> QED BY <1>2, <2>1
<1>4. Emit(m, <<a>>) = [m EXCEPT !.out = m.out \o <<a>>]
  BY DEF Emit
<1> DEFINE n == Emit(m, <<a>>)
<1>5. n.out = m.out \o <<a>>
  BY <1>1, EmitIs
<1>6. Emit(n, <<b>>) = [n EXCEPT !.out = m.out \o <<a, b>>]
  BY <1>3, <1>5 DEF Emit
<1>7. Emit(m, <<a, b>>) = [m EXCEPT !.out = m.out \o <<a, b>>]
  BY DEF Emit
<1> DEFINE x == m.out \o <<a>>
           y == m.out \o <<a, b>>
<1> HIDE DEF x, y
<1>8. [[m EXCEPT !.out = x] EXCEPT !.out = y] = [m EXCEPT !.out = y]
  BY DEF Streams
<1> QED BY <1>4, <1>6, <1>7, <1>8 DEF x, y

\* One event more.
LEMMA Emitted ==
  ASSUME NEW v, NEW q \in Seq(Events), NEW m \in Streams, NEW u, Runs(v, q \o m.out, u),
         NEW e \in Events, NEW w \in Views, StepTo(u, e, w),
         NEW o, o = m.out \o <<e>>
  PROVE  Runs(v, q \o o, w)
<1>1. m.out \in Seq(Events) /\ <<e>> \in Seq(Events)
  BY DEF Streams
<1>2. q \o m.out \in Seq(Events)
  BY <1>1
<1>3. u \in Views
  BY <1>2, RunsAre
<1>4. Runs(u, <<e>>, w)
  BY <1>3, RunsOne
<1>5. Runs(v, (q \o m.out) \o <<e>>, w)
  BY <1>1, <1>2, <1>4, RunsBoth
<1>6. (q \o m.out) \o <<e>> = q \o o
  <2>1. \A a, b, c \in Seq(Events) : (a \o b) \o c = a \o (b \o c)
    BY ConcatAssociative, SMTT(30)
  <2>2. q \in Seq(Events)
    OBVIOUS
  <2>3. (q \o m.out) \o <<e>> = q \o (m.out \o <<e>>)
    BY <1>1, <2>1, <2>2
  <2> QED BY <2>3
<1> QED BY <1>5, <1>6

\* The view behind all events of the runner.
LEMMA RunsView ==
  ASSUME NEW v, NEW q \in Seq(Events), NEW m \in Streams, NEW u, Runs(v, q \o m.out, u)
  PROVE  u \in Views /\ u.client \in Clients
<1>1. m.out \in Seq(Events)
  BY DEF Streams
<1>2. q \o m.out \in Seq(Events)
  BY <1>1
<1>3. u \in Views
  BY <1>2, RunsAre
<1> QED BY <1>3 DEF Views

\* An event without text shows none.
LEMMA SameText ==
  ASSUME NEW u \in Views, NEW e, NEW w, StepTo(u, e, w), Pieces(e) = <<>>
  PROVE  w.client.text = u.client.text
<1>1. u.client \in Clients
  BY DEF Views
<1>2. u.client.text \o <<>> = u.client.text
  BY <1>1, NothingAdded
<1> QED BY <1>2 DEF StepTo

\* Only a text delta has pieces of text.
LEMMA NoPieces ==
  /\ \A type \in EventTypes \ {"delta"} : \A id : Pieces(Event(type, id)) = <<>>
  /\ \A id, text, active : Pieces(Thinking(id, text, active)) = <<>>
BY EventIs DEF Pieces

-----------------------------------------------------------------------------
(* Text.                                                                   *)

\* A text is opened where none is.
LEMMA OpenTextReaches ==
  ASSUME NEW k, NEW v, NEW q \in Seq(Events), NEW m, NEW t, Reach(k, v, q, m, t), Quiet(k, m)
  PROVE  LET n == OpenText(m)
         IN  /\ Reach(k, v, q, n, t) /\ n.text # None /\ n.think = m.think /\ Keeps(m, n)
<1>1. m \in Streams
  BY DEF Reach
<1>2. CASE m.text # None
  <2>1. OpenText(m) = m
    BY <1>2 DEF OpenText
  <2> QED BY <1>2, <2>1 DEF Keeps
<1>3. CASE m.text = None
  <2>1. PICK u : Runs(v, q \o m.out, u) /\ Stands(k, u, m) /\ u.client.text = t
    BY DEF Reach
  <2> DEFINE o == [m EXCEPT !.text = m.fresh, !.fresh = m.fresh + 1]
             e == Event("message_start", m.fresh)
             n == Emit(o, <<e>>)
  <2>2. OpenText(m) = n
    BY <1>3 DEF OpenText
  <2>3. m.fresh \in Nat \ {0} /\ m.fresh + 1 \in Nat \ {0} /\ m.fresh \in Nat
    BY <1>1 DEF Streams
  <2>4. o \in Streams
    BY <1>1, <2>3 DEF Streams
  <2>5. /\ o.text = m.fresh /\ o.fresh = m.fresh + 1 /\ o.think = m.think /\ o.out = m.out
        /\ o.calls = m.calls /\ o.wrote = m.wrote /\ o.textDelta = m.textDelta
    BY <1>1 DEF Streams
  <2>6. e \in Events /\ Pieces(e) = <<>>
    BY <2>3, EventsAre, NoPieces DEF EventTypes
  <2>7. u \in Views /\ InStep(u) /\ u.client.texts = {}
    BY <1>1, <1>3, <2>1, RunsView DEF Stands
  <2>8. PICK w : Reaches(u, e, w, {} \cup {m.fresh}, u.client.calls, u.client.results)
    BY <2>3, <2>7, TextStarts
  <2>9. w \in Views /\ StepTo(u, e, w)
    BY <2>8 DEF Reaches
  <2> HIDE DEF e, o, n
  <2>10. /\ n \in Streams /\ n.out = m.out \o <<e>> /\ n.text = m.fresh /\ n.fresh = m.fresh + 1
         /\ n.think = m.think /\ Keeps(m, n)
    <3>1. <<e>> \in Seq(Events)
      BY <2>6
    <3>2. /\ n \in Streams /\ n.out = o.out \o <<e>> /\ n.text = o.text /\ n.think = o.think
          /\ n.fresh = o.fresh /\ Keeps(o, n)
      BY <2>4, <3>1, EmitIs DEF n
    <3> QED BY <2>5, <3>2 DEF Keeps
  <2>11. Runs(v, q \o n.out, w)
    BY <1>1, <2>1, <2>6, <2>9, <2>10, Emitted
  <2>12. w.client.text = t
    BY <2>1, <2>6, <2>7, <2>9, SameText
  <2>13. Stands(k, w, n)
    <3>1. InStep(w) /\ w.client.texts = {n.text} /\ n.text # None
      BY <2>3, <2>8, <2>10 DEF Reaches, None
    <3>2. w.client.calls = u.client.calls /\ w.client.results = u.client.results
      BY <2>8 DEF Reaches
    <3>3. u.client.calls \subseteq 1..(m.fresh - 1)
      BY <2>1 DEF Stands
    <3>4. u.client.calls \subseteq 1..(n.fresh - 1)
      BY <2>3, <2>10, <3>3
    <3>5. n.calls = m.calls /\ (k = "k_agent" => n.think = None)
      BY <2>10 DEF Keeps, Quiet
    <3> QED BY <2>1, <3>1, <3>2, <3>4, <3>5 DEF Stands
  <2>14. n.text # None
    BY <2>3, <2>10 DEF None
  <2> QED BY <2>2, <2>10, <2>11, <2>12, <2>13, <2>14 DEF Reach
<1> QED BY <1>2, <1>3

\* What has been said is a sequence of pieces.
LEMMA ReachText ==
  ASSUME NEW k, NEW v, NEW q \in Seq(Events), NEW m, NEW t, Reach(k, v, q, m, t)
  PROVE  t \in Seq(Nat) /\ t \o <<>> = t
<1>1. PICK u : Runs(v, q \o m.out, u) /\ u.client.text = t
  BY DEF Reach
<1>2. u.client \in Clients
  BY <1>1, RunsView DEF Reach
<1> QED BY <1>1, <1>2, NothingAdded

\* Pieces of text are appended to what was said.
LEMMA AppendTextReaches ==
  ASSUME NEW k, NEW v, NEW q \in Seq(Events), NEW m, NEW t, Reach(k, v, q, m, t), Quiet(k, m),
         NEW pieces \in Seq(Nat)
  PROVE  LET n == AppendText(m, pieces)
         IN  /\ Reach(k, v, q, n, t \o pieces)
             /\ n.think = m.think /\ n.calls = m.calls /\ n.textDelta = m.textDelta
             /\ pieces = <<>> => n = m
             /\ pieces # <<>> => n.text # None /\ n.wrote
<1>1. CASE pieces = <<>>
  <2>1. AppendText(m, pieces) = m
    BY <1>1 DEF AppendText
  <2> QED BY <1>1, <2>1, ReachText
<1>2. CASE pieces # <<>>
  <2> DEFINE o == OpenText(m)
             x == [o EXCEPT !.wrote = TRUE]
             e == Delta("delta", o.text, pieces)
             n == Emit(x, <<e>>)
  <2>1. AppendText(m, pieces) = n
    BY <1>2 DEF AppendText
  <2>2. Reach(k, v, q, o, t) /\ o.text # None /\ o.think = m.think /\ Keeps(m, o)
    BY OpenTextReaches
  <2> HIDE DEF o
  <2>3. PICK u : Runs(v, q \o o.out, u) /\ Stands(k, u, o) /\ u.client.text = t
    BY <2>2 DEF Reach
  <2>4. o \in Streams /\ o.text \in Nat
    BY <2>2 DEF Reach, Streams
  <2>5. x \in Streams
    BY <2>4 DEF Streams
  <2>6. /\ x.text = o.text /\ x.fresh = o.fresh /\ x.think = o.think /\ x.out = o.out
        /\ x.calls = o.calls /\ x.wrote = TRUE /\ x.textDelta = o.textDelta
    BY <2>4 DEF Streams
  <2>7. e \in Events
    BY <2>4, EventsAre DEF EventTypes
  <2>8. u \in Views /\ InStep(u) /\ u.client.texts = {o.text}
    BY <2>2, <2>3, <2>4, RunsView DEF Stands
  <2>9. PICK w : /\ Reaches(u, e, w, u.client.texts, u.client.calls, u.client.results)
                 /\ w.client.text = u.client.text \o pieces
    BY <1>2, <2>4, <2>8, TextGoesOn
  <2>10. w \in Views /\ StepTo(u, e, w)
    BY <2>9 DEF Reaches
  <2> HIDE DEF e, x, n
  <2>11. /\ n \in Streams /\ n.out = o.out \o <<e>> /\ n.text = o.text /\ n.fresh = o.fresh
         /\ n.think = o.think /\ n.calls = o.calls /\ n.wrote /\ n.textDelta = o.textDelta
    <3>1. <<e>> \in Seq(Events)
      BY <2>7
    <3>2. /\ n \in Streams /\ n.out = x.out \o <<e>> /\ n.text = x.text /\ n.think = x.think
          /\ n.fresh = x.fresh /\ Keeps(x, n)
      BY <2>5, <3>1, EmitIs DEF n
    <3> QED BY <2>6, <3>2 DEF Keeps
  <2>12. Runs(v, q \o n.out, w)
    BY <2>3, <2>4, <2>7, <2>10, <2>11, Emitted
  <2>13. Stands(k, w, n)
    <3>1. InStep(w) /\ w.client.texts = {n.text} /\ n.text # None
      BY <2>2, <2>8, <2>9, <2>11 DEF Reaches
    <3>2. w.client.calls = u.client.calls /\ w.client.results = u.client.results
      BY <2>9 DEF Reaches
    <3>3. k = "k_agent" => n.think = None
      BY <2>2, <2>11 DEF Quiet
    <3> QED BY <2>3, <2>11, <3>1, <3>2, <3>3 DEF Stands
  <2>14. w.client.text = t \o pieces
    BY <2>3, <2>9
  <2>15. Reach(k, v, q, n, t \o pieces)
    BY <2>11, <2>12, <2>13, <2>14 DEF Reach
  <2> QED BY <1>2, <2>1, <2>2, <2>11, <2>15 DEF Keeps
<1> QED BY <1>1, <1>2

\* The text that is open ends.
LEMMA CloseTextReaches ==
  ASSUME NEW k, NEW v, NEW q \in Seq(Events), NEW m, NEW t, Reach(k, v, q, m, t), Quiet(k, m)
  PROVE  LET n == CloseText(m)
         IN  /\ Reach(k, v, q, n, t) /\ n.text = None /\ n.think = m.think /\ Keeps(m, n)
<1>1. m \in Streams
  BY DEF Reach
<1>2. CASE m.text = None
  <2>1. CloseText(m) = m
    BY <1>2 DEF CloseText
  <2> QED BY <1>2, <2>1 DEF Keeps
<1>3. CASE m.text # None
  <2>1. PICK u : Runs(v, q \o m.out, u) /\ Stands(k, u, m) /\ u.client.text = t
    BY DEF Reach
  <2> DEFINE o == [m EXCEPT !.text = None]
             e == Event("message_end", m.text)
             n == Emit(o, <<e>>)
  <2>2. CloseText(m) = n
    BY <1>3 DEF CloseText
  <2>3. m.text \in Nat /\ None \in Nat
    BY <1>1 DEF Streams, None
  <2>4. o \in Streams
    BY <1>1, <2>3 DEF Streams
  <2>5. /\ o.text = None /\ o.fresh = m.fresh /\ o.think = m.think /\ o.out = m.out
        /\ o.calls = m.calls /\ o.wrote = m.wrote /\ o.textDelta = m.textDelta
    BY <1>1 DEF Streams
  <2>6. e \in Events /\ Pieces(e) = <<>>
    BY <2>3, EventsAre, NoPieces DEF EventTypes
  <2>7. u \in Views /\ InStep(u) /\ u.client.texts = {m.text}
    BY <1>1, <1>3, <2>1, RunsView DEF Stands
  <2>8. PICK w : Reaches(u, e, w, u.client.texts \ {m.text}, u.client.calls, u.client.results)
    BY <2>3, <2>7, TextEnds
  <2>9. w \in Views /\ StepTo(u, e, w)
    BY <2>8 DEF Reaches
  <2> HIDE DEF e, o, n
  <2>10. /\ n \in Streams /\ n.out = m.out \o <<e>> /\ n.text = None /\ n.fresh = m.fresh
         /\ n.think = m.think /\ Keeps(m, n)
    <3>1. <<e>> \in Seq(Events)
      BY <2>6
    <3>2. /\ n \in Streams /\ n.out = o.out \o <<e>> /\ n.text = o.text /\ n.think = o.think
          /\ n.fresh = o.fresh /\ Keeps(o, n)
      BY <2>4, <3>1, EmitIs DEF n
    <3> QED BY <2>5, <3>2 DEF Keeps
  <2>11. Runs(v, q \o n.out, w)
    BY <1>1, <2>1, <2>6, <2>9, <2>10, Emitted
  <2>12. w.client.text = t
    BY <2>1, <2>6, <2>7, <2>9, SameText
  <2>13. Stands(k, w, n)
    <3>1. InStep(w) /\ w.client.texts = {}
      BY <2>7, <2>8 DEF Reaches
    <3>2. w.client.calls = u.client.calls /\ w.client.results = u.client.results
      BY <2>8 DEF Reaches
    <3>3. n.calls = m.calls /\ (k = "k_agent" => n.think = None)
      BY <2>10 DEF Keeps, Quiet
    <3> QED BY <2>1, <2>10, <3>1, <3>2, <3>3 DEF Stands
  <2> QED BY <2>2, <2>10, <2>11, <2>12, <2>13 DEF Reach
<1> QED BY <1>2, <1>3

-----------------------------------------------------------------------------
(* Thinking.                                                               *)

\* A snapshot of the thinking of a command line provider can be shown.
LEMMA ThinkReaches ==
  ASSUME NEW k, k # "k_agent", NEW v, NEW q \in Seq(Events), NEW m, NEW t, Reach(k, v, q, m, t),
         NEW pieces \in Seq(Nat), NEW finish \in BOOLEAN
  PROVE  LET n == Think(m, pieces, finish)
         IN  /\ Reach(k, v, q, n, t) /\ n.text = m.text /\ Keeps(m, n)
             /\ finish => n.think = None
<1>1. m \in Streams
  BY DEF Reach
<1>2. CASE pieces = <<>> /\ ~ finish
  <2>1. Think(m, pieces, finish) = m
    BY <1>2 DEF Think
  <2> QED BY <1>2, <2>1 DEF Keeps
<1>3. CASE ~ (pieces = <<>> /\ ~ finish)
  <2>1. PICK u : Runs(v, q \o m.out, u) /\ Stands(k, u, m) /\ u.client.text = t
    BY DEF Reach
  <2> DEFINE o == IF m.think # None THEN m
                  ELSE [m EXCEPT !.think = m.fresh, !.fresh = m.fresh + 1, !.buffer = <<>>]
             detail == o.buffer \o pieces
             th == IF finish THEN None ELSE o.think
             bu == IF finish THEN <<>> ELSE detail
             x == [o EXCEPT !.think = th, !.buffer = bu]
             e == Thinking(o.think, detail, ~ finish)
             n == Emit(x, <<e>>)
  <2>2. Think(m, pieces, finish) = n
    BY <1>3 DEF Think
  <2>3. m.fresh \in Nat \ {0} /\ m.fresh + 1 \in Nat \ {0} /\ <<>> \in Seq(Nat) /\ None \in Nat
    BY <1>1 DEF Streams, None
  <2>4. /\ o \in Streams /\ o.text = m.text /\ o.think # None /\ o.out = m.out
        /\ o.fresh \in {m.fresh, m.fresh + 1} /\ Keeps(m, o)
    <3>1. CASE m.think # None
      BY <1>1, <3>1 DEF Keeps
    <3>2. CASE m.think = None
      <4> DEFINE y == [m EXCEPT !.think = m.fresh, !.fresh = m.fresh + 1, !.buffer = <<>>]
      <4>1. y \in Streams
        BY <1>1, <2>3 DEF Streams
      <4>2. y.text = m.text /\ y.think = m.fresh /\ y.out = m.out /\ y.fresh = m.fresh + 1
        BY <1>1 DEF Streams
      <4>3. Keeps(m, y)
        BY <1>1 DEF Streams, Keeps
      <4>4. o = y
        BY <3>2
      <4> HIDE DEF y, o
      <4> QED BY <2>3, <4>1, <4>2, <4>3, <4>4 DEF None
    <3> QED BY <3>1, <3>2
  <2> HIDE DEF o
  <2>5. o.think \in Nat /\ o.buffer \in Seq(Nat)
    BY <2>4 DEF Streams
  <2>6. detail \in Seq(Nat)
    BY <2>5
  <2> HIDE DEF detail
  <2>7. th \in Nat /\ bu \in Seq(Nat)
    BY <2>3, <2>5, <2>6
  <2>8. finish => th = None
    OBVIOUS
  <2> HIDE DEF th, bu
  <2>9. x \in Streams
    BY <2>4, <2>7 DEF Streams
  <2>10. /\ x.text = o.text /\ x.fresh = o.fresh /\ x.think = th /\ x.out = o.out /\ Keeps(o, x)
    BY <2>4 DEF Streams, Keeps
  <2>11. e \in Events /\ Pieces(e) = <<>>
    BY <2>5, <2>6, EventsAre, NoPieces
  <2>12. u \in Views /\ InStep(u)
    BY <1>1, <2>1, RunsView DEF Stands
  <2>13. PICK w : Reaches(u, e, w, u.client.texts, u.client.calls, u.client.results)
    BY <2>4, <2>5, <2>6, <2>12, ThinkingShown
  <2>14. w \in Views /\ StepTo(u, e, w)
    BY <2>13 DEF Reaches
  <2> HIDE DEF e, x, n
  <2>15. /\ n \in Streams /\ n.out = m.out \o <<e>> /\ n.text = m.text /\ n.fresh = o.fresh
         /\ n.think = th /\ Keeps(m, n)
    <3>1. <<e>> \in Seq(Events)
      BY <2>11
    <3>2. /\ n \in Streams /\ n.out = x.out \o <<e>> /\ n.text = x.text /\ n.think = x.think
          /\ n.fresh = x.fresh /\ Keeps(x, n)
      BY <2>9, <3>1, EmitIs DEF n
    <3> QED BY <2>4, <2>10, <3>2 DEF Keeps
  <2>16. Runs(v, q \o n.out, w)
    BY <1>1, <2>1, <2>11, <2>14, <2>15, Emitted
  <2>17. w.client.text = t
    BY <2>1, <2>11, <2>12, <2>14, SameText
  <2>18. Stands(k, w, n)
    <3>1. InStep(w) /\ w.client.texts = u.client.texts
      BY <2>13 DEF Reaches
    <3>2. w.client.calls = u.client.calls /\ w.client.results = u.client.results
      BY <2>13 DEF Reaches
    <3>3. u.client.calls \subseteq 1..(m.fresh - 1)
      BY <2>1 DEF Stands
    <3>4. u.client.calls \subseteq 1..(n.fresh - 1)
      BY <2>3, <2>4, <2>15, <3>3
    <3>5. n.calls = m.calls
      BY <2>15 DEF Keeps
    <3> QED BY <2>1, <2>15, <3>1, <3>2, <3>4, <3>5 DEF Stands
  <2> QED BY <2>2, <2>8, <2>15, <2>16, <2>17, <2>18 DEF Reach
<1> QED BY <1>2, <1>3

\* The thinking of a command line provider ends.
LEMMA CloseThinkingReaches ==
  ASSUME NEW k, k # "k_agent", NEW v, NEW q \in Seq(Events), NEW m, NEW t, Reach(k, v, q, m, t)
  PROVE  LET n == CloseThinking(m)
         IN  Reach(k, v, q, n, t) /\ n.text = m.text /\ n.think = None /\ Keeps(m, n)
<1>1. CASE m.think = None
  BY <1>1 DEF CloseThinking, Keeps
<1>2. CASE m.think # None
  <2>1. <<>> \in Seq(Nat) /\ TRUE \in BOOLEAN
    OBVIOUS
  <2>2. CloseThinking(m) = Think(m, <<>>, TRUE)
    BY <1>2 DEF CloseThinking
  <2>3. \A p \in Seq(Nat), f \in BOOLEAN :
          LET n == Think(m, p, f)
          IN  Reach(k, v, q, n, t) /\ n.text = m.text /\ Keeps(m, n) /\ (f => n.think = None)
    BY ThinkReaches
  <2>4. LET n == Think(m, <<>>, TRUE)
        IN  Reach(k, v, q, n, t) /\ n.text = m.text /\ Keeps(m, n) /\ n.think = None
    <3>1. PICK f \in BOOLEAN : f
      OBVIOUS
    <3>2. f = TRUE
      BY <3>1
    <3>3. LET n == Think(m, <<>>, f)
          IN  Reach(k, v, q, n, t) /\ n.text = m.text /\ Keeps(m, n) /\ n.think = None
      BY <2>1, <2>3, <3>1
    <3> QED BY <3>2, <3>3, Zenon
  <2> QED BY <2>2, <2>4
<1> QED BY <1>1, <1>2

\* Reasoning of K Agent ends where the loop says so.
LEMMA EndReasoningReaches ==
  ASSUME NEW k, k = "k_agent", NEW v, NEW q \in Seq(Events), NEW m, NEW t, Reach(k, v, q, m, t)
  PROVE  LET n == EndReasoning(m)
         IN  Reach(k, v, q, n, t) /\ n.text = m.text /\ n.think = None /\ Keeps(m, n)
<1>1. m \in Streams
  BY DEF Reach
<1>2. CASE m.think = None
  BY <1>2 DEF EndReasoning, Keeps
<1>3. CASE m.think # None
  <2>1. PICK u : Runs(v, q \o m.out, u) /\ Stands(k, u, m) /\ u.client.text = t
    BY DEF Reach
  <2> DEFINE o == [m EXCEPT !.think = None]
             e == Event("reasoning_end", m.think)
             n == Emit(o, <<e>>)
  <2>2. EndReasoning(m) = n
    BY <1>3 DEF EndReasoning
  <2>3. m.think \in Nat /\ None \in Nat
    BY <1>1 DEF Streams, None
  <2>4. o \in Streams
    BY <1>1, <2>3 DEF Streams
  <2>5. /\ o.text = m.text /\ o.fresh = m.fresh /\ o.think = None /\ o.out = m.out /\ Keeps(m, o)
    BY <1>1 DEF Streams, Keeps
  <2>6. e \in Events /\ Pieces(e) = <<>>
    BY <2>3, EventsAre, NoPieces DEF EventTypes
  <2>7. u \in Views /\ InStep(u) /\ u.agui.inner = m.think /\ u.agui.outer = m.think
    BY <1>1, <1>3, <2>1, RunsView DEF Stands
  <2>8. PICK w : Reaches(u, e, w, u.client.texts, u.client.calls, u.client.results)
    BY <1>3, <2>7, ReasoningEnds
  <2>9. w \in Views /\ StepTo(u, e, w)
    BY <2>8 DEF Reaches
  <2> HIDE DEF e, o, n
  <2>10. /\ n \in Streams /\ n.out = m.out \o <<e>> /\ n.text = m.text /\ n.fresh = m.fresh
         /\ n.think = None /\ Keeps(m, n)
    <3>1. <<e>> \in Seq(Events)
      BY <2>6
    <3>2. /\ n \in Streams /\ n.out = o.out \o <<e>> /\ n.text = o.text /\ n.think = o.think
          /\ n.fresh = o.fresh /\ Keeps(o, n)
      BY <2>4, <3>1, EmitIs DEF n
    <3> QED BY <2>5, <3>2 DEF Keeps
  <2>11. Runs(v, q \o n.out, w)
    BY <1>1, <2>1, <2>6, <2>9, <2>10, Emitted
  <2>12. w.client.text = t
    BY <2>1, <2>6, <2>7, <2>9, SameText
  <2>13. Stands(k, w, n)
    <3>1. InStep(w) /\ w.client.texts = u.client.texts
      BY <2>8 DEF Reaches
    <3>2. w.client.calls = u.client.calls /\ w.client.results = u.client.results
      BY <2>8 DEF Reaches
    <3>3. n.calls = m.calls
      BY <2>10 DEF Keeps
    <3> QED BY <2>1, <2>10, <3>1, <3>2, <3>3 DEF Stands
  <2> QED BY <2>2, <2>10, <2>11, <2>12, <2>13 DEF Reach
<1> QED BY <1>2, <1>3

\* K Agent goes on reasoning.
LEMMA ReasoningReaches ==
  ASSUME NEW k, k = "k_agent", NEW v, NEW q \in Seq(Events), NEW m, NEW t, Reach(k, v, q, m, t),
         NEW pieces \in Seq(Nat), m.text = None
  PROVE  LET n == Reason(m, pieces)
         IN  Reach(k, v, q, n, t) /\ n.text = None /\ Keeps(m, n)
<1> DEFINE x == [m EXCEPT !.think = m.fresh, !.fresh = m.fresh + 1]
           b == Event("reasoning_start", m.fresh)
           o == IF m.think # None THEN m ELSE Emit(x, <<b>>)
           e == Delta("reasoning_delta", o.think, pieces)
           n == Emit(o, <<e>>)
<1>a. Reason(m, pieces) = n
  BY DEF Reason
<1>1. m \in Streams
  BY DEF Reach
<1>2. Reach(k, v, q, o, t) /\ o.text = None /\ o.think # None /\ Keeps(m, o)
  <2>1. CASE m.think # None
    BY <2>1 DEF Keeps
  <2>2. CASE m.think = None
    <3>1. PICK u : Runs(v, q \o m.out, u) /\ Stands(k, u, m) /\ u.client.text = t
      BY DEF Reach
    <3>2. o = Emit(x, <<b>>)
      BY <2>2
    <3>3. m.fresh \in Nat \ {0} /\ m.fresh + 1 \in Nat \ {0} /\ m.fresh \in Nat /\ m.fresh # None
      BY <1>1 DEF Streams, None
    <3>4. x \in Streams
      BY <1>1, <3>3 DEF Streams
    <3>5. /\ x.text = m.text /\ x.fresh = m.fresh + 1 /\ x.think = m.fresh /\ x.out = m.out
          /\ Keeps(m, x)
      BY <1>1 DEF Streams, Keeps
    <3>6. b \in Events /\ Pieces(b) = <<>>
      BY <3>3, EventsAre, NoPieces DEF EventTypes
    <3>7. u \in Views /\ InStep(u)
      BY <1>1, <3>1, RunsView DEF Stands
    <3>8. PICK w : /\ Reaches(u, b, w, u.client.texts, u.client.calls, u.client.results)
                   /\ w.agui.inner = m.fresh /\ w.agui.outer = m.fresh
      BY <3>3, <3>7, ReasoningStarts
    <3>9. w \in Views /\ StepTo(u, b, w)
      BY <3>8 DEF Reaches
    <3> HIDE DEF b, x, o
    <3>10. /\ o \in Streams /\ o.out = m.out \o <<b>> /\ o.text = m.text /\ o.fresh = m.fresh + 1
           /\ o.think = m.fresh /\ Keeps(m, o)
      <4>1. <<b>> \in Seq(Events)
        BY <3>6
      <4>2. /\ o \in Streams /\ o.out = x.out \o <<b>> /\ o.text = x.text /\ o.think = x.think
            /\ o.fresh = x.fresh /\ Keeps(x, o)
        BY <3>2, <3>4, <4>1, EmitIs
      <4> QED BY <3>5, <4>2 DEF Keeps
    <3>11. Runs(v, q \o o.out, w)
      BY <1>1, <3>1, <3>6, <3>9, <3>10, Emitted
    <3>12. w.client.text = t
      BY <3>1, <3>6, <3>7, <3>9, SameText
    <3>13. Stands(k, w, o)
      <4>1. InStep(w) /\ w.client.texts = u.client.texts
        BY <3>8 DEF Reaches
      <4>2. w.client.calls = u.client.calls /\ w.client.results = u.client.results
        BY <3>8 DEF Reaches
      <4>3. u.client.calls \subseteq 1..(m.fresh - 1)
        BY <3>1 DEF Stands
      <4>4. u.client.calls \subseteq 1..(o.fresh - 1)
        BY <3>3, <3>10, <4>3
      <4>5. o.calls = m.calls
        BY <3>10 DEF Keeps
      <4> QED BY <3>1, <3>8, <3>10, <4>1, <4>2, <4>4, <4>5 DEF Stands
    <3> QED BY <3>3, <3>10, <3>11, <3>12, <3>13 DEF Reach
  <2> QED BY <2>1, <2>2
<1> HIDE DEF x, b, o
<1>3. PICK u : Runs(v, q \o o.out, u) /\ Stands(k, u, o) /\ u.client.text = t
  BY <1>2 DEF Reach
<1>4. o \in Streams /\ o.think \in Nat
  BY <1>2 DEF Reach, Streams
<1>5. u \in Views /\ InStep(u) /\ u.agui.inner = o.think /\ u.agui.outer = o.think
  BY <1>2, <1>3, <1>4, RunsView DEF Stands
<1>6. e \in Events /\ Pieces(e) = <<>>
  BY <1>4, EventsAre, EventIs DEF EventTypes, Pieces
<1>7. PICK w : /\ Reaches(u, e, w, u.client.texts, u.client.calls, u.client.results)
               /\ w.agui = u.agui
  <2>1. e = Delta("reasoning_delta", u.agui.inner, pieces) /\ u.agui.inner # None
    BY <1>2, <1>5
  <2> HIDE DEF e
  <2> QED BY <1>5, <2>1, ReasoningGoesOn
<1>8. w \in Views /\ StepTo(u, e, w)
  BY <1>7 DEF Reaches
<1> HIDE DEF e
<1>9. /\ n \in Streams /\ n.out = o.out \o <<e>> /\ n.text = o.text /\ n.fresh = o.fresh
      /\ n.think = o.think /\ Keeps(o, n)
  <2>1. <<e>> \in Seq(Events)
    BY <1>6
  <2> QED BY <1>4, <2>1, EmitIs
<1> HIDE DEF n
<1>10. Runs(v, q \o n.out, w)
  BY <1>3, <1>4, <1>6, <1>8, <1>9, Emitted
<1>11. w.client.text = t
  BY <1>3, <1>5, <1>6, <1>8, SameText
<1>12. Stands(k, w, n)
  <2>1. InStep(w) /\ w.client.texts = u.client.texts
    BY <1>7 DEF Reaches
  <2>2. w.client.calls = u.client.calls /\ w.client.results = u.client.results
    BY <1>7 DEF Reaches
  <2>3. n.calls = o.calls
    BY <1>9 DEF Keeps
  <2> QED BY <1>3, <1>5, <1>7, <1>9, <2>1, <2>2, <2>3 DEF Stands
<1>13. Reach(k, v, q, n, t) /\ n.text = None /\ Keeps(m, n)
  BY <1>2, <1>9, <1>10, <1>11, <1>12 DEF Reach, Keeps
<1> QED BY <1>a, <1>13 DEF x, b, o, e, n

-----------------------------------------------------------------------------
(* Calls.                                                                  *)

\* The calls that wait are those of items, by their ids.
LEMMA CallsAre ==
  ASSUME NEW m \in Streams
  PROVE  /\ DOMAIN m.calls \subseteq Items
         /\ \A i \in DOMAIN m.calls : m.calls[i] \in Nat
<1>1. PICK S \in SUBSET Items : m.calls \in [S -> Nat]
  BY DEF Streams
<1> QED BY <1>1

Adds(m, n, item) == DOMAIN n.calls = DOMAIN m.calls \cup {item}

\* A call of an item is announced.
LEMMA AnnounceReaches ==
  ASSUME NEW k, NEW v, NEW q \in Seq(Events), NEW m, NEW t, Reach(k, v, q, m, t), Quiet(k, m),
         NEW item \in Items
  PROVE  LET n == Announce(m, item)
         IN  /\ Reach(k, v, q, n, t) /\ n.text = m.text /\ n.think = m.think
             /\ n.wrote = m.wrote /\ n.textDelta = m.textDelta
             /\ Adds(m, n, item)
<1>1. m \in Streams
  BY DEF Reach
<1>2. PICK u : Runs(v, q \o m.out, u) /\ Stands(k, u, m) /\ u.client.text = t
  BY DEF Reach
<1> DEFINE D == DOMAIN m.calls \cup {item}
           f == [i \in D |-> IF i = item THEN m.fresh ELSE m.calls[i]]
           o == [m EXCEPT !.calls = f, !.fresh = m.fresh + 1]
           e == Event("tool_start", m.fresh)
           n == Emit(o, <<e>>)
<1>3. Announce(m, item) = n
  BY DEF Announce
<1>4. m.fresh \in Nat \ {0} /\ m.fresh + 1 \in Nat \ {0} /\ m.fresh \in Nat
  BY <1>1 DEF Streams
<1>5. f \in UNION {[S -> Nat] : S \in SUBSET Items}
  <2>1. D \in SUBSET Items /\ f \in [D -> Nat]
    BY <1>1, <1>4, CallsAre
  <2> HIDE DEF D, f
  <2> QED BY <2>1
<1>6. /\ DOMAIN f = D /\ f[item] = m.fresh
      /\ \A i \in D : i # item => i \in DOMAIN m.calls /\ f[i] = m.calls[i]
  OBVIOUS
<1>7. item \in D /\ \A i \in DOMAIN m.calls : i \in D
  OBVIOUS
<1> HIDE DEF f, D
<1>8. o \in Streams
  BY <1>1, <1>4, <1>5 DEF Streams
<1>9. /\ o.text = m.text /\ o.fresh = m.fresh + 1 /\ o.think = m.think /\ o.out = m.out
      /\ o.calls = f /\ o.wrote = m.wrote /\ o.textDelta = m.textDelta
  BY <1>1 DEF Streams
<1>10. e \in Events /\ Pieces(e) = <<>>
  BY <1>4, EventsAre, NoPieces DEF EventTypes
<1>11. u \in Views /\ InStep(u) /\ u.client.calls \subseteq 1..(m.fresh - 1)
  BY <1>1, <1>2, RunsView DEF Stands
<1>12. m.fresh \notin u.client.calls
  <2>1. m.fresh \notin 1..(m.fresh - 1)
    BY <1>4
  <2> QED BY <1>11, <2>1
<1>13. PICK w : Reaches(u, e, w, u.client.texts, u.client.calls \cup {m.fresh}, u.client.results)
  BY <1>4, <1>11, <1>12, CallStarts
<1>14. w \in Views /\ StepTo(u, e, w)
  BY <1>13 DEF Reaches
<1> HIDE DEF e, o, n
<1>15. /\ n \in Streams /\ n.out = m.out \o <<e>> /\ n.text = m.text /\ n.fresh = m.fresh + 1
       /\ n.think = m.think /\ n.calls = f /\ n.wrote = m.wrote /\ n.textDelta = m.textDelta
  <2>1. <<e>> \in Seq(Events)
    BY <1>10
  <2>2. /\ n \in Streams /\ n.out = o.out \o <<e>> /\ n.text = o.text /\ n.think = o.think
        /\ n.fresh = o.fresh /\ Keeps(o, n)
    BY <1>8, <2>1, EmitIs DEF n
  <2> QED BY <1>9, <2>2 DEF Keeps
<1>16. Runs(v, q \o n.out, w)
  BY <1>1, <1>2, <1>10, <1>14, <1>15, Emitted
<1>17. w.client.text = t
  BY <1>2, <1>10, <1>11, <1>14, SameText
<1>18. Stands(k, w, n)
  <2>1. /\ InStep(w) /\ w.client.texts = u.client.texts
        /\ w.client.calls = u.client.calls \cup {m.fresh} /\ w.client.results = u.client.results
    BY <1>13 DEF Reaches
  <2>2. w.client.calls \subseteq 1..(n.fresh - 1)
    <3>1. m.fresh \in 1..(n.fresh - 1) /\ 1..(m.fresh - 1) \subseteq 1..(n.fresh - 1)
      BY <1>4, <1>15
    <3> QED BY <1>11, <2>1, <3>1
  <2>3. /\ u.client.results \subseteq u.client.calls
        /\ \A i \in DOMAIN m.calls : m.calls[i] \in u.client.calls \ u.client.results
        /\ \A i, j \in DOMAIN m.calls : m.calls[i] = m.calls[j] => i = j
        /\ u.client.texts = IF m.text = None THEN {} ELSE {m.text}
    BY <1>2 DEF Stands
  <2>4. \A i \in D : f[i] \in w.client.calls \ w.client.results
    BY <1>6, <1>12, <2>1, <2>3
  <2>5. \A i, j \in D : f[i] = f[j] => i = j
    BY <1>6, <1>12, <2>3
  <2>6. k = "k_agent" => n.think = None
    BY <1>15 DEF Quiet
  <2> QED BY <1>6, <1>15, <2>1, <2>2, <2>3, <2>4, <2>5, <2>6 DEF Stands
<1>19. Adds(m, n, item)
  BY <1>6, <1>15 DEF D, Adds
<1> QED BY <1>3, <1>15, <1>16, <1>17, <1>18, <1>19 DEF Reach

\* A call that is announced and answered at once.
LEMMA AtOnceReaches ==
  ASSUME NEW k, NEW v, NEW q \in Seq(Events), NEW m, NEW t, Reach(k, v, q, m, t), Quiet(k, m)
  PROVE  LET n == Emit([m EXCEPT !.fresh = m.fresh + 1],
                       <<Event("tool_start", m.fresh), Event("tool_result", m.fresh)>>)
         IN  /\ Reach(k, v, q, n, t) /\ n.text = m.text /\ n.think = m.think /\ Keeps(m, n)
<1>1. m \in Streams
  BY DEF Reach
<1>2. PICK u : Runs(v, q \o m.out, u) /\ Stands(k, u, m) /\ u.client.text = t
  BY DEF Reach
<1> DEFINE o == [m EXCEPT !.fresh = m.fresh + 1]
           a == Event("tool_start", m.fresh)
           b == Event("tool_result", m.fresh)
           x == Emit(o, <<a>>)
           n == Emit(o, <<a, b>>)
<1>3. m.fresh \in Nat \ {0} /\ m.fresh + 1 \in Nat \ {0} /\ m.fresh \in Nat
  BY <1>1 DEF Streams
<1>4. o \in Streams
  BY <1>1, <1>3 DEF Streams
<1>5. /\ o.text = m.text /\ o.fresh = m.fresh + 1 /\ o.think = m.think /\ o.out = m.out
      /\ Keeps(m, o)
  BY <1>1 DEF Streams, Keeps
<1>6. a \in Events /\ b \in Events /\ Pieces(a) = <<>> /\ Pieces(b) = <<>>
  BY <1>3, EventsAre, NoPieces DEF EventTypes
<1>7. u \in Views /\ InStep(u) /\ u.client.calls \subseteq 1..(m.fresh - 1)
      /\ u.client.results \subseteq u.client.calls
  BY <1>1, <1>2, RunsView DEF Stands
<1>8. m.fresh \notin u.client.calls
  <2>1. m.fresh \notin 1..(m.fresh - 1)
    BY <1>3
  <2> QED BY <1>7, <2>1
<1>9. PICK y : Reaches(u, a, y, u.client.texts, u.client.calls \cup {m.fresh}, u.client.results)
  BY <1>3, <1>7, <1>8, CallStarts
<1>10. /\ y \in Views /\ StepTo(u, a, y) /\ InStep(y) /\ y.client.texts = u.client.texts
       /\ y.client.calls = u.client.calls \cup {m.fresh} /\ y.client.results = u.client.results
  BY <1>9 DEF Reaches
<1>11. m.fresh \in y.client.calls \ y.client.results
  BY <1>7, <1>8, <1>10
<1>12. PICK w : Reaches(y, b, w, y.client.texts, y.client.calls, y.client.results \cup {m.fresh})
  BY <1>3, <1>10, <1>11, ResultPasses
<1>13. w \in Views /\ StepTo(y, b, w)
  BY <1>12 DEF Reaches
<1> HIDE DEF a, b, o
<1>14. <<a>> \in Seq(Events) /\ <<b>> \in Seq(Events)
  BY <1>6
<1>15. x \in Streams /\ x.out = o.out \o <<a>> /\ x.text = o.text /\ x.think = o.think
       /\ x.fresh = o.fresh /\ Keeps(o, x)
  BY <1>4, <1>14, EmitIs
<1>16. n = Emit(x, <<b>>)
  BY <1>4, <1>6, EmitTwo
<1> HIDE DEF x, n
<1>17. n \in Streams /\ n.out = x.out \o <<b>> /\ n.text = x.text /\ n.think = x.think
       /\ n.fresh = x.fresh /\ Keeps(x, n)
  BY <1>14, <1>15, <1>16, EmitIs
<1>18. Runs(v, q \o x.out, y)
  <2>1. x.out = m.out \o <<a>>
    BY <1>5, <1>15
  <2> QED BY <1>1, <1>2, <1>6, <1>10, <2>1, Emitted
<1>19. Runs(v, q \o n.out, w)
  BY <1>6, <1>13, <1>15, <1>17, <1>18, Emitted
<1>20. w.client.text = t
  <2>1. y.client.text = u.client.text
    BY <1>6, <1>7, <1>10, SameText
  <2>2. w.client.text = y.client.text
    BY <1>6, <1>10, <1>13, SameText
  <2> QED BY <1>2, <2>1, <2>2
<1>21. /\ n.text = m.text /\ n.think = m.think /\ n.fresh = m.fresh + 1 /\ Keeps(m, n)
  BY <1>5, <1>15, <1>17 DEF Keeps
<1>22. Stands(k, w, n)
  <2>1. /\ InStep(w) /\ w.client.texts = u.client.texts
        /\ w.client.calls = u.client.calls \cup {m.fresh}
        /\ w.client.results = u.client.results \cup {m.fresh}
    BY <1>10, <1>12 DEF Reaches
  <2>2. w.client.calls \subseteq 1..(n.fresh - 1)
    <3>1. m.fresh \in 1..(n.fresh - 1) /\ 1..(m.fresh - 1) \subseteq 1..(n.fresh - 1)
      BY <1>3, <1>21
    <3> QED BY <1>7, <2>1, <3>1
  <2>3. /\ \A i \in DOMAIN m.calls : m.calls[i] \in u.client.calls \ u.client.results
        /\ \A i, j \in DOMAIN m.calls : m.calls[i] = m.calls[j] => i = j
        /\ u.client.texts = IF m.text = None THEN {} ELSE {m.text}
    BY <1>2 DEF Stands
  <2>4. n.calls = m.calls
    BY <1>21 DEF Keeps
  <2>5. \A i \in DOMAIN m.calls : m.calls[i] \in w.client.calls \ w.client.results
    BY <1>8, <2>1, <2>3
  <2>6. k = "k_agent" => n.think = None
    BY <1>21 DEF Quiet
  <2> QED BY <1>7, <1>21, <2>1, <2>2, <2>3, <2>4, <2>5, <2>6 DEF Stands
<1>23. Reach(k, v, q, n, t)
  BY <1>17, <1>19, <1>20, <1>22 DEF Reach
<1> QED BY <1>21, <1>23 DEF n, o, a, b

\* The result of an item belongs to its call, or to one announced with it.
LEMMA ConcludeReaches ==
  ASSUME NEW k, NEW v, NEW q \in Seq(Events), NEW m, NEW t, Reach(k, v, q, m, t), Quiet(k, m),
         NEW item
  PROVE  LET n == Conclude(m, item)
         IN  /\ Reach(k, v, q, n, t) /\ n.text = m.text /\ n.think = m.think
             /\ n.wrote = m.wrote /\ n.textDelta = m.textDelta
<1>1. m \in Streams
  BY DEF Reach
<1>2. CASE item \notin DOMAIN m.calls
  <2>1. Conclude(m, item) = Emit([m EXCEPT !.fresh = m.fresh + 1],
                       <<Event("tool_start", m.fresh), Event("tool_result", m.fresh)>>)
    BY <1>2 DEF Conclude
  <2> QED BY <2>1, AtOnceReaches DEF Keeps
<1>3. CASE item \in DOMAIN m.calls
  <2>1. PICK u : Runs(v, q \o m.out, u) /\ Stands(k, u, m) /\ u.client.text = t
    BY DEF Reach
  <2> DEFINE D == DOMAIN m.calls \ {item}
             f == [i \in D |-> m.calls[i]]
             o == [m EXCEPT !.calls = f]
             e == Event("tool_result", m.calls[item])
             n == Emit(o, <<e>>)
  <2>2. Conclude(m, item) = n
    BY <1>3 DEF Conclude, Restrict
  <2>3. m.calls[item] \in Nat
    BY <1>1, <1>3, CallsAre
  <2>4. f \in UNION {[S -> Nat] : S \in SUBSET Items}
    <3>1. D \in SUBSET Items /\ f \in [D -> Nat]
      BY <1>1, CallsAre
    <3> HIDE DEF D, f
    <3> QED BY <3>1
  <2>5. DOMAIN f = D /\ \A i \in D : i \in DOMAIN m.calls /\ i # item /\ f[i] = m.calls[i]
    OBVIOUS
  <2> HIDE DEF f, D
  <2>6. o \in Streams
    BY <1>1, <2>4 DEF Streams
  <2>7. /\ o.text = m.text /\ o.fresh = m.fresh /\ o.think = m.think /\ o.out = m.out
        /\ o.calls = f /\ o.wrote = m.wrote /\ o.textDelta = m.textDelta
    BY <1>1 DEF Streams
  <2>8. e \in Events /\ Pieces(e) = <<>>
    BY <2>3, EventsAre, NoPieces DEF EventTypes
  <2>9. u \in Views /\ InStep(u)
    BY <1>1, <2>1, RunsView DEF Stands
  <2>10. /\ u.client.results \subseteq u.client.calls
         /\ \A i \in DOMAIN m.calls : m.calls[i] \in u.client.calls \ u.client.results
         /\ \A i, j \in DOMAIN m.calls : m.calls[i] = m.calls[j] => i = j
         /\ u.client.texts = IF m.text = None THEN {} ELSE {m.text}
         /\ u.client.calls \subseteq 1..(m.fresh - 1)
    BY <2>1 DEF Stands
  <2>11. PICK w : Reaches(u, e, w, u.client.texts, u.client.calls,
                          u.client.results \cup {m.calls[item]})
    <3>1. m.calls[item] \in u.client.calls \ u.client.results
      BY <1>3, <2>10
    <3> QED BY <2>3, <2>9, <3>1, ResultPasses
  <2>12. w \in Views /\ StepTo(u, e, w)
    BY <2>11 DEF Reaches
  <2> HIDE DEF e, o, n
  <2>13. /\ n \in Streams /\ n.out = m.out \o <<e>> /\ n.text = m.text /\ n.fresh = m.fresh
         /\ n.think = m.think /\ n.calls = f /\ n.wrote = m.wrote /\ n.textDelta = m.textDelta
    <3>1. <<e>> \in Seq(Events)
      BY <2>8
    <3>2. /\ n \in Streams /\ n.out = o.out \o <<e>> /\ n.text = o.text /\ n.think = o.think
          /\ n.fresh = o.fresh /\ Keeps(o, n)
      BY <2>6, <3>1, EmitIs DEF n
    <3> QED BY <2>7, <3>2 DEF Keeps
  <2>14. Runs(v, q \o n.out, w)
    BY <1>1, <2>1, <2>8, <2>12, <2>13, Emitted
  <2>15. w.client.text = t
    BY <2>1, <2>8, <2>9, <2>12, SameText
  <2>16. Stands(k, w, n)
    <3>1. /\ InStep(w) /\ w.client.texts = u.client.texts /\ w.client.calls = u.client.calls
          /\ w.client.results = u.client.results \cup {m.calls[item]}
      BY <2>11 DEF Reaches
    <3>2. w.client.results \subseteq w.client.calls
      BY <1>3, <2>10, <3>1
    <3>3. \A i \in D : f[i] \in w.client.calls \ w.client.results
      BY <1>3, <2>5, <2>10, <3>1
    <3>4. \A i, j \in D : f[i] = f[j] => i = j
      BY <2>5, <2>10
    <3>5. k = "k_agent" => n.think = None
      BY <2>13 DEF Quiet
    <3> QED BY <2>5, <2>10, <2>13, <3>1, <3>2, <3>3, <3>4, <3>5 DEF Stands
  <2> QED BY <2>2, <2>13, <2>14, <2>15, <2>16 DEF Reach
<1> QED BY <1>2, <1>3

-----------------------------------------------------------------------------
(* Events that leave the mapping state alone.                              *)

\* Context, session and output leave everything open as it is.
LEMMA AsideReaches ==
  ASSUME NEW k, NEW v, NEW q \in Seq(Events), NEW m, NEW t, Reach(k, v, q, m, t), Quiet(k, m),
         NEW e, e \in {Event("context", None), Event("cli_session", None)}
                      \cup {Event("tool_output", m.calls[i]) : i \in DOMAIN m.calls}
  PROVE  LET n == Emit(m, <<e>>)
         IN  /\ Reach(k, v, q, n, t) /\ n.text = m.text /\ n.think = m.think /\ Keeps(m, n)
<1>1. m \in Streams
  BY DEF Reach
<1>2. PICK u : Runs(v, q \o m.out, u) /\ Stands(k, u, m) /\ u.client.text = t
  BY DEF Reach
<1> DEFINE n == Emit(m, <<e>>)
<1>3. u \in Views /\ InStep(u)
      /\ \A i \in DOMAIN m.calls : m.calls[i] \in u.client.calls \ u.client.results
  BY <1>1, <1>2, RunsView DEF Stands
<1>4. None \in Nat /\ \A i \in DOMAIN m.calls : m.calls[i] \in Nat
  BY <1>1, CallsAre DEF None
<1>5. e \in Events /\ Pieces(e) = <<>>
  BY <1>4, EventsAre, NoPieces DEF EventTypes
<1>6. PICK w : Reaches(u, e, w, u.client.texts, u.client.calls, u.client.results)
  BY <1>3, <1>4, ContextCrosses, SessionPasses, OutputPasses
<1>7. w \in Views /\ StepTo(u, e, w)
  BY <1>6 DEF Reaches
<1>8. n \in Streams /\ n.out = m.out \o <<e>> /\ n.text = m.text /\ n.think = m.think
      /\ n.fresh = m.fresh /\ Keeps(m, n)
  <2>1. <<e>> \in Seq(Events)
    BY <1>5
  <2> QED BY <1>1, <2>1, EmitIs
<1> HIDE DEF n
<1>9. Runs(v, q \o n.out, w)
  BY <1>1, <1>2, <1>5, <1>7, <1>8, Emitted
<1>10. w.client.text = t
  BY <1>2, <1>3, <1>5, <1>7, SameText
<1>11. Stands(k, w, n)
  <2>1. InStep(w) /\ w.client.texts = u.client.texts
    BY <1>6 DEF Reaches
  <2>2. w.client.calls = u.client.calls /\ w.client.results = u.client.results
    BY <1>6 DEF Reaches
  <2>3. n.calls = m.calls /\ (k = "k_agent" => n.think = None)
    BY <1>8 DEF Keeps, Quiet
  <2> QED BY <1>2, <1>8, <2>1, <2>2, <2>3 DEF Stands
<1> QED BY <1>8, <1>9, <1>10, <1>11 DEF Reach, n

-----------------------------------------------------------------------------
(* The end of a run.                                                       *)

\* With all text ended the run may be over.
LEMMA FinalOver ==
  ASSUME NEW k, NEW v, NEW q \in Seq(Events), NEW m, NEW t, Reach(k, v, q, m, t), m.text = None,
         NEW e, e \in {Event("final", None), Event("cli_error", None)}
  PROVE  Over(v, q, Emit(m, <<e>>), t)
<1>1. m \in Streams
  BY DEF Reach
<1>2. PICK u : Runs(v, q \o m.out, u) /\ Stands(k, u, m) /\ u.client.text = t
  BY DEF Reach
<1> DEFINE n == Emit(m, <<e>>)
<1>3. u \in Views /\ InStep(u) /\ u.client.texts = {}
  BY <1>1, <1>2, RunsView DEF Stands
<1>4. e \in Events /\ Pieces(e) = <<>>
  <2>1. None \in Nat
    BY DEF None
  <2> QED BY <2>1, EventsAre, NoPieces DEF EventTypes
<1>5. PICK w : w \in Views /\ StepTo(u, e, w)
  BY <1>3, FinalEnds, SentinelEnds
<1>6. n \in Streams /\ n.out = m.out \o <<e>>
  <2>1. <<e>> \in Seq(Events)
    BY <1>4
  <2> QED BY <1>1, <2>1, EmitIs
<1> HIDE DEF n
<1>7. Runs(v, q \o n.out, w)
  BY <1>1, <1>2, <1>4, <1>5, <1>6, Emitted
<1>8. w.client.text = t
  BY <1>2, <1>3, <1>4, <1>5, SameText
<1> QED BY <1>6, <1>7, <1>8 DEF Over, n

\* The sentinel may come with text open.
LEMMA CodexErrorOver ==
  ASSUME NEW k, NEW v, NEW q \in Seq(Events), NEW m, NEW t, Reach(k, v, q, m, t)
  PROVE  Over(v, q, CodexError(m), t)
<1> DEFINE e == Event("cli_error", None)
           n == Emit(m, <<e>>)
<1>1. m \in Streams
  BY DEF Reach
<1>2. PICK u : Runs(v, q \o m.out, u) /\ Stands(k, u, m) /\ u.client.text = t
  BY DEF Reach
<1>3. u \in Views /\ InStep(u)
  BY <1>1, <1>2, RunsView DEF Stands
<1>4. e \in Events /\ Pieces(e) = <<>>
  <2>1. None \in Nat
    BY DEF None
  <2> QED BY <2>1, EventsAre, NoPieces DEF EventTypes
<1>5. PICK w : w \in Views /\ StepTo(u, e, w)
  BY <1>3, SentinelEnds
<1> HIDE DEF e
<1>6. n \in Streams /\ n.out = m.out \o <<e>>
  <2>1. <<e>> \in Seq(Events)
    BY <1>4
  <2> QED BY <1>1, <2>1, EmitIs
<1> HIDE DEF n
<1>7. Runs(v, q \o n.out, w)
  BY <1>1, <1>2, <1>4, <1>5, <1>6, Emitted
<1>8. w.client.text = t
  BY <1>2, <1>3, <1>4, <1>5, SameText
<1>9. Over(v, q, n, t)
  BY <1>6, <1>7, <1>8 DEF Over
<1> QED BY <1>9 DEF n, e, CodexError

\* A remark in the thinking first.
LEMMA RemarkOver ==
  ASSUME NEW k, NEW v, NEW q \in Seq(Events), NEW m, NEW t, Reach(k, v, q, m, t), m.text = None,
         NEW id \in Nat, id # None
  PROVE  Over(v, q, Emit(m, <<Thinking(id, <<>>, FALSE), Event("final", None)>>), t)
<1>1. m \in Streams
  BY DEF Reach
<1>2. PICK u : Runs(v, q \o m.out, u) /\ Stands(k, u, m) /\ u.client.text = t
  BY DEF Reach
<1> DEFINE a == Thinking(id, <<>>, FALSE)
           b == Event("final", None)
           x == Emit(m, <<a>>)
           n == Emit(m, <<a, b>>)
<1>3. u \in Views /\ InStep(u) /\ u.client.texts = {}
  BY <1>1, <1>2, RunsView DEF Stands
<1>4. a \in Events /\ Pieces(a) = <<>> /\ b \in Events /\ Pieces(b) = <<>>
  <2>1. None \in Nat /\ <<>> \in Seq(Nat)
    BY DEF None
  <2> QED BY <2>1, EventsAre, NoPieces DEF EventTypes
<1>5. PICK y : Reaches(u, a, y, u.client.texts, u.client.calls, u.client.results)
  <2>1. <<>> \in Seq(Nat) /\ FALSE \in BOOLEAN
    OBVIOUS
  <2> QED BY <1>3, <2>1, ThinkingShown
<1>6. y \in Views /\ StepTo(u, a, y) /\ InStep(y) /\ y.client.texts = {}
  BY <1>3, <1>5 DEF Reaches
<1>7. PICK w : w \in Views /\ StepTo(y, b, w)
  BY <1>6, FinalEnds
<1> HIDE DEF a, b
<1>8. <<a>> \in Seq(Events) /\ <<b>> \in Seq(Events)
  BY <1>4
<1>9. x \in Streams /\ x.out = m.out \o <<a>>
  BY <1>1, <1>8, EmitIs
<1>10. n = Emit(x, <<b>>)
  BY <1>1, <1>4, EmitTwo
<1> HIDE DEF x, n
<1>11. n \in Streams /\ n.out = x.out \o <<b>>
  BY <1>8, <1>9, <1>10, EmitIs
<1>12. Runs(v, q \o x.out, y)
  BY <1>1, <1>2, <1>4, <1>6, <1>9, Emitted
<1>13. Runs(v, q \o n.out, w)
  BY <1>4, <1>7, <1>9, <1>11, <1>12, Emitted
<1>14. w.client.text = t
  <2>1. y.client.text = u.client.text
    BY <1>3, <1>4, <1>6, SameText
  <2>2. w.client.text = y.client.text
    BY <1>4, <1>6, <1>7, SameText
  <2> QED BY <1>2, <2>1, <2>2
<1> QED BY <1>11, <1>13, <1>14 DEF Over, n, a, b

-----------------------------------------------------------------------------
(* What the messages of a command line provider come to.                   *)

Wrote(m) == m.text # None => m.wrote

\* Thinking that goes on.
LEMMA ThinkOn ==
  ASSUME NEW k, k # "k_agent", NEW v, NEW q \in Seq(Events), NEW m, NEW t, Reach(k, v, q, m, t),
         NEW pieces \in Seq(Nat)
  PROVE  LET n == Think(m, pieces, FALSE)
         IN  Reach(k, v, q, n, t) /\ n.text = m.text /\ Keeps(m, n)
<1>1. PICK f \in BOOLEAN : ~ f
  OBVIOUS
<1>2. f = FALSE
  BY <1>1
<1>3. \A b \in BOOLEAN :
        LET n == Think(m, pieces, b) IN Reach(k, v, q, n, t) /\ n.text = m.text /\ Keeps(m, n)
  BY ThinkReaches
<1>4. LET n == Think(m, pieces, f) IN Reach(k, v, q, n, t) /\ n.text = m.text /\ Keeps(m, n)
  BY <1>3
<1> QED BY <1>2, <1>4, Zenon

\* Thinking that is complete.
LEMMA ThinkOut ==
  ASSUME NEW k, k # "k_agent", NEW v, NEW q \in Seq(Events), NEW m, NEW t, Reach(k, v, q, m, t),
         NEW pieces \in Seq(Nat)
  PROVE  LET n == Think(m, pieces, TRUE)
         IN  Reach(k, v, q, n, t) /\ n.text = m.text /\ Keeps(m, n)
<1>1. PICK f \in BOOLEAN : f
  OBVIOUS
<1>2. f = TRUE
  BY <1>1
<1>3. \A b \in BOOLEAN :
        LET n == Think(m, pieces, b) IN Reach(k, v, q, n, t) /\ n.text = m.text /\ Keeps(m, n)
  BY ThinkReaches
<1>4. LET n == Think(m, pieces, f) IN Reach(k, v, q, n, t) /\ n.text = m.text /\ Keeps(m, n)
  BY <1>3
<1> QED BY <1>2, <1>4, Zenon

\* Another state that stands for the same.
LEMMA SameReach ==
  ASSUME NEW k, NEW v, NEW q, NEW m, NEW t, Reach(k, v, q, m, t), NEW n \in Streams,
         n.text = m.text, n.think = m.think, n.calls = m.calls, n.fresh = m.fresh, n.out = m.out
  PROVE  Reach(k, v, q, n, t)
<1>1. PICK u : Runs(v, q \o m.out, u) /\ Stands(k, u, m) /\ u.client.text = t
  BY DEF Reach
<1>2. Stands(k, u, n)
  BY <1>1 DEF Stands
<1>3. Runs(v, q \o n.out, u)
  BY <1>1
<1> QED BY <1>1, <1>2, <1>3 DEF Reach

\* A delta of Codex is said once.
LEMMA CodexTextDeltaReaches ==
  ASSUME NEW k, k # "k_agent", NEW v, NEW q \in Seq(Events), NEW m, NEW t, Reach(k, v, q, m, t),
         NEW p \in Seq(Nat), p # <<>>
  PROVE  LET n == CodexTextDelta(m, p)
         IN  Reach(k, v, q, n, t \o p) /\ n.text # None /\ Wrote(n)
<1> DEFINE o == CloseThinking(m)
<1>1. Reach(k, v, q, o, t)
  BY CloseThinkingReaches
<1>2. Quiet(k, o)
  BY DEF Quiet
<1> HIDE DEF o
<1> DEFINE n == AppendText(o, p)
<1>3. Reach(k, v, q, n, t \o p) /\ n.text # None /\ n.wrote
  BY <1>1, <1>2, AppendTextReaches
<1> QED BY <1>3 DEF CodexTextDelta, o, Wrote

\* A message of Codex is said where it was not streamed.
LEMMA CodexMessageReaches ==
  ASSUME NEW k, k # "k_agent", NEW v, NEW q \in Seq(Events), NEW m, NEW t, Reach(k, v, q, m, t),
         NEW p \in Seq(Nat)
  PROVE  LET n == CodexMessage(m, p)
         IN  Reach(k, v, q, n, IF m.text = None THEN t \o p ELSE t) /\ n.text = None
<1> DEFINE o == IF m.text = None THEN AppendText(m, p) ELSE m
           s == IF m.text = None THEN t \o p ELSE t
           n == CloseText(o)
<1>1. \A x : Quiet(k, x)
  BY DEF Quiet
<1>2. Reach(k, v, q, o, s)
  <2>1. CASE m.text = None
    <3>1. Reach(k, v, q, AppendText(m, p), t \o p)
      BY <1>1, AppendTextReaches
    <3> QED BY <2>1, <3>1
  <2>2. CASE m.text # None
    BY <2>2
  <2> QED BY <2>1, <2>2
<1> HIDE DEF o, s
<1>3. Reach(k, v, q, n, s) /\ n.text = None
  BY <1>1, <1>2, CloseTextReaches
<1> QED BY <1>3 DEF CodexMessage, o, s

\* A summary of Codex says nothing.
LEMMA CodexReasoningReaches ==
  ASSUME NEW k, k # "k_agent", NEW v, NEW q \in Seq(Events), NEW m, NEW t, Reach(k, v, q, m, t),
         NEW p \in Seq(Nat)
  PROVE  LET n == CodexReasoning(m, p)
         IN  Reach(k, v, q, n, t) /\ n.text = m.text /\ Keeps(m, n)
<1>1. CASE p = <<>>
  <2>1. CodexReasoning(m, p) = CloseThinking(m)
    BY <1>1 DEF CodexReasoning
  <2> DEFINE n == CloseThinking(m)
  <2>2. Reach(k, v, q, n, t) /\ n.text = m.text /\ Keeps(m, n)
    BY CloseThinkingReaches
  <2> HIDE DEF n
  <2> QED BY <2>1, <2>2 DEF n
<1>2. CASE p # <<>>
  <2>1. CodexReasoning(m, p) = Think(m, p, TRUE)
    BY <1>2 DEF CodexReasoning
  <2>2. LET n == Think(m, p, TRUE) IN Reach(k, v, q, n, t) /\ n.text = m.text /\ Keeps(m, n)
    BY ThinkOut
  <2> QED BY <2>1, <2>2, Zenon
<1> QED BY <1>1, <1>2

\* Before an item the text and the thinking end.
LEMMA ClosedReaches ==
  ASSUME NEW k, k # "k_agent", NEW v, NEW q \in Seq(Events), NEW m, NEW t, Reach(k, v, q, m, t)
  PROVE  LET o == CloseText(CloseThinking(m))
         IN  Reach(k, v, q, o, t) /\ Quiet(k, o) /\ o.text = None /\ Keeps(m, o)
<1> DEFINE x == CloseThinking(m)
           o == CloseText(x)
<1>1. \A y : Quiet(k, y)
  BY DEF Quiet
<1>2. Reach(k, v, q, x, t) /\ Keeps(m, x)
  BY CloseThinkingReaches
<1> HIDE DEF x
<1>3. Reach(k, v, q, o, t) /\ o.text = None /\ Keeps(x, o)
  BY <1>1, <1>2, CloseTextReaches
<1> HIDE DEF o
<1>4. Keeps(m, o)
  BY <1>2, <1>3 DEF Keeps
<1> QED BY <1>1, <1>3, <1>4 DEF x, o

\* An item of Codex or of Claude starts.
LEMMA ItemStartedReaches ==
  ASSUME NEW k, k # "k_agent", NEW v, NEW q \in Seq(Events), NEW m, NEW t, Reach(k, v, q, m, t),
         NEW i \in Items
  PROVE  LET n == Announce(CloseText(CloseThinking(m)), i)
         IN  Reach(k, v, q, n, t) /\ n.text = None /\ n.textDelta = m.textDelta
<1> DEFINE o == CloseText(CloseThinking(m))
           n == Announce(o, i)
<1>1. Reach(k, v, q, o, t) /\ Quiet(k, o) /\ o.text = None /\ Keeps(m, o)
  BY ClosedReaches
<1> HIDE DEF o
<1>2. Reach(k, v, q, n, t) /\ n.text = o.text /\ n.textDelta = o.textDelta
  BY <1>1, AnnounceReaches
<1> HIDE DEF n
<1>3. Reach(k, v, q, n, t) /\ n.text = None /\ n.textDelta = m.textDelta
  BY <1>1, <1>2 DEF Keeps
<1> QED BY <1>3 DEF o, n

\* An item of Codex is complete, started or not.
LEMMA ItemCompletedReaches ==
  ASSUME NEW k, k # "k_agent", NEW v, NEW q \in Seq(Events), NEW m, NEW t, Reach(k, v, q, m, t),
         NEW i
  PROVE  LET n == CodexItemCompleted(m, i)
         IN  Reach(k, v, q, n, t) /\ n.text = None
<1> DEFINE o == CloseText(CloseThinking(m))
           n == Conclude(o, i)
<1>1. Reach(k, v, q, o, t) /\ Quiet(k, o) /\ o.text = None
  BY ClosedReaches
<1> HIDE DEF o
<1>2. Reach(k, v, q, n, t) /\ n.text = o.text
  BY <1>1, ConcludeReaches
<1> QED BY <1>1, <1>2 DEF o, CodexItemCompleted

\* A turn of Codex ends the run, well or not.
LEMMA CodexTurnOver ==
  ASSUME NEW k, k # "k_agent", NEW v, NEW q \in Seq(Events), NEW m, NEW t, Reach(k, v, q, m, t),
         NEW ok
  PROVE  Over(v, q, CodexTurn(m, ok), t)
<1> DEFINE o == CloseText(CloseThinking(m))
           a == Event("cli_session", None)
           b == Event("final", None)
           c == Event("cli_error", None)
           x == Emit(o, <<a>>)
<1>1. Reach(k, v, q, o, t) /\ Quiet(k, o) /\ o.text = None
  BY ClosedReaches
<1>2. CodexTurn(m, ok) = IF ok THEN Emit(o, <<a, b>>) ELSE Emit(o, <<c>>)
  BY DEF CodexTurn
<1>3. a \in Events /\ b \in Events
  <2>1. None \in Nat
    BY DEF None
  <2> QED BY <2>1, EventsAre DEF EventTypes
<1> HIDE DEF o
<1>4. o \in Streams
  BY <1>1 DEF Reach
<1>5. Over(v, q, Emit(o, <<c>>), t)
  BY <1>1, FinalOver
<1>6. Reach(k, v, q, x, t) /\ x.text = None
  BY <1>1, AsideReaches
<1>7. Emit(o, <<a, b>>) = Emit(x, <<b>>)
  <2> HIDE DEF a, b
  <2> QED BY <1>3, <1>4, EmitTwo
<1>8. Over(v, q, Emit(x, <<b>>), t)
  <2> HIDE DEF x
  <2> QED BY <1>6, FinalOver
<1> QED BY <1>2, <1>5, <1>7, <1>8

-----------------------------------------------------------------------------
(* Claude.                                                                 *)

\* Partial thinking of Claude says nothing.
LEMMA ClaudeThinkDeltaReaches ==
  ASSUME NEW k, k # "k_agent", NEW v, NEW q \in Seq(Events), NEW m, NEW t, Reach(k, v, q, m, t),
         NEW p \in Seq(Nat)
  PROVE  LET n == ClaudeThinkDelta(m, p)
         IN  Reach(k, v, q, n, t) /\ n.text = m.text /\ Keeps(m, n)
<1> DEFINE d == m.thinkDelta \o p
           o == [m EXCEPT !.thinkDelta = d]
           n == Think(o, p, FALSE)
<1>1. m \in Streams
  BY DEF Reach
<1>2. d \in Seq(Nat)
  <2>1. m.thinkDelta \in Seq(Nat)
    BY <1>1 DEF Streams
  <2> QED BY <2>1
<1>3. ClaudeThinkDelta(m, p) = n
  BY DEF ClaudeThinkDelta
<1> HIDE DEF d
<1>4. o \in Streams
  BY <1>1, <1>2 DEF Streams
<1>5. /\ o.text = m.text /\ o.think = m.think /\ o.calls = m.calls /\ o.fresh = m.fresh
      /\ o.out = m.out /\ Keeps(m, o)
  BY <1>1 DEF Streams, Keeps
<1> HIDE DEF o
<1>6. Reach(k, v, q, o, t)
  BY <1>4, <1>5, SameReach
<1>7. Reach(k, v, q, n, t) /\ n.text = o.text /\ Keeps(o, n)
  BY <1>6, ThinkOn
<1> HIDE DEF n
<1>8. Reach(k, v, q, n, t) /\ n.text = m.text /\ Keeps(m, n)
  BY <1>5, <1>7 DEF Keeps
<1> QED BY <1>3, <1>8

Streamed(m, p) == m.textDelta \o p

\* Partial text of Claude is said once, and remembered.
LEMMA ClaudeTextDeltaReaches ==
  ASSUME NEW k, k # "k_agent", NEW v, NEW q \in Seq(Events), NEW m, NEW t, Reach(k, v, q, m, t),
         NEW p \in Seq(Nat), p # <<>>, NEW d, d = Streamed(m, p)
  PROVE  LET n == ClaudeTextDelta(m, p)
         IN  Reach(k, v, q, n, t \o p) /\ Wrote(n) /\ n.textDelta = d
<1> DEFINE o == [m EXCEPT !.textDelta = d]
           x == CloseThinking(o)
           n == AppendText(x, p)
<1>1. m \in Streams
  BY DEF Reach
<1>d. d = m.textDelta \o p
  BY DEF Streamed
<1>2. d \in Seq(Nat)
  <2>1. m.textDelta \in Seq(Nat)
    BY <1>1 DEF Streams
  <2> QED BY <1>d, <2>1
<1>3. ClaudeTextDelta(m, p) = n
  BY <1>d DEF ClaudeTextDelta
<1>4. o \in Streams
  BY <1>1, <1>2 DEF Streams
<1>5. /\ o.text = m.text /\ o.think = m.think /\ o.calls = m.calls /\ o.fresh = m.fresh
      /\ o.out = m.out /\ o.textDelta = d
  BY <1>1 DEF Streams
<1> HIDE DEF o
<1>6. Reach(k, v, q, o, t)
  BY <1>4, <1>5, SameReach
<1>7. Reach(k, v, q, x, t) /\ Keeps(o, x)
  BY <1>6, CloseThinkingReaches
<1>8. Quiet(k, x)
  BY DEF Quiet
<1> HIDE DEF x
<1>9. Reach(k, v, q, n, t \o p) /\ n.text # None /\ n.wrote /\ n.textDelta = x.textDelta
  BY <1>7, <1>8, AppendTextReaches
<1> HIDE DEF n
<1>10. Reach(k, v, q, n, t \o p) /\ Wrote(n) /\ n.textDelta = d
  BY <1>5, <1>7, <1>9 DEF Keeps, Wrote
<1> QED BY <1>3, <1>10

\* Of a block of text that is complete the rest is said.
LEMMA ClaudeTextReaches ==
  ASSUME NEW k, k # "k_agent", NEW v, NEW q \in Seq(Events), NEW m, NEW t, Reach(k, v, q, m, t),
         Wrote(m), NEW p \in Seq(Nat), NEW more \in Seq(Nat), Behind(m.textDelta, p) = more
  PROVE  LET n == ClaudeText(m, p)
         IN  Reach(k, v, q, n, t \o more) /\ Wrote(n) /\ n.textDelta = <<>>
<1> DEFINE x == CloseThinking(m)
           o == [x EXCEPT !.textDelta = <<>>]
           n == AppendText(o, more)
<1>1. Reach(k, v, q, x, t) /\ x.text = m.text /\ Keeps(m, x)
  BY CloseThinkingReaches
<1>2. ClaudeText(m, p) = AppendText(o, Behind(x.textDelta, p))
  BY DEF ClaudeText
<1> HIDE DEF x
<1>3. ClaudeText(m, p) = n
  BY <1>1, <1>2 DEF Keeps
<1>4. x \in Streams /\ <<>> \in Seq(Nat)
  BY <1>1 DEF Reach
<1>5. o \in Streams
  BY <1>4 DEF Streams
<1>6. /\ o.text = x.text /\ o.think = x.think /\ o.calls = x.calls /\ o.fresh = x.fresh
      /\ o.out = x.out /\ o.textDelta = <<>> /\ o.wrote = x.wrote
  BY <1>4 DEF Streams
<1>7. Quiet(k, o)
  BY DEF Quiet
<1> HIDE DEF o
<1>8. Reach(k, v, q, o, t)
  BY <1>1, <1>5, <1>6, SameReach
<1>9. /\ Reach(k, v, q, n, t \o more) /\ n.textDelta = o.textDelta
      /\ more = <<>> => n = o
      /\ more # <<>> => n.text # None /\ n.wrote
  BY <1>7, <1>8, AppendTextReaches
<1> HIDE DEF n
<1>10. Wrote(o)
  BY <1>1, <1>6 DEF Wrote, Keeps
<1>11. Reach(k, v, q, n, t \o more) /\ Wrote(n) /\ n.textDelta = <<>>
  BY <1>6, <1>9, <1>10 DEF Wrote
<1> QED BY <1>3, <1>11

\* A block of thinking that is complete says nothing.
LEMMA ClaudeThinkingReaches ==
  ASSUME NEW k, k # "k_agent", NEW v, NEW q \in Seq(Events), NEW m, NEW t, Reach(k, v, q, m, t),
         NEW p \in Seq(Nat)
  PROVE  LET n == ClaudeThinking(m, p)
         IN  Reach(k, v, q, n, t) /\ n.text = m.text /\ Keeps(m, n)
<1> DEFINE o == [m EXCEPT !.thinkDelta = <<>>]
           b == Behind(m.thinkDelta, p)
           x == CloseThinking(o)
           n == ClaudeThinking(m, p)
<1>1. m \in Streams /\ <<>> \in Seq(Nat)
  BY DEF Reach
<1>2. m.thinkDelta \in Seq(Nat)
  BY <1>1 DEF Streams
<1>3. b \in Seq(Nat)
  <2>1. \A i, j \in Int : i >= 1 => SubSeq(p, i, Len(p)) \in Seq(Nat)
    OBVIOUS
  <2>2. Len(m.thinkDelta) \in Nat
    BY <1>2
  <2> QED BY <2>1, <2>2 DEF Behind
<1>4. n = IF IsPrefix(m.thinkDelta, p) THEN Think(o, b, TRUE) ELSE Think(x, p, TRUE)
  BY DEF ClaudeThinking
<1> HIDE DEF b, n
<1>5. o \in Streams
  BY <1>1 DEF Streams
<1>6. /\ o.text = m.text /\ o.think = m.think /\ o.calls = m.calls /\ o.fresh = m.fresh
      /\ o.out = m.out /\ Keeps(m, o)
  BY <1>1 DEF Streams, Keeps
<1> HIDE DEF o
<1>7. Reach(k, v, q, o, t)
  BY <1>5, <1>6, SameReach
<1>8. Reach(k, v, q, x, t) /\ x.text = o.text /\ Keeps(o, x)
  BY <1>7, CloseThinkingReaches
<1> HIDE DEF x
<1>9. LET y == Think(o, b, TRUE) IN Reach(k, v, q, y, t) /\ y.text = o.text /\ Keeps(o, y)
  BY <1>3, <1>7, ThinkOut
<1>10. LET y == Think(x, p, TRUE) IN Reach(k, v, q, y, t) /\ y.text = x.text /\ Keeps(x, y)
  BY <1>8, ThinkOut
<1>11. \/ Reach(k, v, q, n, t) /\ n.text = o.text /\ Keeps(o, n)
       \/ Reach(k, v, q, n, t) /\ n.text = x.text /\ Keeps(x, n)
  BY <1>4, <1>9, <1>10, Zenon
<1>12. Reach(k, v, q, n, t) /\ n.text = m.text /\ Keeps(m, n)
  BY <1>6, <1>8, <1>11 DEF Keeps
<1> QED BY <1>12 DEF n

\* The answer of a result is given only where nothing was written.
Fits(m, p) == m.wrote => p = <<>>

\* The result of Claude is said where nothing else was.
LEMMA ClaudeResultReaches ==
  ASSUME NEW k, k # "k_agent", NEW v, NEW q \in Seq(Events), NEW m, NEW t, Reach(k, v, q, m, t),
         NEW p \in Seq(Nat), Fits(m, p)
  PROVE  LET n == ClaudeResult(m, p)
         IN  Reach(k, v, q, n, t \o p) /\ n.text = None /\ n.textDelta = m.textDelta
<1> DEFINE o == CloseThinking(m)
           x == CloseText(o)
           y == AppendText(x, p)
           z == CloseText(y)
           n == ClaudeResult(m, p)
<1>1. \A a : Quiet(k, a)
  BY DEF Quiet
<1>2. n = IF m.wrote THEN x ELSE z
  BY DEF ClaudeResult
<1> HIDE DEF n
<1>3. Reach(k, v, q, o, t) /\ Keeps(m, o)
  BY CloseThinkingReaches
<1> HIDE DEF o
<1>4. Reach(k, v, q, x, t) /\ x.text = None /\ Keeps(o, x)
  BY <1>1, <1>3, CloseTextReaches
<1> HIDE DEF x
<1>5. Reach(k, v, q, y, t \o p) /\ y.textDelta = x.textDelta
  BY <1>1, <1>4, AppendTextReaches
<1> HIDE DEF y
<1>6. Reach(k, v, q, z, t \o p) /\ z.text = None /\ Keeps(y, z)
  BY <1>1, <1>5, CloseTextReaches
<1> HIDE DEF z
<1>7. t \o <<>> = t
  BY ReachText
<1>8. CASE m.wrote
  BY <1>2, <1>3, <1>4, <1>7, <1>8 DEF Keeps, Fits, n
<1>9. CASE ~ m.wrote
  BY <1>2, <1>3, <1>4, <1>5, <1>6, <1>9 DEF Keeps, n
<1> QED BY <1>8, <1>9

\* A provider that ends badly leaves no text open.
LEMMA CliEndedReaches ==
  ASSUME NEW k, k # "k_agent", NEW v, NEW q \in Seq(Events), NEW m, NEW t, Reach(k, v, q, m, t)
  PROVE  LET n == Emit(CloseText(m), <<Event("cli_session", None)>>)
         IN  Reach(k, v, q, n, t) /\ n.text = None /\ Keeps(m, n)
<1> DEFINE o == CloseText(m)
           n == Emit(o, <<Event("cli_session", None)>>)
<1>1. \A a : Quiet(k, a)
  BY DEF Quiet
<1>2. Reach(k, v, q, o, t) /\ o.text = None /\ Keeps(m, o)
  BY <1>1, CloseTextReaches
<1> HIDE DEF o
<1>3. Reach(k, v, q, n, t) /\ n.text = o.text /\ Keeps(o, n)
  <2> DEFINE e == Event("cli_session", None)
  <2>1. e \in {Event("context", None), Event("cli_session", None)}
              \cup {Event("tool_output", o.calls[i]) : i \in DOMAIN o.calls}
    OBVIOUS
  <2>2. n = Emit(o, <<e>>)
    OBVIOUS
  <2> HIDE DEF e, n
  <2>3. LET y == Emit(o, <<e>>)
        IN  /\ Reach(k, v, q, y, t) /\ y.text = o.text /\ y.think = o.think /\ Keeps(o, y)
    <3>1. Quiet(k, o)
      BY <1>1
    <3> QED BY <1>2, <2>1, <3>1, AsideReaches, Zenon
  <2> QED BY <2>2, <2>3
<1> HIDE DEF n
<1>4. Reach(k, v, q, n, t) /\ n.text = None /\ Keeps(m, n)
  BY <1>2, <1>3 DEF Keeps
<1> QED BY <1>4 DEF n, o

\* One that ends well ends the run, with a remark where it said nothing.
LEMMA CliEndOver ==
  ASSUME NEW k, k # "k_agent", NEW v, NEW q \in Seq(Events), NEW m, NEW t, Reach(k, v, q, m, t),
         Wrote(m), NEW p \in Seq(Nat)
  PROVE  Over(v, q, CliEnd(m, 0, p), IF m.wrote THEN t ELSE t \o p)
<1> DEFINE o == Emit(CloseText(m), <<Event("cli_session", None)>>)
           x == AppendText(o, p)
           y == CloseText(x)
           z == IF m.wrote THEN o ELSE y
           s == IF m.wrote THEN t ELSE t \o p
           b == Event("final", None)
<1>1. \A a : Quiet(k, a)
  BY DEF Quiet
<1>2. CliEnd(m, 0, p) = Emit(z, <<b>>)
  BY DEF CliEnd, Wrote
<1>3. Reach(k, v, q, o, t) /\ o.text = None
  BY CliEndedReaches
<1> HIDE DEF o
<1>4. Reach(k, v, q, x, t \o p)
  BY <1>1, <1>3, AppendTextReaches
<1> HIDE DEF x
<1>5. Reach(k, v, q, y, t \o p) /\ y.text = None
  BY <1>1, <1>4, CloseTextReaches
<1> HIDE DEF y
<1>6. Reach(k, v, q, z, s) /\ z.text = None
  BY <1>3, <1>5
<1> HIDE DEF z, s
<1>7. Over(v, q, Emit(z, <<b>>), s)
  BY <1>6, FinalOver
<1> QED BY <1>2, <1>7 DEF s

-----------------------------------------------------------------------------
(* What is on the wire are events of the wire.                             *)

\* Sequences one after the other are a sequence.
LEMMA SeqBoth ==
  ASSUME NEW T, NEW a \in Seq(T), NEW b \in Seq(T) PROVE a \o b \in Seq(T)
OBVIOUS

\* An event that is none of reasoning is put on the wire as it is.
LEMMA PlainIs == ASSUME NEW e \in Events PROVE Plain(e) \in Seq(Wires)
<1>1. e.id \in Nat /\ e.text \in Seq(Nat) /\ None \in Nat
  BY DEF Events, None
<1>2. \A type \in WireTypes, id \in Nat : <<Wire(type, id)>> \in Seq(Wires)
  <2> SUFFICES ASSUME NEW type \in WireTypes, NEW id \in Nat PROVE <<Wire(type, id)>> \in Seq(Wires)
    OBVIOUS
  <2>1. Wire(type, id) \in Wires
    BY WireIs
  <2> QED BY <2>1
<1>3. \A a, b \in WireTypes, id \in Nat : <<Wire(a, id), Wire(b, id)>> \in Seq(Wires)
  <2> SUFFICES ASSUME NEW a \in WireTypes, NEW b \in WireTypes, NEW id \in Nat
               PROVE <<Wire(a, id), Wire(b, id)>> \in Seq(Wires)
    OBVIOUS
  <2>1. Wire(a, id) \in Wires /\ Wire(b, id) \in Wires
    BY WireIs
  <2> QED BY <2>1
<1>4. /\ "reasoning_start" \in WireTypes /\ "reasoning_message_start" \in WireTypes
      /\ "reasoning_content" \in WireTypes /\ "reasoning_message_end" \in WireTypes
      /\ "reasoning_end" \in WireTypes /\ "text_start" \in WireTypes
      /\ "text_content" \in WireTypes /\ "text_end" \in WireTypes /\ "tool_call" \in WireTypes
      /\ "tool_output" \in WireTypes /\ "tool_result" \in WireTypes
      /\ "run_finished" \in WireTypes /\ "custom" \in WireTypes
  BY DEF WireTypes
<1>5. /\ WireText("reasoning_content", e.id, e.text) \in Seq(Wires)
      /\ WireText("text_content", e.id, e.text) \in Seq(Wires)
  BY <1>1, <1>4, WireIs
<1> HIDE DEF WireTypes
<1>6. CASE e.type \in {"reasoning_start", "reasoning_end"}
  <2>1. \/ Plain(e) = <<Wire("reasoning_start", e.id), Wire("reasoning_message_start", e.id)>>
        \/ Plain(e) = <<Wire("reasoning_message_end", e.id), Wire("reasoning_end", e.id)>>
    BY <1>6 DEF Plain
  <2> QED BY <1>1, <1>3, <1>4, <2>1
<1>7. CASE e.type \in {"reasoning_delta", "delta"}
  <2>1. \/ Plain(e) = WireText("reasoning_content", e.id, e.text)
        \/ Plain(e) = WireText("text_content", e.id, e.text)
    BY <1>7 DEF Plain
  <2> QED BY <1>5, <2>1
<1>8. CASE e.type \in {"message_start", "message_end", "tool_start", "tool_output", "tool_result"}
  <2>1. \E type \in {"text_start", "text_end", "tool_call", "tool_output", "tool_result"} :
          Plain(e) = <<Wire(type, e.id)>>
    BY <1>8 DEF Plain
  <2> QED BY <1>1, <1>2, <1>4, <2>1
<1>9. CASE e.type \notin {"reasoning_start", "reasoning_end", "reasoning_delta", "delta", "message_start",
                          "message_end", "tool_start", "tool_output", "tool_result"}
  <2>1. \E type \in {"run_finished", "custom"} : Plain(e) = <<Wire(type, None)>>
    BY <1>9 DEF Plain
  <2> QED BY <1>1, <1>2, <1>4, <2>1
<1> QED BY <1>6, <1>7, <1>8, <1>9

\* What closes the reasoning are events of the wire.
LEMMA CloseIs == ASSUME NEW t \in Translators PROVE CloseReasoning(t) \in Seq(Wires)
<1>1. t.inner \in Nat /\ t.outer \in Nat
  BY DEF Translators
<1>2. "reasoning_message_end" \in WireTypes /\ "reasoning_end" \in WireTypes
  BY DEF WireTypes
<1> DEFINE x == Wire("reasoning_message_end", t.inner)
           y == Wire("reasoning_end", t.outer)
<1>3. x \in Wires /\ y \in Wires
  BY <1>1, <1>2, WireIs
<1>4. CloseReasoning(t) = IF t.outer = None THEN <<>>
                          ELSE (IF t.inner = None THEN <<>> ELSE <<x>>) \o <<y>>
  BY DEF CloseReasoning
<1> HIDE DEF x, y
<1>5. <<>> \in Seq(Wires) /\ <<x>> \in Seq(Wires) /\ <<y>> \in Seq(Wires)
  BY <1>3
<1>6. <<>> \o <<y>> \in Seq(Wires) /\ <<x>> \o <<y>> \in Seq(Wires)
  BY <1>5, SeqBoth
<1> QED BY <1>4, <1>5, <1>6

\* What a snapshot of the thinking comes to are events of the wire.
LEMMA SnapshotIs ==
  ASSUME NEW t \in Translators, NEW e \in Events
  PROVE  SnapshotWire(t, e) \in Seq(Wires)
<1>1. /\ t.inner \in Nat /\ t.outer \in Nat /\ t.detail \in Seq(Nat)
      /\ e.id \in Nat /\ e.text \in Seq(Nat)
  BY DEF Translators, Events
<1>2. /\ "reasoning_message_end" \in WireTypes /\ "reasoning_end" \in WireTypes
      /\ "reasoning_start" \in WireTypes /\ "reasoning_message_start" \in WireTypes
      /\ "reasoning_content" \in WireTypes
  BY DEF WireTypes
<1> DEFINE id == IF t.outer = None THEN e.id ELSE t.outer
           tail == SubSeq(e.text, Len(t.detail) + 1, Len(e.text))
           a == Wire("reasoning_start", e.id)
           b == Wire("reasoning_message_end", e.id)
           c == Wire("reasoning_message_start", e.id)
           d == Wire("reasoning_end", id)
           f == Wire("reasoning_message_end", t.inner)
           g == WireText("reasoning_content", e.id, tail)
           h == WireText("reasoning_content", e.id, e.text)
<1>3. id \in Nat /\ tail \in Seq(Nat)
  BY <1>1
<1> HIDE DEF id, tail
<1>4. a \in Wires /\ b \in Wires /\ c \in Wires /\ d \in Wires /\ f \in Wires
  BY <1>1, <1>2, <1>3, WireIs
<1>5. g \in Seq(Wires) /\ h \in Seq(Wires)
  BY <1>1, <1>2, <1>3, WireIs
<1> DEFINE p == IF t.outer = None THEN <<a>> ELSE <<>>
           gr == IF IsPrefix(t.detail, e.text) THEN g ELSE <<b, c>> \o h
           en == (IF t.inner = None THEN <<>> ELSE <<f>>) \o <<c>> \o h
           r == IF t.inner = e.id THEN gr ELSE en
           s == IF e.active THEN <<>> ELSE <<b, d>>
<1>6. SnapshotWire(t, e) = IF Late(t, e) THEN <<>> ELSE (p \o r) \o s
  BY DEF SnapshotWire, Grown, Entered, id, tail
<1> HIDE DEF a, b, c, d, f, g, h
<1>7. /\ <<>> \in Seq(Wires) /\ <<a>> \in Seq(Wires) /\ <<b, c>> \in Seq(Wires)
      /\ <<b, d>> \in Seq(Wires) /\ <<f>> \in Seq(Wires) /\ <<c>> \in Seq(Wires)
  BY <1>4
<1>8. p \in Seq(Wires) /\ s \in Seq(Wires)
  BY <1>7
<1>9. gr \in Seq(Wires)
  <2>1. <<b, c>> \o h \in Seq(Wires)
    BY <1>5, <1>7, SeqBoth
  <2> QED BY <1>5, <2>1
<1>10. en \in Seq(Wires)
  <2>1. (IF t.inner = None THEN <<>> ELSE <<f>>) \in Seq(Wires)
    BY <1>7
  <2>2. (IF t.inner = None THEN <<>> ELSE <<f>>) \o <<c>> \in Seq(Wires)
    BY <1>7, <2>1, SeqBoth
  <2> QED BY <1>5, <2>2, SeqBoth
<1>11. r \in Seq(Wires)
  <2> HIDE DEF gr, en
  <2> QED BY <1>9, <1>10
<1> HIDE DEF p, r, s
<1>12. (p \o r) \o s \in Seq(Wires)
  <2>1. p \o r \in Seq(Wires)
    BY <1>8, <1>11, SeqBoth
  <2> QED BY <1>8, <2>1, SeqBoth
<1> QED BY <1>6, <1>7, <1>12

\* Whatever the event and the state of the translator.
LEMMA WireOfIs ==
  ASSUME NEW t \in Translators, NEW e \in Events
  PROVE  WireOf(t, e) \in Seq(Wires)
<1>1. /\ CloseReasoning(t) \in Seq(Wires) /\ Plain(e) \in Seq(Wires)
      /\ SnapshotWire(t, e) \in Seq(Wires) /\ <<>> \in Seq(Wires)
  BY CloseIs, PlainIs, SnapshotIs
<1>2. Failed(t) \in Seq(Wires)
  <2>1. Wire("run_error", None) \in Wires
    BY WireIs DEF WireTypes, None
  <2>2. <<Wire("run_error", None)>> \in Seq(Wires)
    BY <2>1
  <2> QED BY <1>1, <2>2, SeqBoth DEF Failed
<1>3. (IF Boundary(e) THEN CloseReasoning(t) ELSE <<>>) \o Plain(e) \in Seq(Wires)
  <2>1. (IF Boundary(e) THEN CloseReasoning(t) ELSE <<>>) \in Seq(Wires)
    BY <1>1
  <2> QED BY <1>1, <2>1, SeqBoth
<1> QED BY <1>1, <1>2, <1>3 DEF WireOf

-----------------------------------------------------------------------------
(* The invariant.                                                          *)

Now == [agui |-> agui, client |-> client]
Blocks == [type : {"none", "text", "think", "over"}, pieces : Seq(Nat)]
Phases == {"idle", "opening", "reading", "blocked", "done", "failed"}
Live == {"opening", "reading", "blocked"}

StreamType ==
  /\ kind \in Kinds /\ phase \in Phases
  /\ stream \in Streams /\ stream.out = <<>>
  /\ queue \in Seq(Events) /\ agui \in Translators /\ client \in Clients
  /\ said \in Seq(Nat) /\ last \in Nat
  /\ block \in Blocks /\ (block.type \in {"text", "think"} <=> block.pieces # <<>>)

\* What the mapping state remembers of the provider.
Mirrors ==
  phase \in Live =>
    /\ Wrote(stream)
    /\ kind = "codex" => (stream.text # None <=> block.type = "text")
    /\ kind = "claude_code" => stream.textDelta = IF block.type = "text" THEN block.pieces ELSE <<>>
    /\ kind = "k_agent" => /\ running \subseteq DOMAIN stream.calls
                           /\ running # {} => stream.think = None /\ stream.text = None

Stopped(v, q, t) == \E u : Runs(v, q, u) /\ InStep(u) /\ u.client.text = t
Ended(v, q, t) == \E u : Runs(v, q, u) /\ u.client.text = t

\* The events that are queued can be delivered, and with them all is shown that was said.
Showing ==
  /\ phase # "idle" => client.run = "running"
  /\ phase \in Live => Reach(kind, Now, queue, stream, said)
  /\ phase = "failed" => Stopped(Now, queue, said)
  /\ phase = "done" => Ended(Now, queue, said)

StreamInv == StreamType /\ Mirrors /\ Showing

\* What the step puts on the wire is accepted.
Wellformed ==
  \A i \in DOMAIN wire' : Accepts(SeenAfter(client, SubSeq(wire', 1, i - 1)), wire'[i])

\* A step that sends nothing is well-formed.
LEMMA SilentStep == ASSUME wire' = <<>> PROVE Wellformed
BY DEF Wellformed

\* With nothing on its way out the queue is all there is.
LEMMA StreamsGiven ==
  ASSUME NEW m \in Streams, m.out = <<>>, NEW q \in Seq(Events), NEW k, NEW v, NEW t
  PROVE  /\ Reach(k, v, q, m, t) <=> \E u : Runs(v, q, u) /\ Stands(k, u, m) /\ u.client.text = t
         /\ Reach(k, v, q, m, t) => Stopped(v, q, t)
         /\ Over(v, q, m, t) <=> Ended(v, q, t)
<1>1. q \o m.out = q
  OBVIOUS
<1> QED BY <1>1 DEF Reach, Over, Stopped, Ended, Stands

\* Every phase but the idle one has its events, which can be delivered.
LEMMA Queued ==
  ASSUME StreamInv, phase # "idle"
  PROVE  Ended(Now, queue, said)
<1>1. CASE phase \in Live
  BY <1>1, StreamsGiven DEF StreamInv, StreamType, Showing, Stopped, Ended
<1>2. CASE phase = "failed"
  BY <1>2 DEF StreamInv, Showing, Stopped, Ended
<1>3. CASE phase = "done"
  BY <1>3 DEF StreamInv, Showing
<1> QED BY <1>1, <1>2, <1>3 DEF StreamInv, StreamType, Phases, Live

\* What the client and the translator are now is a view.
LEMMA NowIs ==
  ASSUME StreamType PROVE Now \in Views /\ Now.agui = agui /\ Now.client = client
BY DEF StreamType, Now, Views

\* The runner takes a message.
LEMMA TakenIs ==
  ASSUME StreamType, NEW n \in Streams, Take(n)
  PROVE  /\ stream' \in Streams /\ stream'.out = <<>>
         /\ stream'.text = n.text /\ stream'.think = n.think /\ stream'.calls = n.calls
         /\ stream'.fresh = n.fresh /\ stream'.wrote = n.wrote /\ stream'.textDelta = n.textDelta
         /\ queue' = queue \o n.out /\ queue' \in Seq(Events)
         /\ agui' = agui /\ client' = client /\ Now' = Now /\ kind' = kind /\ wire' = <<>>
<1>1. <<>> \in Seq(Events) /\ n.out \in Seq(Events) /\ queue \in Seq(Events)
  BY DEF Streams, StreamType
<1>2. stream' = [n EXCEPT !.out = <<>>] /\ queue' = queue \o n.out
      /\ agui' = agui /\ client' = client /\ kind' = kind /\ wire' = <<>>
  BY DEF Take, output
<1>3. stream' \in Streams
  BY <1>1, <1>2 DEF Streams
<1>4. stream'.out = <<>> /\ stream'.text = n.text /\ stream'.think = n.think
      /\ stream'.calls = n.calls /\ stream'.fresh = n.fresh /\ stream'.textDelta = n.textDelta
  BY <1>2 DEF Streams
<1>5. stream'.wrote = n.wrote
  BY <1>2 DEF Streams
<1>6. queue' \in Seq(Events)
  BY <1>1, <1>2, SeqBoth
<1>7. Now' = Now
  BY <1>2 DEF Now
<1> QED BY <1>2, <1>3, <1>4, <1>5, <1>6, <1>7

\* A message that is taken is queued, and the run goes on.
LEMMA TakeReaches ==
  ASSUME StreamType, NEW n, NEW t, Reach(kind, Now, queue, n, t), Take(n)
  PROVE  /\ Reach(kind', Now', queue', stream', t)
         /\ Stopped(Now', queue', t)
<1>1. n \in Streams
  BY DEF Reach
<1>2. PICK u : Runs(Now, queue \o n.out, u) /\ Stands(kind, u, n) /\ u.client.text = t
  BY DEF Reach
<1>3. Stands(kind, u, stream')
  BY <1>1, <1>2, TakenIs DEF Stands
<1>4. Runs(Now, queue', u)
  BY <1>1, <1>2, TakenIs
<1>5. /\ stream' \in Streams /\ stream'.out = <<>> /\ queue' \in Seq(Events)
      /\ kind' = kind /\ Now' = Now
  BY <1>1, TakenIs
<1> DEFINE s == stream'
           q == queue'
<1>6. Runs(Now, q, u) /\ Stands(kind, u, s) /\ u.client.text = t
  BY <1>2, <1>3, <1>4
<1>7. s \in Streams /\ s.out = <<>> /\ q \in Seq(Events)
  BY <1>5
<1> HIDE DEF s, q
<1>8. Reach(kind, Now, q, s, t) /\ Stopped(Now, q, t)
  BY <1>6, <1>7, StreamsGiven
<1> QED BY <1>5, <1>8 DEF s, q

\* A last message that is taken is queued.
LEMMA TakeOver ==
  ASSUME StreamType, NEW n, NEW t, Over(Now, queue, n, t), Take(n)
  PROVE  Ended(Now', queue', t)
<1>1. n \in Streams
  BY DEF Over
<1>2. PICK u : Runs(Now, queue \o n.out, u) /\ u.client.text = t
  BY DEF Over
<1>3. queue' = queue \o n.out /\ Now' = Now
  BY <1>1, TakenIs
<1> QED BY <1>2, <1>3 DEF Ended

-----------------------------------------------------------------------------
(* The broker, the wire and the calls of the Access Layer.                 *)

\* Where a run starts.
LEMMA NewIs ==
  /\ NewStream \in Streams /\ NewStream.out = <<>> /\ NewStream.text = None
  /\ NewStream.think = None /\ DOMAIN NewStream.calls = {} /\ NewStream.textDelta = <<>>
  /\ Fresh \in Clients /\ NoReasoning \in Translators /\ NoBlock \in Blocks
<1>1. <<>> \in Seq(Nat) /\ <<>> \in Seq(Events) /\ None \in Nat /\ 1 \in Nat \ {0}
  BY DEF None
<1>2. <<>> \in UNION {[S -> Nat] : S \in SUBSET Items} /\ DOMAIN <<>> = {}
  <2>1. DOMAIN <<>> = {}
    OBVIOUS
  <2>2. <<>> \in [{} -> Nat]
    BY <2>1
  <2>3. [{} -> Nat] \in {[S -> Nat] : S \in SUBSET Items}
    OBVIOUS
  <2> QED BY <2>1, <2>2, <2>3
<1>3. NewStream \in Streams
  BY <1>1, <1>2 DEF NewStream, Streams
<1>4. Fresh \in Clients
  BY <1>1 DEF Fresh, Clients
<1>5. NoReasoning \in Translators /\ NoBlock \in Blocks
  BY <1>1 DEF NoReasoning, Translators, NoBlock, Blocks
<1> QED BY <1>2, <1>3, <1>4, <1>5 DEF NewStream

\* At first nothing runs.
LEMMA InitStreamInv == Init => StreamInv
<1> SUFFICES ASSUME Init PROVE StreamInv
  OBVIOUS
<1>1. phase = "idle"
  BY DEF Init
<1>2. Mirrors /\ Showing
  BY <1>1 DEF Mirrors, Showing, Live
<1>3. <<>> \in Seq(Nat) /\ <<>> \in Seq(Events) /\ 0 \in Nat
  OBVIOUS
<1>4. StreamType
  BY <1>3, NewIs DEF Init, StreamType, Phases, NoBlock
<1> QED BY <1>2, <1>4 DEF StreamInv

\* A run begins with nothing open, queued or said.
LEMMA BeginStreams ==
  ASSUME StreamInv, NEW a, Begin(a)
  PROVE  StreamInv' /\ Wellformed
<1>1. /\ phase' = "opening" /\ queue' = <<>> /\ stream' = NewStream /\ agui' = NoReasoning
      /\ wire' = <<>> /\ client' = Fresh /\ block' = NoBlock /\ running' = {}
      /\ said' = <<>> /\ last' = 0
  BY DEF Begin
<1>2. kind' \in Kinds
  BY DEF Begin, StreamInv, StreamType
<1>3. <<>> \in Seq(Nat) /\ <<>> \in Seq(Events) /\ 0 \in Nat
  OBVIOUS
<1>4. StreamType'
  BY <1>1, <1>2, <1>3, NewIs DEF StreamType, Phases, NoBlock
<1>5. Mirrors'
  BY <1>1, NewIs DEF Mirrors, Wrote, NoBlock
<1>6. Showing'
  <2> DEFINE u == [agui |-> NoReasoning, client |-> Fresh]
  <2>1. Now' = u
    BY <1>1 DEF Now
  <2>2. u \in Views /\ u.agui = NoReasoning /\ u.client = Fresh
    BY NewIs DEF Views
  <2> HIDE DEF u
  <2>3. Runs(u, <<>>, u)
    BY <2>2, RunsNone
  <2>4. /\ Fresh.run = "running" /\ Fresh.reasoning = None /\ Fresh.thought = None
        /\ Fresh.texts = {} /\ Fresh.calls = {} /\ Fresh.results = {} /\ Fresh.text = <<>>
    BY DEF Fresh
  <2>5. InStep(u)
    BY <2>2, <2>4 DEF InStep, NoReasoning
  <2>6. Stands(kind', u, NewStream)
    BY <2>2, <2>4, <2>5, NewIs DEF Stands
  <2>7. Reach(kind', u, <<>>, NewStream, <<>>)
    <3>1. Runs(u, <<>>, u) /\ Stands(kind', u, NewStream) /\ u.client.text = <<>>
      BY <2>2, <2>3, <2>4, <2>6
    <3> QED BY <1>3, <3>1, NewIs, StreamsGiven
  <2>8. Reach(kind', Now', queue', stream', said')
    BY <1>1, <2>1, <2>7
  <2> QED BY <1>1, <2>4, <2>8 DEF Showing
<1> QED BY <1>1, <1>4, <1>5, <1>6, SilentStep DEF StreamInv

\* The run is over, or nobody listens any more.
LEMMA GoneStreams ==
  ASSUME StreamInv, phase' = "idle", queue' \in Seq(Events), agui' \in Translators,
         client' \in Clients, UNCHANGED <<kind, stream, provider>>
  PROVE  StreamInv'
<1>1. Mirrors' /\ Showing'
  BY DEF Mirrors, Showing, Live
<1>2. StreamType'
  BY DEF StreamInv, StreamType, provider, Phases
<1> QED BY <1>1, <1>2 DEF StreamInv

\* The client is gone.
LEMMA LeaveStreams == ASSUME StreamInv, Leave PROVE StreamInv' /\ Wellformed
<1>1. /\ phase' = "idle" /\ queue' = <<>> /\ agui' = agui /\ client' = client
      /\ wire' = <<>> /\ UNCHANGED <<kind, stream, provider>>
  BY DEF Leave, output
<1>2. <<>> \in Seq(Events) /\ agui \in Translators /\ client \in Clients
  BY DEF StreamInv, StreamType
<1> QED BY <1>1, <1>2, GoneStreams, SilentStep

\* The runner is through and all its events were passed on.
LEMMA DrainedStreams == ASSUME StreamInv, Drained PROVE StreamInv' /\ Wellformed
<1>1. /\ phase' = "idle" /\ queue' = queue /\ agui' = agui /\ client' = client
      /\ wire' = <<>> /\ UNCHANGED <<kind, stream, provider>>
  BY DEF Drained, output
<1>2. queue \in Seq(Events) /\ agui \in Translators /\ client \in Clients
  BY DEF StreamInv, StreamType
<1> QED BY <1>1, <1>2, GoneStreams, SilentStep

\* What is put on the wire is seen as it was meant.
LEMMA PutFollows ==
  ASSUME StreamType, NEW ws \in Seq(Wires), NEW d, Follows(client, ws, d), Put(ws)
  PROVE  client' = d /\ Wellformed
<1>1. wire' = ws /\ client' = SeenAfter(client, ws)
  BY DEF Put
<1>2. /\ SeenAfter(client, ws) = d
      /\ \A i \in DOMAIN ws : Accepts(SeenAfter(client, SubSeq(ws, 1, i - 1)), ws[i])
  BY SeenFollows
<1> QED BY <1>1, <1>2 DEF Wellformed

\* A card ends the run with whatever it has open.
LEMMA ShowCardStreams == ASSUME StreamInv, ShowCard PROVE StreamInv' /\ Wellformed
<1> DEFINE a == Wire("custom", None)
           b == Wire("run_interrupted", None)
           c == Seen(client, a)
           d == Seen(c, b)
<1>1. /\ phase # "idle" /\ Put(CardWire) /\ phase' = "idle" /\ queue' = <<>>
      /\ UNCHANGED <<kind, stream, provider>> /\ agui' = agui
  BY DEF ShowCard
<1>2. client.run = "running" /\ client \in Clients /\ agui \in Translators /\ <<>> \in Seq(Events)
  BY <1>1 DEF StreamInv, Showing, StreamType
<1>3. a \in Wires /\ a.type = "custom" /\ b \in Wires /\ b.type = "run_interrupted"
  <2>1. "custom" \in WireTypes /\ "run_interrupted" \in WireTypes /\ None \in Nat
    BY DEF WireTypes, None
  <2> QED BY <2>1, WireIs
<1>4. CardWire = <<a, b>>
  BY DEF CardWire
<1> HIDE DEF a, b
<1>5. Accepts(client, a) /\ c = client
  BY <1>2, <1>3 DEF Accepts, Seen
<1>6. Accepts(c, b)
  BY <1>2, <1>3, <1>5 DEF Accepts
<1>7. d \in Clients
  BY <1>2, <1>3, <1>5, SeenIs
<1>8. Follows(client, <<a>>, c) /\ Follows(c, <<b>>, d)
  BY <1>5, <1>6, FollowsOne
<1> HIDE DEF c, d
<1>9. <<a>> \in Seq(Wires) /\ <<b>> \in Seq(Wires) /\ <<a, b>> \in Seq(Wires)
  BY <1>3
<1>10. Follows(client, <<a>> \o <<b>>, d)
  BY <1>8, <1>9, FollowsBoth
<1>11. <<a>> \o <<b>> = <<a, b>>
  BY <1>3, Pair
<1>12. Follows(client, CardWire, d) /\ CardWire \in Seq(Wires)
  BY <1>4, <1>9, <1>10, <1>11
<1>13. client' = d /\ Wellformed
  BY <1>1, <1>12, PutFollows DEF StreamInv
<1> QED BY <1>1, <1>2, <1>7, <1>13, GoneStreams

\* The error of the runner is shown behind its events.
LEMMA ReportStreams == ASSUME StreamInv, Report PROVE StreamInv' /\ Wellformed
<1>1. /\ phase = "failed" /\ queue = <<>> /\ phase' = "idle" /\ Put(Failed(agui))
      /\ agui' = Closed(agui) /\ queue' = queue /\ UNCHANGED <<kind, stream, provider>>
  BY DEF Report
<1>2. StreamType
  BY DEF StreamInv
<1>3. PICK u : Runs(Now, queue, u) /\ InStep(u)
  BY <1>1 DEF StreamInv, Showing, Stopped
<1>4. u = Now
  <2>1. PICK p : Through(Now, <<>>, u, p)
    BY <1>1, <1>3 DEF Runs
  <2>2. Len(<<>>) = 0
    OBVIOUS
  <2> QED BY <2>1, <2>2 DEF Through
<1>5. Now \in Views /\ Now.agui = agui /\ Now.client = client
  BY <1>2, NowIs
<1> DEFINE w == Now
<1>6. w \in Views /\ InStep(w) /\ w.agui = agui /\ w.client = client
  BY <1>3, <1>4, <1>5
<1> HIDE DEF w
<1>7. /\ Failed(agui) \in Seq(Wires)
      /\ \E c \in Clients : Follows(client, Failed(agui), c)
  <2>1. /\ Failed(w.agui) \in Seq(Wires)
        /\ \E c \in Clients : Follows(w.client, Failed(w.agui), c)
    BY <1>6, ErrorFollows
  <2> QED BY <1>6, <2>1
<1>8. PICK c \in Clients : Follows(client, Failed(agui), c)
  BY <1>7
<1>9. client' = c /\ Wellformed
  BY <1>1, <1>2, <1>7, <1>8, PutFollows
<1>10. queue \in Seq(Events) /\ Closed(agui) \in Translators
  BY <1>2, ClosedIs DEF StreamType
<1> QED BY <1>1, <1>9, <1>10, GoneStreams

\* The event that is passed on is the first of those that can be delivered.
LEMMA DeliverStreams == ASSUME StreamInv, Deliver PROVE StreamInv' /\ Wellformed
<1> DEFINE e == Head(queue)
           q == Tail(queue)
<1>1. /\ phase # "idle" /\ queue # <<>> /\ Put(WireOf(agui, e)) /\ agui' = StateAfter(agui, e)
      /\ UNCHANGED <<kind, stream, provider>>
  BY DEF Deliver
<1>2. StreamType
  BY DEF StreamInv
<1>3. queue \in Seq(Events) /\ e \in Events /\ q \in Seq(Events)
  BY <1>1, <1>2 DEF StreamType
<1>4. Now \in Views /\ Now.agui = agui /\ Now.client = client
  BY <1>2, NowIs
<1>5. WireOf(agui, e) \in Seq(Wires)
  BY <1>2, <1>3, WireOfIs DEF StreamType
<1> DEFINE v == Now
<1>6. v.agui = agui /\ v.client = client
  BY <1>4
<1> HIDE DEF e, q, v
<1>7. ASSUME NEW u, Runs(v, queue, u)
      PROVE  Now' \in Views /\ Runs(Now', q, u) /\ client' \in Clients /\ Wellformed
  <2>1. PICK w : w \in Views /\ StepTo(v, e, w) /\ Runs(w, q, u)
    BY <1>1, <1>3, <1>7, RunsHead DEF e, q
  <2>2. w.agui = StateAfter(agui, e) /\ Follows(client, WireOf(agui, e), w.client)
    BY <1>6, <2>1 DEF StepTo
  <2>3. client' = w.client /\ Wellformed
    BY <1>1, <1>2, <1>5, <2>2, PutFollows
  <2>4. w = [agui |-> w.agui, client |-> w.client] /\ w.client \in Clients
    BY <2>1 DEF Views
  <2>5. Now' = w
    BY <1>1, <2>2, <2>3, <2>4 DEF Now
  <2> QED BY <2>1, <2>3, <2>4, <2>5
<1>8. PICK u : Runs(v, queue, u)
  BY <1>1, Queued DEF Ended, v
<1>9. Now' \in Views /\ client' \in Clients /\ Wellformed
  BY <1>7, <1>8
<1>10. agui' \in Translators
  <2>1. Now'.agui = agui'
    BY DEF Now
  <2> QED BY <1>9, <2>1 DEF Views
<1>11. CASE client'.run = "over"
  <2>1. phase' = "idle" /\ queue' = <<>>
    BY <1>11 DEF Deliver
  <2>2. <<>> \in Seq(Events)
    OBVIOUS
  <2> QED BY <1>1, <1>9, <1>10, <2>1, <2>2, GoneStreams
<1>12. CASE client'.run # "over"
  <2>1. phase' = phase /\ queue' = q
    BY <1>12 DEF Deliver, q
  <2>2. client'.run = "running"
    BY <1>9, <1>12 DEF Clients
  <2>3. /\ kind' = kind /\ stream' = stream /\ said' = said /\ block' = block /\ last' = last
        /\ running' = running
    BY <1>1 DEF provider
  <2>4. StreamType'
    BY <1>2, <1>3, <1>9, <1>10, <2>1, <2>3 DEF StreamType
  <2>5. Mirrors'
    BY <2>1, <2>3 DEF StreamInv, Mirrors
  <2>6. stream \in Streams /\ stream.out = <<>>
    BY <1>2 DEF StreamType
  <2>7. phase \in Live => Reach(kind, Now', q, stream, said)
    <3> SUFFICES ASSUME phase \in Live PROVE Reach(kind, Now', q, stream, said)
      OBVIOUS
    <3>1. Reach(kind, v, queue, stream, said)
      BY DEF StreamInv, Showing, v
    <3>2. PICK x : Runs(v, queue, x) /\ Stands(kind, x, stream) /\ x.client.text = said
      BY <1>3, <2>6, <3>1, StreamsGiven
    <3>3. Runs(Now', q, x)
      BY <1>7, <3>2
    <3> DEFINE y == Now'
    <3> HIDE DEF y
    <3>4. Reach(kind, y, q, stream, said)
      BY <1>3, <2>6, <3>2, <3>3, StreamsGiven DEF y
    <3> QED BY <3>4 DEF y
  <2>8. phase = "failed" => Stopped(Now', q, said)
    BY <1>7 DEF StreamInv, Showing, Stopped, v
  <2>9. phase = "done" => Ended(Now', q, said)
    BY <1>7 DEF StreamInv, Showing, Ended, v
  <2>10. Showing'
    BY <2>1, <2>2, <2>3, <2>7, <2>8, <2>9 DEF Showing
  <2> QED BY <1>9, <2>4, <2>5, <2>10 DEF StreamInv
<1> QED BY <1>11, <1>12

\* The provider is started, or asks; what it said is as it was.
LEMMA StillStreams ==
  ASSUME StreamInv, phase \in Live, phase' \in Live \cup {"failed"},
         UNCHANGED <<kind, stream, queue, agui, client, block, running, said, last>>
  PROVE  StreamInv'
<1>1. StreamType'
  BY DEF StreamInv, StreamType, Live, Phases
<1>2. Mirrors'
  BY DEF StreamInv, Mirrors
<1>3. Now' = Now
  BY DEF Now
<1>4. Reach(kind, Now, queue, stream, said) /\ client.run = "running"
  BY DEF StreamInv, Showing, Live
<1>5. Stopped(Now, queue, said)
  BY <1>4, StreamsGiven DEF StreamInv, StreamType
<1>6. Showing'
  BY <1>3, <1>4, <1>5 DEF Showing, Live
<1> QED BY <1>1, <1>2, <1>6 DEF StreamInv

\* A provider starts or does not.
LEMMA OpenStreams == ASSUME StreamInv, Open PROVE StreamInv' /\ Wellformed
<1>1. /\ phase = "opening" /\ wire' = <<>>
      /\ UNCHANGED <<kind, stream, queue, agui, client, block, running, said, last>>
  BY DEF Open, broker, output, provider
<1>2. phase' \in {"reading", "failed"}
  BY DEF Open, Starts, AgentStart, ClaudeStart, CodexStart, Unprepared
<1> QED BY <1>1, <1>2, StillStreams, SilentStep DEF Live

\* A request shows nothing.
LEMMA RequestStreams ==
  ASSUME StreamInv, NEW r, Authorised(r) \/ Waved(r) \/ Asks(r)
  PROVE  StreamInv' /\ Wellformed
<1>1. /\ phase = "reading" /\ wire' = <<>>
      /\ UNCHANGED <<kind, stream, queue, agui, client, block, running, said, last>>
  BY DEF Authorised, Waved, Asks, Alive, broker, output
<1>2. phase' \in Live
  BY <1>1 DEF Authorised, Waved, Asks, Waiting, Live
<1> QED BY <1>1, <1>2, StillStreams, SilentStep DEF Live

-----------------------------------------------------------------------------
(* The provider.                                                           *)

\* What is behind a prefix is the rest.
LEMMA BehindIs ==
  ASSUME NEW a \in Seq(Nat), NEW b \in Seq(Nat)
  PROVE  Behind(a, a \o b) = b
<1> DEFINE la == Len(a)
           lb == Len(b)
           ab == a \o b
           p == SubSeq(a, 1, la)
           r == SubSeq(ab, 1, la)
           t == SubSeq(ab, la + 1, la + lb)
<1>1. /\ la \in Nat /\ lb \in Nat /\ Len(ab) = la + lb /\ ab \in Seq(Nat)
      /\ \A n \in 1..(la + lb) : ab[n] = IF n <= la THEN a[n] ELSE b[n - la]
  BY ConcatProperties
<1>2. Behind(a, ab) = IF la <= la + lb /\ p = r THEN t ELSE ab
  BY <1>1 DEF Behind, IsPrefix
<1> HIDE DEF la, lb, ab
<1>3. p \in Seq(Nat) /\ Len(p) = la /\ \A i \in 1..la : p[i] = a[i]
  BY <1>1 DEF la
<1>4. r \in Seq(Nat) /\ Len(r) = la /\ \A i \in 1..la : r[i] = a[i]
  BY <1>1
<1>5. p = r
  <2> HIDE DEF p, r
  <2> QED BY <1>3, <1>4, SeqEqual
<1>6. t \in Seq(Nat) /\ Len(t) = lb /\ \A i \in 1..lb : t[i] = b[i]
  <2>1. t \in Seq(Nat) /\ Len(t) = lb
    BY <1>1
  <2>2. ASSUME NEW i \in 1..lb PROVE t[i] = b[i]
    <3>1. t[i] = ab[la + i]
      <4>1. la \in Nat /\ lb \in Nat /\ Len(ab) = la + lb /\ ab \in Seq(Nat)
        BY <1>1
      <4> QED BY <4>1, SMTT(30)
    <3>2. PICK j : j = la + i
      OBVIOUS
    <3>3. j \in 1..(la + lb) /\ ~ (j <= la) /\ j - la = i
      <4>1. la \in Nat /\ lb \in Nat
        BY <1>1
      <4> QED BY <3>2, <4>1
    <3>4. ab[j] = b[j - la]
      BY <1>1, <3>3
    <3> QED BY <3>1, <3>2, <3>3, <3>4
  <2> QED BY <2>1, <2>2
<1>7. t = b
  <2> HIDE DEF t
  <2>1. Len(t) = Len(b) /\ \A i \in 1..Len(t) : t[i] = b[i]
    BY <1>6 DEF lb
  <2> QED BY <1>6, <2>1, SeqEqual
<1>8. la <= la + lb
  BY <1>1
<1> QED BY <1>2, <1>5, <1>7, <1>8 DEF ab

\* What is known while the runner reads.
LEMMA ReadingIs ==
  ASSUME StreamInv, phase = "reading"
  PROVE  /\ Reach(kind, Now, queue, stream, said) /\ client.run = "running"
         /\ StreamType /\ Wrote(stream) /\ stream \in Streams
         /\ kind = "codex" => (stream.text # None <=> block.type = "text")
         /\ kind = "claude_code" => stream.textDelta = IF block.type = "text" THEN block.pieces ELSE <<>>
         /\ kind = "k_agent" => /\ running \subseteq DOMAIN stream.calls
                                /\ running # {} => stream.think = None /\ stream.text = None
         /\ phase \in Live /\ phase # "idle" /\ kind \in {"k_agent", "codex", "claude_code"}
BY StreamAssumption DEF StreamInv, StreamType, Mirrors, Showing, Live

\* The mapping state after a message, and what it remembers of the provider.
Held(n) ==
  /\ Wrote(n)
  /\ kind = "codex" => (n.text # None <=> block'.type = "text")
  /\ kind = "claude_code" => n.textDelta = IF block'.type = "text" THEN block'.pieces ELSE <<>>
  /\ kind = "k_agent" => /\ running' \subseteq DOMAIN n.calls
                         /\ running' # {} => n.think = None /\ n.text = None

ProviderType ==
  /\ said \in Seq(Nat) /\ last \in Nat
  /\ block \in Blocks /\ (block.type \in {"text", "think"} <=> block.pieces # <<>>)

\* The types of what a message changes.
LEMMA TakenType ==
  ASSUME StreamType, NEW n \in Streams, Take(n), phase' \in Phases, ProviderType'
  PROVE  StreamType'
BY TakenIs DEF StreamType, ProviderType, Take, output

\* A message after which the run goes on, or the runner fails.
LEMMA GoesOn ==
  ASSUME StreamInv, phase = "reading", NEW n, Reach(kind, Now, queue, n, said'), Take(n),
         phase' \in {"reading", "failed"}, ProviderType', phase' = "reading" => Held(n)
  PROVE  StreamInv' /\ Wellformed
<1>1. n \in Streams /\ StreamType /\ client.run = "running"
  BY ReadingIs DEF Reach
<1>2. StreamType'
  BY <1>1, TakenType DEF Phases
<1>3. /\ Reach(kind', Now', queue', stream', said') /\ Stopped(Now', queue', said')
  BY <1>1, TakeReaches
<1>4. Mirrors'
  BY <1>1, TakenIs DEF Mirrors, Held, Wrote, Live
<1>5. client' = client /\ wire' = <<>>
  BY <1>1, TakenIs
<1>6. Showing'
  BY <1>1, <1>3, <1>5 DEF Showing, Live
<1> QED BY <1>2, <1>4, <1>5, <1>6, SilentStep DEF StreamInv

\* A message after which the runner is through.
LEMMA ComesToAnEnd ==
  ASSUME StreamInv, phase = "reading", NEW n, Over(Now, queue, n, said'), Take(n),
         phase' = "done", ProviderType'
  PROVE  StreamInv' /\ Wellformed
<1>1. n \in Streams /\ StreamType /\ client.run = "running"
  BY ReadingIs DEF Over
<1>2. StreamType'
  BY <1>1, TakenType DEF Phases
<1>3. Ended(Now', queue', said')
  BY <1>1, TakeOver
<1>4. Mirrors'
  BY DEF Mirrors, Live
<1>5. client' = client /\ wire' = <<>>
  BY <1>1, TakenIs
<1>6. Showing'
  BY <1>1, <1>3, <1>5 DEF Showing, Live
<1> QED BY <1>2, <1>4, <1>5, <1>6, SilentStep DEF StreamInv

\* A run that can go on can also end.
LEMMA ReachOver ==
  ASSUME NEW k, NEW v, NEW q, NEW m, NEW t, Reach(k, v, q, m, t) PROVE Over(v, q, m, t)
BY DEF Reach, Over

\* The pieces the provider says.
LEMMA SaysIs ==
  ASSUME StreamType, NEW type, NEW p \in Seq(Nat), Says(type, p)
  PROVE  /\ said' \in Seq(Nat) /\ last' \in Nat
         /\ said' = IF type = "text" THEN said \o p ELSE said
         /\ said \o <<>> = said
<1>1. said \in Seq(Nat) /\ last \in Nat /\ Len(p) \in Nat
  BY DEF StreamType
<1>2. said \o p \in Seq(Nat) /\ last + Len(p) \in Nat
  BY <1>1
<1> QED BY <1>1, <1>2 DEF Says

\* The next piece.
LEMMA PieceIs == ASSUME StreamType PROVE <<Piece>> \in Seq(Nat) /\ <<Piece>> # <<>>
<1>1. Piece \in Nat
  BY DEF Piece, StreamType
<1> QED BY <1>1

\* The same, by what is said then.
LEMMA CodexMessageGives ==
  ASSUME NEW k, k # "k_agent", NEW v, NEW q \in Seq(Events), NEW m, NEW t, Reach(k, v, q, m, t),
         NEW p \in Seq(Nat), NEW s, s = IF m.text = None THEN t \o p ELSE t
  PROVE  Reach(k, v, q, CodexMessage(m, p), s) /\ CodexMessage(m, p).text = None
<1>1. CASE m.text = None
  <2>1. s = t \o p
    BY <1>1
  <2> QED BY <1>1, <2>1, CodexMessageReaches
<1>2. CASE m.text # None
  <2>1. s = t
    BY <1>2
  <2> QED BY <1>2, <2>1, CodexMessageReaches
<1> QED BY <1>1, <1>2

\* An appended piece.
LEMMA OneMore ==
  ASSUME NEW s \in Seq(Nat), NEW x \in Nat
  PROVE  Append(s, x) \in Seq(Nat) /\ Append(s, x) # <<>> /\ Append(s, x) = s \o <<x>>
<1> DEFINE a == Append(s, x)
           c == s \o <<x>>
<1>1. Len(s) \in Nat /\ <<x>> \in Seq(Nat) /\ Len(<<x>>) = 1 /\ <<x>>[1] = x
  OBVIOUS
<1>2. /\ a \in Seq(Nat) /\ Len(a) = Len(s) + 1
      /\ \A i \in 1..Len(a) : a[i] = IF i <= Len(s) THEN s[i] ELSE x
  BY <1>1
<1>3. /\ c \in Seq(Nat) /\ Len(c) = Len(s) + 1
      /\ \A i \in 1..Len(c) : c[i] = IF i <= Len(s) THEN s[i] ELSE x
  <2>1. c \in Seq(Nat) /\ Len(c) = Len(s) + 1
    BY <1>1
  <2>2. ASSUME NEW i \in 1..Len(c) PROVE c[i] = IF i <= Len(s) THEN s[i] ELSE x
    <3>1. i <= Len(s) \/ i - Len(s) = 1
      BY <1>1, <2>1
    <3>2. c[i] = IF i <= Len(s) THEN s[i] ELSE <<x>>[i - Len(s)]
      BY <1>1, <2>1, ConcatProperties
    <3> QED BY <1>1, <3>1, <3>2
  <2> QED BY <2>1, <2>2
<1> HIDE DEF a, c
<1>4. a = c
  BY <1>2, <1>3, SeqEqual
<1>5. a # <<>>
  BY <1>1, <1>2
<1> QED BY <1>2, <1>4, <1>5 DEF a, c

\* A partial message of Codex or Claude.
LEMMA CliDeltaStreams ==
  ASSUME StreamInv, NEW type \in {"text", "think"}, CliDelta(type)
  PROVE  StreamInv' /\ Wellformed
<1> DEFINE p == <<Piece>>
           a == CodexTextDelta(stream, p)
           b == CodexThinkDelta(stream, p)
           c == ClaudeTextDelta(stream, p)
           d == ClaudeThinkDelta(stream, p)
           n == CASE kind = "codex" /\ type = "text" -> a
                  [] kind = "codex" /\ type = "think" -> b
                  [] kind = "claude_code" /\ type = "text" -> c
                  [] OTHER -> d
<1>1. /\ phase = "reading" /\ kind # "k_agent" /\ block.type \in {"none", type}
      /\ block' = [type |-> type, pieces |-> Append(block.pieces, Piece)]
      /\ Says(type, p) /\ Take(n) /\ phase' = phase
  BY DEF CliDelta, Alive, In, Going
<1>2. /\ Reach(kind, Now, queue, stream, said) /\ StreamType /\ Wrote(stream)
      /\ kind = "codex" => (stream.text # None <=> block.type = "text")
      /\ kind = "claude_code" => stream.textDelta = IF block.type = "text" THEN block.pieces ELSE <<>>
      /\ kind \in {"k_agent", "codex", "claude_code"} /\ queue \in Seq(Events)
      /\ block.type \in {"text", "think"} <=> block.pieces # <<>>
      /\ block.pieces \in Seq(Nat)
  BY <1>1, ReadingIs DEF StreamType, Blocks
<1>3. p \in Seq(Nat) /\ p # <<>> /\ Piece \in Nat
  BY <1>2, PieceIs DEF Piece, StreamType
<1>4. said' \in Seq(Nat) /\ last' \in Nat /\ said' = IF type = "text" THEN said \o p ELSE said
  BY <1>1, <1>2, <1>3, SaysIs
<1>5. /\ block' \in Blocks /\ block'.type = type /\ block'.pieces = block.pieces \o p
      /\ block'.pieces # <<>>
  <2>1. /\ Append(block.pieces, Piece) \in Seq(Nat) /\ Append(block.pieces, Piece) # <<>>
        /\ Append(block.pieces, Piece) = block.pieces \o p
    BY <1>2, <1>3, OneMore
  <2> QED BY <1>1, <2>1 DEF Blocks
<1>6. ProviderType'
  BY <1>4, <1>5 DEF ProviderType
<1> HIDE DEF p
<1>7. CASE kind = "codex" /\ type = "text"
  <2>1. n = a
    BY <1>7
  <2>2. Reach(kind, Now, queue, a, said \o p) /\ a.text # None /\ Wrote(a)
    BY <1>1, <1>2, <1>3, CodexTextDeltaReaches
  <2> HIDE DEF a, b, c, d, n
  <2>3. Reach(kind, Now, queue, n, said') /\ Held(n)
    BY <1>4, <1>5, <1>7, <2>1, <2>2 DEF Held
  <2> QED BY <1>1, <1>6, <2>3, GoesOn
<1>8. CASE kind = "codex" /\ type = "think"
  <2>1. n = b
    BY <1>8
  <2>2. Reach(kind, Now, queue, b, said) /\ b.text = stream.text /\ Keeps(stream, b)
    <3>1. LET y == Think(stream, p, FALSE)
          IN  Reach(kind, Now, queue, y, said) /\ y.text = stream.text /\ Keeps(stream, y)
      BY <1>1, <1>2, <1>3, ThinkOn
    <3> QED BY <3>1, Zenon DEF CodexThinkDelta
  <2> HIDE DEF a, b, c, d, n
  <2>3. Reach(kind, Now, queue, n, said') /\ Held(n)
    BY <1>1, <1>2, <1>4, <1>5, <1>8, <2>1, <2>2 DEF Held, Wrote, Keeps
  <2> QED BY <1>1, <1>6, <2>3, GoesOn
<1>9. CASE kind = "claude_code" /\ type = "text"
  <2>1. n = c
    BY <1>9
  <2>2. said' = said \o p /\ block'.pieces = stream.textDelta \o p
    BY <1>1, <1>2, <1>4, <1>5, <1>9
  <2>3. Reach(kind, Now, queue, c, said') /\ Wrote(c) /\ c.textDelta = block'.pieces
    <3>1. block'.pieces = Streamed(stream, p)
      BY <2>2 DEF Streamed
    <3>2. ASSUME NEW x, x = Streamed(stream, p)
          PROVE  Reach(kind, Now, queue, c, said \o p) /\ Wrote(c) /\ c.textDelta = x
      <4>1. /\ kind # "k_agent" /\ queue \in Seq(Events) /\ Reach(kind, Now, queue, stream, said)
            /\ p \in Seq(Nat) /\ p # <<>> /\ x = Streamed(stream, p)
        BY <1>1, <1>2, <1>3, <3>2
      <4>2. LET y == ClaudeTextDelta(stream, p)
            IN  Reach(kind, Now, queue, y, said \o p) /\ Wrote(y) /\ y.textDelta = x
        BY <4>1, ClaudeTextDeltaReaches, Zenon
      <4> QED BY <4>2
    <3> QED BY <2>2, <3>1, <3>2
  <2> HIDE DEF a, b, c, d, n
  <2>4. Reach(kind, Now, queue, n, said') /\ Held(n)
    BY <1>5, <1>9, <2>1, <2>3 DEF Held
  <2> QED BY <1>1, <1>6, <2>4, GoesOn
<1>10. CASE kind = "claude_code" /\ type = "think"
  <2>1. n = d
    BY <1>10
  <2>2. Reach(kind, Now, queue, d, said) /\ d.text = stream.text /\ Keeps(stream, d)
    BY <1>1, <1>2, <1>3, ClaudeThinkDeltaReaches
  <2> HIDE DEF a, b, c, d, n
  <2>3. Reach(kind, Now, queue, n, said') /\ Held(n)
    BY <1>1, <1>2, <1>4, <1>5, <1>10, <2>1, <2>2 DEF Held, Wrote, Keeps
  <2> QED BY <1>1, <1>6, <2>3, GoesOn
<1> QED BY <1>1, <1>2, <1>7, <1>8, <1>9, <1>10

\* A block of Codex or Claude that is complete.
LEMMA CliBlockStreams ==
  ASSUME StreamInv, NEW type \in {"text", "think"}, CliBlock(type)
  PROVE  StreamInv' /\ Wellformed
<1>1. /\ phase = "reading" /\ kind # "k_agent" /\ block.type \in {"none", type}
      /\ block' = NoBlock /\ phase' = phase
  BY DEF CliBlock, Alive, In, Going
<1>2. PICK more \in {<<>>, <<Piece>>} :
        LET whole == block.pieces \o more
        IN  /\ kind = "codex" => more = <<>> \/ block.pieces = <<>>
            /\ Says(type, more)
            /\ Take(CASE kind = "codex" /\ type = "text" -> CodexMessage(stream, whole)
                      [] kind = "codex" /\ type = "think" -> CodexReasoning(stream, whole)
                      [] kind = "claude_code" /\ type = "text" -> ClaudeText(stream, whole)
                      [] OTHER -> ClaudeThinking(stream, whole))
  BY DEF CliBlock
<1> DEFINE w == block.pieces \o more
           a == CodexMessage(stream, w)
           b == CodexReasoning(stream, w)
           c == ClaudeText(stream, w)
           d == ClaudeThinking(stream, w)
           n == CASE kind = "codex" /\ type = "text" -> a
                  [] kind = "codex" /\ type = "think" -> b
                  [] kind = "claude_code" /\ type = "text" -> c
                  [] OTHER -> d
<1>3. /\ Reach(kind, Now, queue, stream, said) /\ StreamType /\ Wrote(stream)
      /\ kind = "codex" => (stream.text # None <=> block.type = "text")
      /\ kind = "claude_code" => stream.textDelta = IF block.type = "text" THEN block.pieces ELSE <<>>
      /\ kind \in {"k_agent", "codex", "claude_code"} /\ queue \in Seq(Events)
      /\ block.type \in {"text", "think"} <=> block.pieces # <<>>
      /\ block.pieces \in Seq(Nat)
  BY <1>1, ReadingIs DEF StreamType, Blocks
<1>4. more \in Seq(Nat)
  <2>1. <<>> \in Seq(Nat) /\ <<Piece>> \in Seq(Nat)
    BY <1>3, PieceIs
  <2> QED BY <2>1
<1>5. w \in Seq(Nat)
  BY <1>3, <1>4
<1>6. /\ said' \in Seq(Nat) /\ last' \in Nat /\ said' = IF type = "text" THEN said \o more ELSE said
      /\ said \o <<>> = said
  BY <1>2, <1>3, <1>4, SaysIs
<1>7. ProviderType' /\ block'.type = "none"
  BY <1>1, <1>6, NewIs DEF ProviderType, NoBlock
<1>8. Take(n)
  BY <1>2
<1>9. CASE kind = "codex" /\ type = "text"
  <2>1. n = a
    BY <1>9
  <2>2. said' = IF stream.text = None THEN said \o w ELSE said
    <3>1. CASE stream.text = None
      <4>1. block.pieces = <<>>
        BY <1>1, <1>3, <1>9, <3>1
      <4>2. w = more
        BY <1>4, <4>1
      <4> QED BY <1>6, <1>9, <3>1, <4>2
    <3>2. CASE stream.text # None
      <4>1. block.pieces # <<>>
        BY <1>3, <1>9, <3>2
      <4>2. more = <<>>
        BY <1>2, <1>9, <4>1
      <4> QED BY <1>6, <1>9, <3>2, <4>2
    <3> QED BY <3>1, <3>2
  <2>3. Reach(kind, Now, queue, a, said') /\ a.text = None
    <3> HIDE DEF w
    <3> QED BY <1>1, <1>3, <1>5, <2>2, CodexMessageGives
  <2> HIDE DEF a, b, c, d, n
  <2>4. Reach(kind, Now, queue, n, said') /\ Held(n)
    BY <1>7, <1>9, <2>1, <2>3 DEF Held, Wrote
  <2> HIDE DEF w
  <2> QED BY <1>1, <1>7, <1>8, <2>4, GoesOn
<1>10. CASE kind = "codex" /\ type = "think"
  <2>1. n = b
    BY <1>10
  <2>2. Reach(kind, Now, queue, b, said) /\ b.text = stream.text /\ Keeps(stream, b)
    BY <1>1, <1>3, <1>5, CodexReasoningReaches
  <2> HIDE DEF a, b, c, d, n
  <2>3. Reach(kind, Now, queue, n, said') /\ Held(n)
    BY <1>1, <1>3, <1>6, <1>7, <1>10, <2>1, <2>2 DEF Held, Wrote, Keeps
  <2> QED BY <1>1, <1>7, <1>8, <2>3, GoesOn
<1>11. CASE kind = "claude_code" /\ type = "text"
  <2>1. n = c
    BY <1>11
  <2>2. stream.textDelta = block.pieces
    BY <1>1, <1>3, <1>11
  <2>3. Behind(stream.textDelta, w) = more
    BY <1>3, <1>4, <2>2, BehindIs
  <2>4. Reach(kind, Now, queue, c, said \o more) /\ Wrote(c) /\ c.textDelta = <<>>
    BY <1>1, <1>3, <1>4, <1>5, <2>3, ClaudeTextReaches
  <2> HIDE DEF a, b, c, d, n
  <2>5. Reach(kind, Now, queue, n, said') /\ Held(n)
    BY <1>6, <1>7, <1>11, <2>1, <2>4 DEF Held
  <2> QED BY <1>1, <1>7, <1>8, <2>5, GoesOn
<1>12. CASE kind = "claude_code" /\ type = "think"
  <2>1. n = d
    BY <1>12
  <2>2. Reach(kind, Now, queue, d, said) /\ d.text = stream.text /\ Keeps(stream, d)
    BY <1>1, <1>3, <1>5, ClaudeThinkingReaches
  <2> HIDE DEF a, b, c, d, n
  <2>3. Reach(kind, Now, queue, n, said') /\ Held(n)
    BY <1>1, <1>3, <1>6, <1>7, <1>12, <2>1, <2>2 DEF Held, Wrote, Keeps
  <2> QED BY <1>1, <1>7, <1>8, <2>3, GoesOn
<1> QED BY <1>1, <1>3, <1>9, <1>10, <1>11, <1>12

\* What is known of a provider that is read from.
LEMMA CliReading ==
  ASSUME StreamInv, Alive
  PROVE  /\ phase = "reading" /\ Reach(kind, Now, queue, stream, said) /\ queue \in Seq(Events)
         /\ StreamType /\ ProviderType /\ Wrote(stream) /\ stream \in Streams
         /\ kind \in {"k_agent", "codex", "claude_code"}
BY ReadingIs DEF Alive, StreamType, ProviderType

\* A provider that says nothing.
LEMMA SameProvider ==
  ASSUME ProviderType, block' = block, said' = said, last' = last PROVE ProviderType'
BY DEF ProviderType

\* The provider says nothing: the runner fails, or is through with what it has said.
LEMMA FailsStreams ==
  ASSUME StreamInv, Alive, Take(stream), phase' = "failed", block' = block, said' = said, last' = last
  PROVE  StreamInv' /\ Wellformed
<1>1. phase = "reading" /\ Reach(kind, Now, queue, stream, said') /\ ProviderType'
  BY CliReading, SameProvider
<1> QED BY <1>1, GoesOn

\* An item starts.
LEMMA ItemStartsStreams ==
  ASSUME StreamInv, NEW i \in Items, ItemStarts(i)
  PROVE  StreamInv' /\ Wellformed
<1> DEFINE n == Announce(CloseText(CloseThinking(stream)), i)
<1>1. /\ Alive /\ kind # "k_agent" /\ block = NoBlock /\ phase' = phase
      /\ block' = block /\ said' = said /\ last' = last
      /\ Take(IF kind = "codex" THEN CodexItemStarted(stream, i) ELSE ClaudeToolUse(stream, i))
  BY DEF ItemStarts, Going
<1>2. Take(n)
  BY <1>1 DEF CodexItemStarted, ClaudeToolUse
<1>3. /\ kind # "k_agent" /\ queue \in Seq(Events) /\ Reach(kind, Now, queue, stream, said)
      /\ i \in Items /\ ProviderType' /\ phase = "reading"
  BY <1>1, CliReading, SameProvider
<1>4. LET y == Announce(CloseText(CloseThinking(stream)), i)
      IN  Reach(kind, Now, queue, y, said) /\ y.text = None /\ y.textDelta = stream.textDelta
  BY <1>3, ItemStartedReaches
<1>5. Reach(kind, Now, queue, n, said) /\ n.text = None /\ n.textDelta = stream.textDelta
  BY <1>4
<1> HIDE DEF n
<1>6. block.type = "none" /\ (kind = "claude_code" => stream.textDelta = <<>>)
  BY <1>1, <1>3, ReadingIs DEF NoBlock
<1>7. Held(n)
  BY <1>1, <1>5, <1>6 DEF Held, Wrote
<1>8. Reach(kind, Now, queue, n, said')
  BY <1>1, <1>5
<1> QED BY <1>1, <1>2, <1>3, <1>7, <1>8, GoesOn

\* An item ends.
LEMMA ItemEndsStreams ==
  ASSUME StreamInv, NEW i, ItemEnds(i)
  PROVE  StreamInv' /\ Wellformed
<1>1. /\ Alive /\ kind # "k_agent" /\ (kind = "codex" => block = NoBlock) /\ phase' = phase
      /\ block' = block /\ said' = said /\ last' = last
      /\ Take(IF kind = "codex" THEN CodexItemCompleted(stream, i) ELSE ClaudeToolResult(stream, i))
  BY DEF ItemEnds, Going
<1>2. /\ queue \in Seq(Events) /\ Reach(kind, Now, queue, stream, said) /\ Wrote(stream)
      /\ ProviderType' /\ phase = "reading" /\ kind \in {"k_agent", "codex", "claude_code"}
  BY <1>1, CliReading, SameProvider
<1>3. CASE kind = "codex"
  <2> DEFINE n == CodexItemCompleted(stream, i)
  <2>1. LET y == CodexItemCompleted(stream, i)
        IN  Reach(kind, Now, queue, y, said) /\ y.text = None
    BY <1>1, <1>2, ItemCompletedReaches, Zenon
  <2>2. Reach(kind, Now, queue, n, said) /\ n.text = None /\ Take(n)
    BY <1>1, <1>3, <2>1
  <2> HIDE DEF n
  <2>3. block.type = "none"
    BY <1>1, <1>3 DEF NoBlock
  <2>4. Held(n) /\ Reach(kind, Now, queue, n, said')
    BY <1>1, <1>3, <2>2, <2>3 DEF Held, Wrote
  <2> QED BY <1>1, <1>2, <2>2, <2>4, GoesOn
<1>4. CASE kind = "claude_code"
  <2> DEFINE n == Conclude(stream, i)
  <2>1. Quiet(kind, stream)
    BY <1>1 DEF Quiet
  <2>2. LET y == Conclude(stream, i)
        IN  /\ Reach(kind, Now, queue, y, said) /\ y.text = stream.text /\ y.think = stream.think
            /\ y.wrote = stream.wrote /\ y.textDelta = stream.textDelta
    BY <1>2, <2>1, ConcludeReaches
  <2>3. /\ Reach(kind, Now, queue, n, said) /\ n.text = stream.text
        /\ n.wrote = stream.wrote /\ n.textDelta = stream.textDelta
    BY <2>2
  <2>4. Take(n)
    BY <1>1, <1>4 DEF ClaudeToolResult
  <2> HIDE DEF n
  <2>5. stream.textDelta = IF block'.type = "text" THEN block'.pieces ELSE <<>>
    BY <1>1, <1>2, <1>4, ReadingIs
  <2>6. Held(n) /\ Reach(kind, Now, queue, n, said')
    BY <1>1, <1>2, <1>4, <2>3, <2>5 DEF Held, Wrote
  <2> QED BY <1>1, <1>2, <2>4, <2>6, GoesOn
<1> QED BY <1>1, <1>2, <1>3, <1>4

\* A turn of Codex ends.
LEMMA TurnEndsStreams ==
  ASSUME StreamInv, NEW ok, TurnEnds(ok)
  PROVE  StreamInv' /\ Wellformed
<1>1. /\ Alive /\ kind = "codex" /\ Take(CodexTurn(stream, ok)) /\ phase' = "done"
      /\ block' = block /\ said' = said /\ last' = last
  BY DEF TurnEnds, Ends, provider
<1>2. /\ kind # "k_agent" /\ queue \in Seq(Events) /\ Reach(kind, Now, queue, stream, said)
      /\ ProviderType' /\ phase = "reading"
  BY <1>1, CliReading, SameProvider
<1>3. Over(Now, queue, CodexTurn(stream, ok), said)
  BY <1>2, CodexTurnOver, Zenon
<1>4. Over(Now, queue, CodexTurn(stream, ok), said')
  BY <1>1, <1>3
<1> QED BY <1>1, <1>2, <1>4, ComesToAnEnd

\* Codex gives an error.
LEMMA ErrorGivenStreams ==
  ASSUME StreamInv, ErrorGiven
  PROVE  StreamInv' /\ Wellformed
<1>1. /\ Alive /\ kind = "codex" /\ Take(CodexError(stream)) /\ phase' = "done"
      /\ block' = block /\ said' = said /\ last' = last
  BY DEF ErrorGiven, Ends, provider
<1>2. /\ kind # "k_agent" /\ queue \in Seq(Events) /\ Reach(kind, Now, queue, stream, said)
      /\ ProviderType' /\ phase = "reading"
  BY <1>1, CliReading, SameProvider DEF ErrorGiven
<1>3. Over(Now, queue, CodexError(stream), said)
  BY <1>2, CodexErrorOver, Zenon
<1>4. Over(Now, queue, CodexError(stream), said')
  BY <1>1, <1>3
<1> QED BY <1>1, <1>2, <1>4, ComesToAnEnd

\* Claude gives its result.
LEMMA ResultGivenStreams ==
  ASSUME StreamInv, NEW ok, ResultGiven(ok)
  PROVE  StreamInv' /\ Wellformed
<1>1. /\ Alive /\ kind = "claude_code" /\ block = NoBlock
      /\ block' = [NoBlock EXCEPT !.type = "over"] /\ phase' \in {phase, "failed"}
  BY DEF ResultGiven, Going, Ends
<1>3. /\ kind # "k_agent" /\ queue \in Seq(Events) /\ Reach(kind, Now, queue, stream, said)
      /\ StreamType /\ phase = "reading"
  BY <1>1, CliReading
<1>b. ASSUME NEW p \in Seq(Nat), Fits(stream, p)
      PROVE  LET y == ClaudeResult(stream, p)
             IN  Reach(kind, Now, queue, y, said \o p) /\ y.text = None /\ y.textDelta = stream.textDelta
  BY <1>3, <1>b, ClaudeResultReaches
<1>2. PICK answer \in {<<>>} \cup (IF stream.wrote \/ last = MaxPieces THEN {} ELSE {<<Piece>>}) :
        Says("text", answer) /\ Take(ClaudeResult(stream, answer))
  BY DEF ResultGiven
<1>4. answer \in Seq(Nat) /\ (stream.wrote => answer = <<>>)
  <2>1. <<>> \in Seq(Nat) /\ <<Piece>> \in Seq(Nat)
    BY <1>3, PieceIs
  <2>2. answer = <<>> \/ (~ stream.wrote /\ answer = <<Piece>>)
    BY <1>2
  <2> QED BY <2>1, <2>2
<1>a. answer \in Seq(Nat) /\ Fits(stream, answer)
  BY <1>4 DEF Fits
<1> DEFINE n == ClaudeResult(stream, answer)
<1>5. LET y == ClaudeResult(stream, answer)
      IN  Reach(kind, Now, queue, y, said \o answer) /\ y.text = None /\ y.textDelta = stream.textDelta
  BY <1>a, <1>b
<1>6. /\ Reach(kind, Now, queue, n, said \o answer) /\ n.text = None
      /\ n.textDelta = stream.textDelta /\ Take(n)
  BY <1>2, <1>5
<1> HIDE DEF n
<1>7. said' \in Seq(Nat) /\ last' \in Nat /\ said' = said \o answer
  BY <1>2, <1>3, <1>4, SaysIs
<1>8. block' \in Blocks /\ block'.type = "over" /\ block'.pieces = <<>>
  <2>1. block' = [type |-> "over", pieces |-> <<>>] /\ <<>> \in Seq(Nat)
    BY <1>1 DEF NoBlock
  <2> QED BY <2>1 DEF Blocks
<1>9. ProviderType'
  BY <1>7, <1>8 DEF ProviderType
<1>10. stream.textDelta = <<>>
  BY <1>1, <1>3, ReadingIs DEF NoBlock
<1>11. Held(n) /\ Reach(kind, Now, queue, n, said')
  BY <1>1, <1>6, <1>7, <1>8, <1>10 DEF Held, Wrote
<1> QED BY <1>1, <1>3, <1>6, <1>9, <1>11, GoesOn

\* The output of the provider ends.
LEMMA ExitsStreams ==
  ASSUME StreamInv, NEW code \in 0..1, Exits(code)
  PROVE  StreamInv' /\ Wellformed
<1> DEFINE p == <<Piece>>
<1>1. Alive /\ kind # "k_agent" /\ block' = block
  BY DEF Exits
<1>2. /\ queue \in Seq(Events) /\ Reach(kind, Now, queue, stream, said) /\ Wrote(stream)
      /\ StreamType /\ ProviderType /\ phase = "reading"
  BY <1>1, CliReading
<1>3. p \in Seq(Nat)
  BY <1>2, PieceIs
<1>4. CASE kind = "codex"
  BY <1>1, <1>4, FailsStreams DEF Exits, Ends
<1>5. CASE kind # "codex" /\ code = 0
  <2> DEFINE n == CliEnd(stream, 0, p)
  <2>1. Take(n) /\ phase' = "done"
    BY <1>5 DEF Exits, Ends
  <2>2. IF ~ stream.wrote THEN Says("text", p) ELSE said' = said /\ last' = last
    BY <1>5 DEF Exits
  <2>3. said' \in Seq(Nat) /\ last' \in Nat /\ said' = IF stream.wrote THEN said ELSE said \o p
    <3>1. CASE stream.wrote
      BY <1>2, <2>2, <3>1 DEF ProviderType
    <3>2. CASE ~ stream.wrote
      <4>1. Says("text", p)
        BY <2>2, <3>2
      <4> HIDE DEF p
      <4> QED BY <1>2, <1>3, <3>2, <4>1, SaysIs
    <3> QED BY <3>1, <3>2
  <2>4. ProviderType'
    BY <1>1, <1>2, <2>3 DEF ProviderType
  <2> HIDE DEF p
  <2>5. Over(Now, queue, CliEnd(stream, 0, p), IF stream.wrote THEN said ELSE said \o p)
    BY <1>1, <1>2, <1>3, CliEndOver, Zenon
  <2>6. Over(Now, queue, n, said')
    BY <2>3, <2>5
  <2> HIDE DEF n
  <2> QED BY <1>2, <2>1, <2>4, <2>6, ComesToAnEnd
<1>6. CASE kind # "codex" /\ code = 1
  <2> DEFINE n == Emit(CloseText(stream), <<Event("cli_session", None)>>)
  <2>1. Take(CliEnd(stream, 1, p)) /\ phase' = "failed" /\ said' = said /\ last' = last
    BY <1>6 DEF Exits, Ends
  <2>2. Take(n)
    BY <2>1 DEF CliEnd
  <2>3. LET y == Emit(CloseText(stream), <<Event("cli_session", None)>>)
        IN  Reach(kind, Now, queue, y, said) /\ y.text = None /\ Keeps(stream, y)
    BY <1>1, <1>2, CliEndedReaches, Zenon
  <2>4. Reach(kind, Now, queue, n, said')
    BY <2>1, <2>3
  <2> HIDE DEF n
  <2> QED BY <1>1, <1>2, <2>1, <2>2, <2>4, SameProvider, GoesOn
<1> QED BY <1>4, <1>5, <1>6

\* Codex asks what the runner does not know.
LEMMA UnsupportedStreams == ASSUME StreamInv, Unsupported PROVE StreamInv' /\ Wellformed
BY FailsStreams DEF Unsupported, Ends, provider

\* The loop fails.
LEMMA KFailsStreams == ASSUME StreamInv, KFails PROVE StreamInv' /\ Wellformed
BY FailsStreams DEF KFails, Ends, provider

-----------------------------------------------------------------------------
(* K Agent.                                                                *)

\* What is known of the agent's own runner.
LEMMA AgentReading ==
  ASSUME StreamInv, Alive, kind = "k_agent"
  PROVE  /\ phase = "reading" /\ Reach(kind, Now, queue, stream, said) /\ queue \in Seq(Events)
         /\ StreamType /\ ProviderType /\ Wrote(stream) /\ stream \in Streams
         /\ running \subseteq DOMAIN stream.calls
         /\ running # {} => stream.think = None /\ stream.text = None
BY ReadingIs, CliReading

\* For the agent's own runner the mapping state holds no more than this.
LEMMA AgentHolds ==
  ASSUME kind = "k_agent", NEW n, Wrote(n), running' \subseteq DOMAIN n.calls,
         running' # {} => n.think = None /\ n.text = None
  PROVE  Held(n)
BY DEF Held

\* With no item running there is nothing to hold.
LEMMA NothingHeld ==
  ASSUME kind = "k_agent", running' = {}, NEW n, Wrote(n) PROVE Held(n)
BY AgentHolds

\* The model reasons.
LEMMA KThinksStreams == ASSUME StreamInv, KThinks PROVE StreamInv' /\ Wellformed
<1> DEFINE p == <<Piece>>
           n == Reason(stream, p)
<1>1. Alive /\ kind = "k_agent" /\ block' = block /\ said' = said /\ running = {} /\ running' = running
  BY DEF KThinks
<1>2. /\ phase = "reading" /\ Reach(kind, Now, queue, stream, said) /\ queue \in Seq(Events)
      /\ StreamType /\ ProviderType
  BY <1>1, AgentReading
<1>3. p \in Seq(Nat) /\ Piece \in Nat
  BY <1>2, PieceIs DEF Piece, StreamType
<1>4. CASE stream.text # None
  <2>1. Take(stream) /\ phase' = "failed" /\ last' = last
    BY <1>4 DEF KThinks, Ends
  <2> QED BY <1>1, <2>1, FailsStreams
<1>5. CASE stream.text = None
  <2>1. Take(n) /\ last' = Piece /\ phase' = phase
    BY <1>5 DEF KThinks, Going
  <2>2. Reach(kind, Now, queue, n, said) /\ n.text = None
    <3>1. LET y == Reason(stream, p)
          IN  Reach(kind, Now, queue, y, said) /\ y.text = None /\ Keeps(stream, y)
      <4> HIDE DEF p
      <4>1. /\ kind = "k_agent" /\ queue \in Seq(Events) /\ Reach(kind, Now, queue, stream, said)
            /\ p \in Seq(Nat) /\ stream.text = None
        BY <1>1, <1>2, <1>3, <1>5
      <4> QED BY <4>1, ReasoningReaches
    <3> QED BY <3>1
  <2> HIDE DEF n
  <2>3. ProviderType'
    BY <1>1, <1>2, <1>3, <2>1 DEF ProviderType
  <2>4. Held(n)
    BY <1>1, <2>2, NothingHeld DEF Wrote
  <2>5. Reach(kind, Now, queue, n, said')
    BY <1>1, <2>2
  <2> QED BY <1>2, <2>1, <2>3, <2>4, <2>5, GoesOn
<1> QED BY <1>4, <1>5

\* Text of the model ends its reasoning.
LEMMA WritesReaches ==
  ASSUME NEW k, k = "k_agent", NEW v, NEW q \in Seq(Events), NEW m, NEW t, Reach(k, v, q, m, t),
         NEW p \in Seq(Nat), p # <<>>
  PROVE  LET n == AppendText(EndReasoning(m), p)
         IN  Reach(k, v, q, n, t \o p) /\ n.think = None /\ n.wrote
<1> DEFINE o == EndReasoning(m)
           n == AppendText(o, p)
<1>1. LET y == EndReasoning(m)
      IN  Reach(k, v, q, y, t) /\ y.text = m.text /\ y.think = None /\ Keeps(m, y)
  BY EndReasoningReaches
<1>2. Reach(k, v, q, o, t) /\ o.think = None
  BY <1>1
<1> HIDE DEF o
<1>3. p \in Seq(Nat) /\ Reach(k, v, q, o, t) /\ Quiet(k, o)
  BY <1>2 DEF Quiet
<1>4. Reach(k, v, q, n, t \o p) /\ n.think = o.think /\ n.text # None /\ n.wrote
  BY <1>3, AppendTextReaches
<1> QED BY <1>2, <1>4 DEF o

\* The model writes.
LEMMA KWritesStreams == ASSUME StreamInv, KWrites PROVE StreamInv' /\ Wellformed
<1> DEFINE p == <<Piece>>
           n == AppendText(EndReasoning(stream), p)
<1>1. /\ Alive /\ kind = "k_agent" /\ running = {} /\ running' = running /\ block' = block
      /\ Take(n) /\ Says("text", p) /\ phase' = phase
  BY DEF KWrites, Going
<1>2. /\ phase = "reading" /\ Reach(kind, Now, queue, stream, said) /\ queue \in Seq(Events)
      /\ StreamType /\ ProviderType
  BY <1>1, AgentReading
<1>3. p \in Seq(Nat) /\ p # <<>>
  BY <1>2, PieceIs
<1>4. said' \in Seq(Nat) /\ last' \in Nat /\ said' = said \o p
  BY <1>1, <1>2, <1>3, SaysIs
<1> HIDE DEF p
<1>5. LET y == AppendText(EndReasoning(stream), p)
      IN  Reach(kind, Now, queue, y, said \o p) /\ y.think = None /\ y.wrote
  BY <1>1, <1>2, <1>3, WritesReaches
<1>6. Reach(kind, Now, queue, n, said') /\ n.wrote
  BY <1>3, <1>4, <1>5
<1> HIDE DEF n
<1>7. ProviderType'
  BY <1>1, <1>2, <1>4 DEF ProviderType
<1>8. Held(n)
  BY <1>1, <1>6, NothingHeld DEF Wrote
<1> QED BY <1>1, <1>2, <1>6, <1>7, <1>8, GoesOn

\* A message of the model that is complete leaves nothing open.
LEMMA CompletesReaches ==
  ASSUME NEW k, k = "k_agent", NEW v, NEW q \in Seq(Events), NEW m, NEW t, Reach(k, v, q, m, t)
  PROVE  LET o == CloseText(EndReasoning(m))
         IN  Reach(k, v, q, o, t) /\ o.text = None /\ o.think = None
<1> DEFINE x == EndReasoning(m)
           o == CloseText(x)
<1>1. LET y == EndReasoning(m)
      IN  Reach(k, v, q, y, t) /\ y.text = m.text /\ y.think = None /\ Keeps(m, y)
  BY EndReasoningReaches
<1>2. Reach(k, v, q, x, t) /\ x.think = None
  BY <1>1
<1> HIDE DEF x
<1>3. Quiet(k, x)
  BY <1>2 DEF Quiet
<1>4. Reach(k, v, q, o, t) /\ o.text = None /\ o.think = x.think
  BY <1>2, <1>3, CloseTextReaches
<1> QED BY <1>2, <1>4 DEF x

\* The model's message is complete, with calls or without.
LEMMA KCompletesStreams == ASSUME StreamInv, KCompletes PROVE StreamInv' /\ Wellformed
<1> DEFINE o == CloseText(EndReasoning(stream))
           a == Event("context", None)
           b == Event("final", None)
<1>1. /\ Alive /\ kind = "k_agent" /\ running = {} /\ block' = block /\ said' = said /\ last' = last
  BY DEF KCompletes
<1>2. \/ Take(Emit(o, <<a, b>>)) /\ phase' = "done"
      \/ \E i \in Items : running' = {i} /\ Take(Announce(o, i)) /\ phase' = phase
  BY DEF KCompletes, Ends, Going
<1>3. /\ phase = "reading" /\ Reach(kind, Now, queue, stream, said) /\ queue \in Seq(Events)
      /\ StreamType /\ ProviderType'
  BY <1>1, AgentReading, SameProvider
<1>4. LET y == CloseText(EndReasoning(stream))
      IN  Reach(kind, Now, queue, y, said) /\ y.text = None /\ y.think = None
  BY <1>1, <1>3, CompletesReaches
<1>5. /\ Reach(kind, Now, queue, o, said) /\ o.text = None /\ o.think = None
  BY <1>4
<1> HIDE DEF o
<1>6. Quiet(kind, o) /\ o \in Streams
  BY <1>5 DEF Quiet, Reach
<1>7. CASE Take(Emit(o, <<a, b>>)) /\ phase' = "done"
  <2>1. a \in Events /\ b \in Events
    <3>1. "context" \in EventTypes /\ "final" \in EventTypes /\ None \in Nat
      BY DEF EventTypes, None
    <3> QED BY <3>1, EventsAre
  <2>2. a \in {Event("context", None), Event("cli_session", None)}
             \cup {Event("tool_output", o.calls[i]) : i \in DOMAIN o.calls}
    OBVIOUS
  <2>3. b \in {Event("final", None), Event("cli_error", None)}
    OBVIOUS
  <2> HIDE DEF a, b
  <2> DEFINE x == Emit(o, <<a>>)
             n == Emit(x, <<b>>)
  <2>4. n = Emit(o, <<a, b>>)
    BY <1>6, <2>1, EmitTwo
  <2>5. LET y == Emit(o, <<a>>)
        IN  Reach(kind, Now, queue, y, said) /\ y.text = o.text /\ y.think = o.think /\ Keeps(o, y)
    BY <1>3, <1>5, <1>6, <2>2, AsideReaches
  <2>6. Reach(kind, Now, queue, x, said) /\ x.text = None
    BY <1>5, <2>5
  <2> HIDE DEF x
  <2>7. Over(Now, queue, Emit(x, <<b>>), said)
    BY <1>3, <2>3, <2>6, FinalOver
  <2>8. Over(Now, queue, n, said') /\ Take(n)
    BY <1>1, <1>7, <2>4, <2>7
  <2> HIDE DEF n
  <2> QED BY <1>3, <1>7, <2>8, ComesToAnEnd
<1>8. CASE \E i \in Items : running' = {i} /\ Take(Announce(o, i)) /\ phase' = phase
  <2>1. PICK i \in Items : running' = {i} /\ Take(Announce(o, i)) /\ phase' = phase
    BY <1>8
  <2> DEFINE n == Announce(o, i)
  <2>2. LET y == Announce(o, i)
        IN  /\ Reach(kind, Now, queue, y, said) /\ y.text = o.text /\ y.think = o.think
            /\ y.wrote = o.wrote /\ y.textDelta = o.textDelta
            /\ Adds(o, y, i)
    BY <1>3, <1>5, <1>6, AnnounceReaches
  <2>3. /\ Reach(kind, Now, queue, n, said) /\ n.text = None /\ n.think = None /\ Adds(o, n, i)
    BY <1>5, <2>2
  <2> HIDE DEF n
  <2>4. running' \subseteq DOMAIN n.calls
    BY <2>1, <2>3 DEF Adds
  <2>5. Held(n)
    BY <1>1, <2>3, <2>4, AgentHolds DEF Wrote
  <2>6. Reach(kind, Now, queue, n, said') /\ Take(n)
    BY <1>1, <2>1, <2>3 DEF n
  <2> QED BY <1>3, <2>1, <2>5, <2>6, GoesOn
<1> QED BY <1>2, <1>7, <1>8

\* A tool has output.
LEMMA KOutputsStreams == ASSUME StreamInv, KOutputs PROVE StreamInv' /\ Wellformed
<1>1. /\ Alive /\ kind = "k_agent" /\ block' = block /\ said' = said /\ last' = last
      /\ running' = running /\ phase' = phase
  BY DEF KOutputs, Going
<1>2. PICK i \in running : Take(Emit(stream, <<Event("tool_output", stream.calls[i])>>))
  BY DEF KOutputs
<1>3. /\ phase = "reading" /\ Reach(kind, Now, queue, stream, said) /\ queue \in Seq(Events)
      /\ ProviderType' /\ Wrote(stream)
      /\ running \subseteq DOMAIN stream.calls
      /\ running # {} => stream.think = None /\ stream.text = None
  BY <1>1, AgentReading, SameProvider
<1>4. Quiet(kind, stream) /\ stream.think = None /\ stream.text = None
  BY <1>2, <1>3 DEF Quiet
<1> DEFINE e == Event("tool_output", stream.calls[i])
           n == Emit(stream, <<e>>)
<1>5. e \in {Event("context", None), Event("cli_session", None)}
            \cup {Event("tool_output", stream.calls[j]) : j \in DOMAIN stream.calls}
  BY <1>2, <1>3
<1> HIDE DEF e
<1>6. LET y == Emit(stream, <<e>>)
      IN  Reach(kind, Now, queue, y, said) /\ y.text = stream.text /\ y.think = stream.think
          /\ Keeps(stream, y)
  BY <1>3, <1>4, <1>5, AsideReaches
<1>7. /\ Reach(kind, Now, queue, n, said') /\ n.text = None /\ n.think = None /\ n.calls = stream.calls
  BY <1>1, <1>4, <1>6 DEF Keeps
<1>8. Take(n)
  BY <1>2 DEF e
<1> HIDE DEF n
<1>9. Held(n)
  BY <1>1, <1>3, <1>7, AgentHolds DEF Wrote
<1> QED BY <1>1, <1>3, <1>7, <1>8, <1>9, GoesOn

\* A tool has its result.
LEMMA KObservesStreams == ASSUME StreamInv, KObserves PROVE StreamInv' /\ Wellformed
<1>1. /\ Alive /\ kind = "k_agent" /\ block' = block /\ said' = said /\ last' = last
      /\ running' = {} /\ phase' = phase
  BY DEF KObserves, Going
<1>2. PICK i \in running : Take(Emit(Conclude(stream, i), <<Event("context", None)>>))
  BY DEF KObserves
<1>3. /\ phase = "reading" /\ Reach(kind, Now, queue, stream, said) /\ queue \in Seq(Events)
      /\ ProviderType'
      /\ running # {} => stream.think = None /\ stream.text = None
  BY <1>1, AgentReading, SameProvider
<1>4. Quiet(kind, stream) /\ stream.think = None /\ stream.text = None
  BY <1>2, <1>3 DEF Quiet
<1> DEFINE o == Conclude(stream, i)
           e == Event("context", None)
           n == Emit(o, <<e>>)
<1>a. queue \in Seq(Events) /\ Reach(kind, Now, queue, stream, said) /\ Quiet(kind, stream)
  BY <1>3, <1>4
<1>5. LET y == Conclude(stream, i)
      IN  /\ Reach(kind, Now, queue, y, said) /\ y.text = stream.text /\ y.think = stream.think
          /\ y.wrote = stream.wrote /\ y.textDelta = stream.textDelta
  BY <1>a, ConcludeReaches
<1>6. Reach(kind, Now, queue, o, said) /\ o.text = None /\ o.think = None
  BY <1>4, <1>5
<1> HIDE DEF o
<1>7. Quiet(kind, o)
  BY <1>6 DEF Quiet
<1>8. e \in {Event("context", None), Event("cli_session", None)}
            \cup {Event("tool_output", o.calls[j]) : j \in DOMAIN o.calls}
  OBVIOUS
<1> HIDE DEF e
<1>9. LET y == Emit(o, <<e>>)
      IN  Reach(kind, Now, queue, y, said) /\ y.text = o.text /\ y.think = o.think /\ Keeps(o, y)
  BY <1>3, <1>6, <1>7, <1>8, AsideReaches
<1>10. Reach(kind, Now, queue, n, said') /\ n.text = None
  BY <1>1, <1>6, <1>9
<1>11. Take(n)
  BY <1>2 DEF e, o
<1> HIDE DEF n
<1>12. Held(n)
  BY <1>1, <1>10, NothingHeld DEF Wrote
<1> QED BY <1>1, <1>3, <1>10, <1>11, <1>12, GoesOn

\* The loop has the last word.
LEMMA KGivesUpStreams == ASSUME StreamInv, KGivesUp PROVE StreamInv' /\ Wellformed
<1> DEFINE p == <<Piece>>
           o == AppendText(EndReasoning(stream), p)
           x == CloseText(o)
           n == Emit(x, <<Thinking(o.fresh, <<>>, FALSE), Event("final", None)>>)
<1>1. /\ Alive /\ kind = "k_agent" /\ block' = block
      /\ Take(n) /\ Says("text", p) /\ phase' = "done"
  BY DEF KGivesUp, Ends
<1>2. /\ phase = "reading" /\ Reach(kind, Now, queue, stream, said) /\ queue \in Seq(Events)
      /\ StreamType /\ ProviderType
  BY <1>1, AgentReading
<1>3. p \in Seq(Nat) /\ p # <<>>
  BY <1>2, PieceIs
<1>4. said' \in Seq(Nat) /\ last' \in Nat /\ said' = said \o p
  BY <1>1, <1>2, <1>3, SaysIs
<1> HIDE DEF p
<1>5. LET y == AppendText(EndReasoning(stream), p)
      IN  Reach(kind, Now, queue, y, said \o p) /\ y.think = None /\ y.wrote
  BY <1>1, <1>2, <1>3, WritesReaches
<1>6. Reach(kind, Now, queue, o, said') /\ o.think = None
  BY <1>4, <1>5
<1> HIDE DEF o
<1>7. Quiet(kind, o) /\ o.fresh \in Nat /\ o.fresh # None
  BY <1>6 DEF Quiet, Reach, Streams, None
<1>8. LET y == CloseText(o)
      IN  Reach(kind, Now, queue, y, said') /\ y.text = None /\ y.think = o.think /\ Keeps(o, y)
  BY <1>2, <1>6, <1>7, CloseTextReaches
<1>9. Reach(kind, Now, queue, x, said') /\ x.text = None
  BY <1>8
<1> HIDE DEF x
<1>10. Over(Now, queue, n, said')
  BY <1>2, <1>7, <1>9, RemarkOver
<1> HIDE DEF n
<1>11. ProviderType'
  BY <1>1, <1>2, <1>4 DEF ProviderType
<1> QED BY <1>1, <1>2, <1>10, <1>11, ComesToAnEnd

\* A summary ends the call.
LEMMA KCompactsStreams == ASSUME StreamInv, KCompacts PROVE StreamInv' /\ Wellformed
<1> DEFINE e == Event("context", None)
           n == Emit(stream, <<e>>)
<1>1. /\ Alive /\ kind = "k_agent" /\ stream.think = None /\ Take(n) /\ phase' = "done"
      /\ block' = block /\ said' = said /\ last' = last
  BY DEF KCompacts, Ends, provider
<1>2. /\ phase = "reading" /\ Reach(kind, Now, queue, stream, said) /\ queue \in Seq(Events)
      /\ ProviderType'
  BY <1>1, AgentReading, SameProvider
<1>3. Quiet(kind, stream)
  BY <1>1 DEF Quiet
<1>4. e \in {Event("context", None), Event("cli_session", None)}
            \cup {Event("tool_output", stream.calls[j]) : j \in DOMAIN stream.calls}
  OBVIOUS
<1> HIDE DEF e
<1>5. LET y == Emit(stream, <<e>>)
      IN  Reach(kind, Now, queue, y, said) /\ y.text = stream.text /\ y.think = stream.think
          /\ Keeps(stream, y)
  BY <1>2, <1>3, <1>4, AsideReaches
<1>6. Reach(kind, Now, queue, n, said')
  BY <1>1, <1>5
<1> HIDE DEF n
<1>7. Over(Now, queue, n, said')
  BY <1>6, ReachOver
<1> QED BY <1>1, <1>2, <1>7, ComesToAnEnd

\* Every step keeps the invariant and is well-formed on the wire.
LEMMA NextStreams == ASSUME StreamInv, Next PROVE StreamInv' /\ Wellformed
<1>1. CASE New \/ Answer
  <2>1. PICK a : Begin(a)
    BY <1>1 DEF New, Answer
  <2> QED BY <2>1, BeginStreams
<1>2. CASE Leave \/ Deliver \/ ShowCard \/ Drained \/ Report \/ Open
  BY <1>2, LeaveStreams, DeliverStreams, ShowCardStreams, DrainedStreams, ReportStreams, OpenStreams
<1>3. CASE \E type \in {"text", "think"} : CliDelta(type) \/ CliBlock(type)
  BY <1>3, CliDeltaStreams, CliBlockStreams
<1>4. CASE \E i \in Items : ItemStarts(i) \/ ItemEnds(i)
  BY <1>4, ItemStartsStreams, ItemEndsStreams
<1>5. CASE \E ok \in BOOLEAN : TurnEnds(ok) \/ ResultGiven(ok)
  BY <1>5, TurnEndsStreams, ResultGivenStreams
<1>6. CASE ErrorGiven \/ \E code \in 0..1 : Exits(code)
  BY <1>6, ErrorGivenStreams, ExitsStreams
<1>7. CASE \E r \in Requests : Authorised(r) \/ Waved(r) \/ Asks(r)
  BY <1>7, RequestStreams
<1>8. CASE Unsupported \/ KThinks \/ KWrites \/ KCompletes \/ KOutputs \/ KObserves
           \/ KGivesUp \/ KCompacts \/ KFails
  BY <1>8, UnsupportedStreams, KThinksStreams, KWritesStreams, KCompletesStreams, KOutputsStreams,
     KObservesStreams, KGivesUpStreams, KCompactsStreams, KFailsStreams
<1> QED BY <1>1, <1>2, <1>3, <1>4, <1>5, <1>6, <1>7, <1>8 DEF Next

\* Where nothing changes.
LEMMA SameStreams == ASSUME StreamInv, UNCHANGED vars PROVE StreamInv'
<1>1. UNCHANGED <<kind, phase, stream, queue, agui, client, block, running, said, last>>
  BY DEF vars, broker, output, provider
<1>2. StreamType' /\ Mirrors'
  BY <1>1 DEF StreamInv, StreamType, Mirrors
<1>3. Now' = Now
  BY <1>1 DEF Now
<1>4. Showing'
  BY <1>1, <1>3 DEF StreamInv, Showing
<1> QED BY <1>2, <1>4 DEF StreamInv

\* What can be delivered shows what was said.
LEMMA ShownIsSaid == StreamInv => EachPieceOnce
<1> SUFFICES ASSUME StreamInv, phase # "idle"
             PROVE  client.text \o PiecesIn(queue) = said
  BY DEF EachPieceOnce
<1>1. PICK u : Runs(Now, queue, u) /\ u.client.text = said
  BY Queued DEF Ended
<1>2. queue \in Seq(Events) /\ Now.client = client
  BY NowIs DEF StreamInv, StreamType
<1>3. Now.client.text \o PiecesIn(queue) = u.client.text
  BY <1>1, <1>2, RunsText
<1> QED BY <1>1, <1>2, <1>3

\* Whatever the provider says, and however it is streamed, repeated and cut off, the client
\* is shown each piece once and in order, once the events that are queued have been passed
\* on (_complete_claude_text, _ClaudeStreamMapping and the Codex mapping, agui.py).
THEOREM SaidOnce == Spec => []EachPieceOnce
<1>1. StreamInv /\ [Next]_vars => StreamInv'
  BY NextStreams, SameStreams
<1> QED BY <1>1, InitStreamInv, ShownIsSaid, PTL DEF Spec

\* Every run on the wire is well-formed: whichever provider, wherever it fails, stops at a
\* card or is left, what is sent is what the client can take next (agui.py).
THEOREM TheWireIsWellFormed == Spec => Protocol
<1>1. StreamInv /\ [Next]_vars => StreamInv'
  BY NextStreams, SameStreams
<1>2. StreamInv /\ [Next]_vars
      => [\A i \in DOMAIN wire' :
            Accepts(SeenAfter(client, SubSeq(wire', 1, i - 1)), wire'[i])]_vars
  BY NextStreams DEF Wellformed
<1> QED BY <1>1, <1>2, InitStreamInv, PTL DEF Spec, Protocol
=============================================================================
