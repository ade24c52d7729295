----------------------------- MODULE LoopsProofs -----------------------------
(***************************************************************************)
(* Proofs about the loops an investigation runs on and about the record of *)
(* what they narrate, for any lines, parts, calls and limits.              *)
(***************************************************************************)
EXTENDS Loops, FiniteSetTheorems, SequenceTheorems, WellFoundedInduction, TLAPS

-----------------------------------------------------------------------------
(* Walks                                                                    *)

\* A set of naturals that holds 0 and the successor of what it holds holds them
\* all: the least of what it lacks would have a predecessor that it holds.
LEMMA SetInduction ==
    ASSUME NEW S, 0 \in S, \A n \in Nat : n \in S => n + 1 \in S
    PROVE  Nat \subseteq S
<1> SUFFICES ASSUME NEW x \in Nat, x \notin S
             PROVE  FALSE
  OBVIOUS
<1> DEFINE Lacked == {0..y : y \in {z \in 0..x : z \notin S}}
           Smaller == StrictSubsetOrdering(0..x)
<1>1. Lacked # {} /\ Lacked \subseteq SUBSET (0..x)
  OBVIOUS
<1>2. IsWellFoundedOn(Smaller, SUBSET (0..x))
  <2>1. IsFiniteSet(0..x)
    BY FS_Interval
  <2> QED BY <2>1, FS_StrictSubsetOrderingWellFounded, FS_FiniteSubsetsOfFinite
<1>3. PICK T \in Lacked : \A U \in Lacked : <<U, T>> \notin Smaller
  <2> HIDE DEF Smaller, Lacked
  <2> QED BY <1>1, <1>2, WFMin
<1>4. PICK y \in 0..x : y \notin S /\ T = 0..y
  OBVIOUS
<1>5. y - 1 \in 0..x /\ y - 1 \notin S
  BY <1>4
<1>6. 0..(y - 1) \in Lacked
  BY <1>5
<1>7. <<0..(y - 1), T>> \in Smaller
  BY <1>4, <1>5 DEF StrictSubsetOrdering
<1> QED BY <1>3, <1>6, <1>7

\* The walk of a list, and that of the list with one step more, are functions.
Walk(steps, f, m) ==
    f = [n \in 0..m |-> IF n = 0 THEN Nothing ELSE Paired(f[n - 1], steps[n])]

LEMMA WalkExists == \A steps : \A m \in Nat : \E f : Walk(steps, f, m)
<1> SUFFICES ASSUME NEW steps PROVE \A m \in Nat : \E f : Walk(steps, f, m)
  OBVIOUS
<1> DEFINE S == {m \in Nat : \E f : Walk(steps, f, m)}
<1>1. 0 \in S
  <2>1. Walk(steps, [n \in 0..0 |-> Nothing], 0)
    BY DEF Walk
  <2> QED BY <2>1
<1>2. ASSUME NEW m \in Nat, m \in S PROVE m + 1 \in S
  <2>1. PICK f : Walk(steps, f, m)
    BY <1>2
  <2> DEFINE g == [n \in 0..(m + 1) |-> IF n = m + 1 THEN Paired(f[m], steps[m + 1]) ELSE f[n]]
  <2>2. \A n \in 0..(m + 1) : g[n] = IF n = 0 THEN Nothing ELSE Paired(g[n - 1], steps[n])
    <3> SUFFICES ASSUME NEW n \in 0..(m + 1)
                 PROVE  g[n] = IF n = 0 THEN Nothing ELSE Paired(g[n - 1], steps[n])
      OBVIOUS
    <3>1. \A k \in 0..m : f[k] = IF k = 0 THEN Nothing ELSE Paired(f[k - 1], steps[k])
      BY <2>1 DEF Walk
    <3>2. CASE n = m + 1
      BY <3>2
    <3>3. CASE n = 0
      BY <3>1, <3>3
    <3>4. CASE n \in 1..m
      <4>1. g[n] = f[n] /\ g[n - 1] = f[n - 1]
        BY <3>4
      <4> QED BY <3>1, <3>4, <4>1
    <3> QED BY <3>2, <3>3, <3>4
  <2>3. Walk(steps, g, m + 1)
    BY <2>2 DEF Walk
  <2> QED BY <2>3
<1> QED BY <1>1, <1>2, SetInduction

\* Two walks that agree on their steps agree on what they both reach.
LEMMA WalkUnique ==
    ASSUME NEW s, NEW t, NEW k \in Nat, NEW m \in Nat, NEW f, NEW g,
           Walk(s, f, k), Walk(t, g, m), k <= m, \A n \in 1..k : s[n] = t[n]
    PROVE  \A n \in 0..k : f[n] = g[n]
<1> DEFINE S == {n \in Nat : n <= k => f[n] = g[n]}
<1>1. 0 \in S
  BY DEF Walk
<1>2. ASSUME NEW n \in Nat, n \in S PROVE n + 1 \in S
  <2> SUFFICES ASSUME n + 1 <= k PROVE f[n + 1] = g[n + 1]
    OBVIOUS
  <2>1. f[n] = g[n] /\ s[n + 1] = t[n + 1] /\ n + 1 \in 0..k /\ n + 1 \in 0..m /\ n + 1 # 0
    BY <1>2
  <2>2. f[n + 1] = Paired(f[n], s[n + 1])
    BY <2>1 DEF Walk
  <2>3. g[n + 1] = Paired(g[n], t[n + 1])
    BY <2>1 DEF Walk
  <2> QED BY <2>1, <2>2, <2>3
<1>3. Nat \subseteq S
  <2> HIDE DEF S
  <2> QED BY <1>1, <1>2, SetInduction
<1> QED BY <1>3

LEMMA FoundWalk ==
    ASSUME NEW steps, Len(steps) \in Nat
    PROVE  \E f : Walk(steps, f, Len(steps)) /\ Found(steps) = f[Len(steps)]
<1> DEFINE f == CHOOSE g : Walk(steps, g, Len(steps))
<1>1. Walk(steps, f, Len(steps))
  BY WalkExists
<1>2. Found(steps) = f[Len(steps)]
  BY DEF Found, Walk
<1> QED BY <1>1, <1>2

\* What from_steps has found after one step more.
LEMMA FoundMore ==
    ASSUME NEW S, NEW steps \in Seq(S), NEW step \in S
    PROVE  Found(Append(steps, step)) = Paired(Found(steps), step)
<1> DEFINE k == Len(steps)
           more == Append(steps, step)
<1>0. k \in Nat /\ Len(more) = k + 1 /\ \A n \in 1..k : steps[n] = more[n]
  OBVIOUS
<1>1. PICK f : Walk(steps, f, k) /\ Found(steps) = f[k]
  BY <1>0, FoundWalk
<1>2. PICK g : Walk(more, g, k + 1) /\ Found(more) = g[k + 1]
  <2> HIDE DEF k, more
  <2> QED BY <1>0, FoundWalk
<1>3. f[k] = g[k]
  <2> HIDE DEF k, more
  <2>1. k + 1 \in Nat /\ k <= k + 1
    BY <1>0
  <2>2. \A n \in 0..k : f[n] = g[n]
    BY <1>0, <1>1, <1>2, <2>1, WalkUnique
  <2> QED BY <1>0, <2>2
<1>4. g[k + 1] = Paired(g[k], more[k + 1])
  <2> HIDE DEF more
  <2> QED BY <1>0, <1>2 DEF Walk
<1>5. more[k + 1] = step
  OBVIOUS
<1> QED BY <1>1, <1>2, <1>3, <1>4, <1>5

LEMMA FoundNone == Found(<<>>) = Nothing
<1>1. PICK f : Walk(<<>>, f, 0) /\ Found(<<>>) = f[0]
  BY FoundWalk
<1> QED BY <1>1 DEF Walk

\* The same of a list of pieces that are joined.
Followed(done, piece) == done \o piece

Chain(pieces, f, m) ==
    f = [n \in 0..m |-> IF n = 0 THEN <<>> ELSE Followed(f[n - 1], pieces[n])]

LEMMA ChainExists == \A pieces : \A m \in Nat : \E f : Chain(pieces, f, m)
<1> SUFFICES ASSUME NEW pieces PROVE \A m \in Nat : \E f : Chain(pieces, f, m)
  OBVIOUS
<1> DEFINE S == {m \in Nat : \E f : Chain(pieces, f, m)}
<1>1. 0 \in S
  <2>1. Chain(pieces, [n \in 0..0 |-> <<>>], 0)
    BY DEF Chain
  <2> QED BY <2>1
<1>2. ASSUME NEW m \in Nat, m \in S PROVE m + 1 \in S
  <2>1. PICK f : Chain(pieces, f, m)
    BY <1>2
  <2> DEFINE g == [n \in 0..(m + 1) |-> IF n = m + 1 THEN Followed(f[m], pieces[m + 1]) ELSE f[n]]
  <2>2. \A n \in 0..(m + 1) : g[n] = IF n = 0 THEN <<>> ELSE Followed(g[n - 1], pieces[n])
    <3> SUFFICES ASSUME NEW n \in 0..(m + 1)
                 PROVE  g[n] = IF n = 0 THEN <<>> ELSE Followed(g[n - 1], pieces[n])
      OBVIOUS
    <3>1. \A k \in 0..m : f[k] = IF k = 0 THEN <<>> ELSE Followed(f[k - 1], pieces[k])
      BY <2>1 DEF Chain
    <3>2. CASE n = m + 1
      BY <3>2
    <3>3. CASE n = 0
      BY <3>1, <3>3
    <3>4. CASE n \in 1..m
      <4>1. g[n] = f[n] /\ g[n - 1] = f[n - 1]
        BY <3>4
      <4> QED BY <3>1, <3>4, <4>1
    <3> QED BY <3>2, <3>3, <3>4
  <2>3. Chain(pieces, g, m + 1)
    BY <2>2 DEF Chain
  <2> QED BY <2>3
<1> QED BY <1>1, <1>2, SetInduction

LEMMA ChainUnique ==
    ASSUME NEW s, NEW t, NEW k \in Nat, NEW m \in Nat, NEW f, NEW g,
           Chain(s, f, k), Chain(t, g, m), k <= m, \A n \in 1..k : s[n] = t[n]
    PROVE  \A n \in 0..k : f[n] = g[n]
<1> DEFINE S == {n \in Nat : n <= k => f[n] = g[n]}
<1>1. 0 \in S
  BY DEF Chain
<1>2. ASSUME NEW n \in Nat, n \in S PROVE n + 1 \in S
  <2> SUFFICES ASSUME n + 1 <= k PROVE f[n + 1] = g[n + 1]
    OBVIOUS
  <2>1. f[n] = g[n] /\ s[n + 1] = t[n + 1] /\ n + 1 \in 0..k /\ n + 1 \in 0..m /\ n + 1 # 0
    BY <1>2
  <2>2. f[n + 1] = Followed(f[n], s[n + 1])
    BY <2>1 DEF Chain
  <2>3. g[n + 1] = Followed(g[n], t[n + 1])
    BY <2>1 DEF Chain
  <2> QED BY <2>1, <2>2, <2>3
<1>3. Nat \subseteq S
  <2> HIDE DEF S
  <2> QED BY <1>1, <1>2, SetInduction
<1> QED BY <1>3

LEMMA JoinedChain ==
    ASSUME NEW pieces, Len(pieces) \in Nat
    PROVE  \E f : Chain(pieces, f, Len(pieces)) /\ Joined(pieces) = f[Len(pieces)]
<1> DEFINE f == CHOOSE g : Chain(pieces, g, Len(pieces))
<1>1. Chain(pieces, f, Len(pieces))
  BY ChainExists
<1>2. Joined(pieces) = f[Len(pieces)]
  BY DEF Joined, Chain, Followed
<1> QED BY <1>1, <1>2

\* One piece more is joined at the end.
LEMMA JoinedMore ==
    ASSUME NEW S, NEW pieces \in Seq(S), NEW piece \in S
    PROVE  Joined(Append(pieces, piece)) = Joined(pieces) \o piece
<1> DEFINE k == Len(pieces)
           more == Append(pieces, piece)
<1>0. k \in Nat /\ Len(more) = k + 1 /\ \A n \in 1..k : pieces[n] = more[n]
  OBVIOUS
<1>1. PICK f : Chain(pieces, f, k) /\ Joined(pieces) = f[k]
  BY <1>0, JoinedChain
<1>2. PICK g : Chain(more, g, k + 1) /\ Joined(more) = g[k + 1]
  <2> HIDE DEF k, more
  <2> QED BY <1>0, JoinedChain
<1>3. f[k] = g[k]
  <2> HIDE DEF k, more
  <2>1. k + 1 \in Nat /\ k <= k + 1
    BY <1>0
  <2>2. \A n \in 0..k : f[n] = g[n]
    BY <1>0, <1>1, <1>2, <2>1, ChainUnique
  <2> QED BY <1>0, <2>2
<1>4. g[k + 1] = Followed(g[k], more[k + 1])
  <2> HIDE DEF more
  <2> QED BY <1>0, <1>2 DEF Chain
<1>5. more[k + 1] = piece
  OBVIOUS
<1> QED BY <1>1, <1>2, <1>3, <1>4, <1>5 DEF Followed

LEMMA JoinedNone == Joined(<<>>) = <<>>
<1>1. PICK f : Chain(<<>>, f, 0) /\ Joined(<<>>) = f[0]
  BY JoinedChain
<1> QED BY <1>1 DEF Chain

-----------------------------------------------------------------------------
(* Counts                                                                   *)

\* How many of the first n of a list are of these kinds.
UpTo(list, n, kinds) == Cardinality({i \in 1..n : list[i].kind \in kinds})

\* The loops count as the record does.
LEMMA LoopsCount ==
    ASSUME NEW list, NEW kinds
    PROVE  /\ Codex!Tally(list, kinds) = UpTo(list, Len(list), kinds)
           /\ Opencode!Tally(list, kinds) = UpTo(list, Len(list), kinds)
<1>1. \A S : Codex!Cardinality(S) = Cardinality(S)
  BY DEF Codex!Cardinality, Cardinality
<1>2. \A S : Opencode!Cardinality(S) = Cardinality(S)
  BY DEF Opencode!Cardinality, Cardinality
<1> QED BY <1>1, <1>2 DEF Codex!Tally, Opencode!Tally, UpTo

LEMMA UpToType ==
    ASSUME NEW list, NEW n \in Nat, NEW kinds
    PROVE  UpTo(list, n, kinds) \in Nat
<1>1. IsFiniteSet(1..n)
  BY FS_Interval
<1>2. {i \in 1..n : list[i].kind \in kinds} \in SUBSET (1..n)
  OBVIOUS
<1>3. IsFiniteSet({i \in 1..n : list[i].kind \in kinds})
  BY <1>1, <1>2, FS_Subset
<1> QED BY <1>3, FS_CardinalityType DEF UpTo

LEMMA UpToNone == \A list, kinds : UpTo(list, 0, kinds) = 0
<1> SUFFICES ASSUME NEW list, NEW kinds PROVE UpTo(list, 0, kinds) = 0
  OBVIOUS
<1>1. {i \in 1..0 : list[i].kind \in kinds} = {}
  OBVIOUS
<1> QED BY <1>1, FS_EmptySet DEF UpTo

LEMMA UpToNext ==
    ASSUME NEW list, NEW n \in Nat, NEW kinds
    PROVE  UpTo(list, n + 1, kinds) =
               UpTo(list, n, kinds) + (IF list[n + 1].kind \in kinds THEN 1 ELSE 0)
<1> DEFINE first == {i \in 1..n : list[i].kind \in kinds}
           next == {i \in 1..(n + 1) : list[i].kind \in kinds}
<1>1. IsFiniteSet(first) /\ n + 1 \notin first
  <2>1. IsFiniteSet(1..n) /\ first \in SUBSET (1..n)
    BY FS_Interval
  <2> QED BY <2>1, FS_Subset
<1>2. CASE list[n + 1].kind \in kinds
  <2>1. next = first \union {n + 1}
    BY <1>2
  <2>2. Cardinality(next) = Cardinality(first) + 1
    <3> HIDE DEF first, next
    <3> QED BY <1>1, <2>1, FS_AddElement
  <2> QED BY <1>2, <2>2 DEF UpTo
<1>3. CASE list[n + 1].kind \notin kinds
  <2>1. next = first /\ UpTo(list, n, kinds) \in Nat
    BY <1>3, UpToType
  <2>2. UpTo(list, n + 1, kinds) = UpTo(list, n, kinds)
    BY <2>1 DEF UpTo
  <2> HIDE DEF first, next
  <2> QED BY <1>3, <2>1, <2>2
<1> QED BY <1>2, <1>3

\* What is written later leaves the counts of what was written as they are.
LEMMA UpToKept ==
    ASSUME NEW S, NEW list \in Seq(S), NEW x \in S, NEW n \in 0..Len(list), NEW kinds
    PROVE  UpTo(Append(list, x), n, kinds) = UpTo(list, n, kinds)
<1>1. {i \in 1..n : Append(list, x)[i].kind \in kinds} = {i \in 1..n : list[i].kind \in kinds}
  OBVIOUS
<1> QED BY <1>1 DEF UpTo

-----------------------------------------------------------------------------
(* The record of calls without ids                                          *)

Steps == [kind : Kinds, of : Nat, id : Nat]
Entries == [of : Nat, output : Nat, status : {"pending", "completed", "error"}]
Results == {"output", "error"}

Told(steps, kinds, k) ==
    \E n \in 1..Len(steps) : steps[n].kind \in kinds /\ steps[n].of = k

LEMMA ToldMore ==
    ASSUME NEW steps \in Seq(Steps), NEW step \in Steps, NEW kinds, NEW k
    PROVE  Told(Append(steps, step), kinds, k) <=>
               Told(steps, kinds, k) \/ (step.kind \in kinds /\ step.of = k)
<1> DEFINE more == Append(steps, step)
<1>1. /\ Len(more) = Len(steps) + 1 /\ Len(steps) \in Nat
      /\ \A n \in 1..Len(steps) : more[n] = steps[n]
      /\ more[Len(steps) + 1] = step
  OBVIOUS
<1> HIDE DEF more
<1>2. \A n \in 1..Len(more) : n \in 1..Len(steps) \/ n = Len(steps) + 1
  BY <1>1
<1>3. 1..Len(steps) \subseteq 1..Len(more) /\ Len(steps) + 1 \in 1..Len(more)
  BY <1>1
<1>4. Told(more, kinds, k) <=>
          Told(steps, kinds, k) \/ (step.kind \in kinds /\ step.of = k)
  BY <1>1, <1>2, <1>3 DEF Told
<1> QED BY <1>4 DEF more

\* What the record is to say of a call, by what was narrated of it.
StatusOf(steps, k) ==
    IF Told(steps, {"error"}, k) THEN "error"
    ELSE IF Told(steps, {"output"}, k) THEN "completed" ELSE "pending"

\* The record of steps of which none has an id, about calls 1 to b, one at a time:
\* whatever waits for a result is call b, so that a result by position is its own.
\* An error of the loop may take its place; if none did, there is one entry a call,
\* of the status that was told.
Sound(steps, b) ==
    LET found == Found(steps) IN
    /\ b \in Nat /\ steps \in Seq(Steps)
    /\ \A n \in 1..Len(steps) : steps[n].of <= b
    /\ found.calls \in Seq(Entries)
    /\ found.byId = {}
    /\ found.pending \in 0..Len(found.calls)
    /\ \A n \in 1..Len(found.calls) :
           found.calls[n].output \in {found.calls[n].of, NoOutput, Loop}
    /\ found.pending # 0 => found.calls[found.pending].of = b
    /\ ~Told(steps, {"error"}, Loop) =>
           /\ Len(found.calls) = b
           /\ \A k \in 1..b : /\ found.calls[k].of = k
                              /\ found.calls[k].status = StatusOf(steps, k)
           /\ b > 0 /\ ~Told(steps, Results, b) => found.pending = b

LEMMA SoundNone == Sound(<<>>, 0)
<1> DEFINE none == <<>>
<1>1. Found(none).calls = none /\ Found(none).byId = {} /\ Found(none).pending = 0
  BY FoundNone DEF Nothing
<1>2. none \in Seq(Steps) /\ none \in Seq(Entries) /\ Len(none) = 0 /\ 1..0 = {}
  OBVIOUS
<1> HIDE DEF none
<1>3. \A n \in 1..Len(none) : FALSE
  BY <1>2
<1>4. Sound(none, 0)
  BY <1>1, <1>2, <1>3 DEF Sound
<1> QED BY <1>4 DEF none

LEMMA SoundProse ==
    ASSUME NEW s, NEW b, Sound(s, b)
    PROVE  LET t == Append(s, Step("prose", Loop, NoId)) IN
           Sound(t, b) /\ \A k : Told(t, Results, k) <=> Told(s, Results, k)
<1> DEFINE step == Step("prose", Loop, NoId)
           t == Append(s, step)
<1>1. s \in Seq(Steps) /\ b \in Nat
  BY DEF Sound
<1>2. step \in Steps /\ step.kind = "prose" /\ step.of = 0
  BY DEF Step, Steps, Kinds, Loop, NoId
<1>3. /\ t \in Seq(Steps) /\ Len(t) = Len(s) + 1
      /\ \A n \in 1..Len(t) : t[n] = IF n \in 1..Len(s) THEN s[n] ELSE step
  BY <1>1, <1>2
<1>4. Found(t) = Found(s)
  BY <1>1, <1>2, FoundMore DEF Paired
<1>5. \A kinds \in {{"error"}, {"output"}, Results} : \A k : Told(t, kinds, k) <=> Told(s, kinds, k)
  BY <1>1, <1>2, ToldMore DEF Results
<1> HIDE DEF t, step
<1>6. Sound(t, b)
  <2>1. \A k : StatusOf(t, k) = StatusOf(s, k)
    BY <1>5 DEF StatusOf
  <2>2. \A n \in 1..Len(t) : t[n].of <= b
    BY <1>1, <1>2, <1>3 DEF Sound
  <2> QED BY <1>1, <1>3, <1>4, <1>5, <2>1, <2>2 DEF Sound
<1> QED BY <1>5, <1>6 DEF t, step

LEMMA SoundOpen ==
    ASSUME NEW s, NEW b, Sound(s, b)
    PROVE  LET t == Append(s, Step("open", b + 1, NoId)) IN
           Sound(t, b + 1) /\ ~Told(t, Results, b + 1)
<1> DEFINE step == Step("open", b + 1, NoId)
           t == Append(s, step)
           entry == [of |-> b + 1, output |-> NoOutput, status |-> "pending"]
<1>1. s \in Seq(Steps) /\ b \in Nat
  BY DEF Sound
<1>2. step \in Steps /\ step.kind = "open" /\ step.of = b + 1 /\ step.id = NoId
  BY <1>1 DEF Step, Steps, Kinds, NoId
<1>3. /\ t \in Seq(Steps) /\ Len(t) = Len(s) + 1
      /\ \A n \in 1..Len(t) : t[n] = IF n \in 1..Len(s) THEN s[n] ELSE step
  BY <1>1, <1>2
<1>4. /\ Found(t).calls = Append(Found(s).calls, entry)
      /\ Found(t).byId = Found(s).byId
      /\ Found(t).pending = Len(Found(s).calls) + 1
  <2>1. Found(t) = Opened(Found(s), step)
    BY <1>1, <1>2, FoundMore DEF Paired
  <2> HIDE DEF t, step
  <2> QED BY <1>2, <2>1 DEF Opened
<1>5. \A kinds \in {{"error"}, {"output"}, Results} : \A k : Told(t, kinds, k) <=> Told(s, kinds, k)
  BY <1>1, <1>2, ToldMore DEF Results
<1>6. \A k : StatusOf(t, k) = StatusOf(s, k)
  BY <1>5 DEF StatusOf
<1>7. \A kinds : ~Told(s, kinds, b + 1)
  BY <1>1 DEF Told, Sound, Steps
<1>8. entry \in Entries /\ entry.output = NoOutput /\ entry.of = b + 1 /\ entry.status = "pending"
  BY <1>1 DEF Entries, NoOutput
<1> HIDE DEF t, step, entry
<1> DEFINE calls == Found(s).calls
<1>9. /\ calls \in Seq(Entries) /\ Append(calls, entry) \in Seq(Entries)
      /\ Len(Append(calls, entry)) = Len(calls) + 1 /\ Len(calls) \in Nat
      /\ \A n \in 1..Len(calls) : Append(calls, entry)[n] = calls[n]
      /\ Append(calls, entry)[Len(calls) + 1] = entry
  BY <1>8 DEF Sound
<1>10. Sound(t, b + 1)
  <2>1. \A n \in 1..Len(t) : t[n].of <= b + 1
    <3>1. \A n \in 1..Len(s) : s[n] \in Steps /\ s[n].of <= b
      BY <1>1 DEF Sound
    <3>2. \A e \in Steps : e.of \in Nat
      BY DEF Steps
    <3> QED BY <1>1, <1>2, <1>3, <3>1, <3>2
  <2>2. \A n \in 1..Len(Found(t).calls) :
            Found(t).calls[n].output \in {Found(t).calls[n].of, NoOutput, Loop}
    BY <1>4, <1>8, <1>9 DEF Sound
  <2>3. Found(t).calls[Found(t).pending].of = b + 1
    BY <1>4, <1>8, <1>9
  <2>4. ASSUME ~Told(t, {"error"}, Loop)
        PROVE  /\ Len(Found(t).calls) = b + 1 /\ Found(t).pending = b + 1
               /\ \A k \in 1..(b + 1) : /\ Found(t).calls[k].of = k
                                        /\ Found(t).calls[k].status = StatusOf(t, k)
    <3>1. /\ Len(calls) = b
          /\ \A k \in 1..b : calls[k].of = k /\ calls[k].status = StatusOf(s, k)
      BY <1>5, <2>4 DEF Sound
    <3>2. StatusOf(s, b + 1) = "pending"
      BY <1>7 DEF StatusOf
    <3>3. \A k \in 1..(b + 1) : k \in 1..b \/ k = b + 1
      BY <1>1
    <3> QED BY <1>1, <1>4, <1>6, <1>8, <1>9, <3>1, <3>2, <3>3
  <2>5. Found(t).byId = {} /\ Found(t).pending \in 0..Len(Found(t).calls)
    BY <1>4, <1>9 DEF Sound
  <2> QED BY <1>1, <1>3, <1>4, <1>9, <2>1, <2>2, <2>3, <2>4, <2>5 DEF Sound
<1> QED BY <1>5, <1>7, <1>10 DEF t, step

\* A result without an id closes the call that waits, or is one of its own.
LEMMA ClosedByPosition ==
    ASSUME NEW found, NEW step \in Steps, step.id = NoId, found.byId = {},
           found.calls \in Seq(Entries), found.pending \in 0..Len(found.calls)
    PROVE  LET status == IF step.kind = "error" THEN "error" ELSE "completed"
               n == found.pending
               closed == Closed(found, step)
           IN  /\ closed.byId = {} /\ closed.pending = 0
               /\ n = 0 => closed.calls = Append(found.calls,
                              [of |-> step.of, output |-> step.of, status |-> status])
               /\ n # 0 => closed.calls = [found.calls EXCEPT ![n].output = step.of,
                                                              ![n].status = status]
<1>1. Answered(found, step) = found.pending
  BY DEF Answered
<1>2. Closed(found, step).byId = {} /\ Closed(found, step).pending = 0
  BY <1>1 DEF Closed
<1> DEFINE status == IF step.kind = "error" THEN "error" ELSE "completed"
           calls == found.calls
           n == found.pending
<1>3. CASE n = 0
  <2>1. Closed(found, step).calls =
            [i \in 1..Len(calls) \union {Len(calls) + 1} |->
                IF i = Len(calls) + 1 THEN [of |-> step.of, output |-> step.of, status |-> status]
                ELSE calls[i]]
    BY <1>1, <1>3 DEF Closed
  <2>2. 1..Len(calls) \union {Len(calls) + 1} = 1..(Len(calls) + 1)
    OBVIOUS
  <2>3. Closed(found, step).calls =
            Append(calls, [of |-> step.of, output |-> step.of, status |-> status])
    BY <2>1, <2>2
  <2> QED BY <1>2, <1>3, <2>3
<1>4. CASE n # 0
  <2>1. Closed(found, step).calls =
            [i \in 1..Len(calls) \union {n} |->
                IF i = n THEN [calls[n] EXCEPT !.output = step.of, !.status = status]
                ELSE calls[i]]
    BY <1>1, <1>4 DEF Closed
  <2>2. 1..Len(calls) \union {n} = 1..Len(calls) /\ DOMAIN calls = 1..Len(calls)
    BY <1>4
  <2>3. Closed(found, step).calls =
            [calls EXCEPT ![n].output = step.of, ![n].status = status]
    BY <2>1, <2>2
  <2> QED BY <1>2, <1>4, <2>3
<1> QED BY <1>3, <1>4

\* The result of the call that runs, or an error of the loop.
LEMMA SoundClose ==
    ASSUME NEW s, NEW b, Sound(s, b), NEW step \in Steps,
           step.id = NoId, step.kind \in Results,
           \/ step.of = b /\ b > 0 /\ ~Told(s, Results, b)
           \/ step.of = Loop /\ step.kind = "error"
    PROVE  Sound(Append(s, step), b)
<1> DEFINE t == Append(s, step)
           calls == Found(s).calls
           n == Found(s).pending
           status == IF step.kind = "error" THEN "error" ELSE "completed"
           own == [of |-> step.of, output |-> step.of, status |-> status]
           closed == [calls EXCEPT ![n].output = step.of, ![n].status = status]
<1>1. s \in Seq(Steps) /\ b \in Nat /\ step.of \in Nat /\ step.of <= b
  BY DEF Sound, Steps, Loop
<1>2. /\ t \in Seq(Steps) /\ Len(t) = Len(s) + 1
      /\ \A i \in 1..Len(t) : t[i] = IF i \in 1..Len(s) THEN s[i] ELSE step
  BY <1>1
<1>3. /\ calls \in Seq(Entries) /\ Len(calls) \in Nat /\ n \in 0..Len(calls)
      /\ \A i \in 1..Len(calls) : /\ calls[i] \in Entries
                                  /\ calls[i].output \in {calls[i].of, NoOutput, Loop}
      /\ n # 0 => calls[n].of = b
  BY DEF Sound
<1>4. /\ Found(t).byId = {} /\ Found(t).pending = 0
      /\ n = 0 => Found(t).calls = Append(calls, own)
      /\ n # 0 => Found(t).calls = closed
  <2>1. Found(t) = Closed(Found(s), step)
    BY <1>1, FoundMore DEF Paired, Results
  <2>2. Found(s).byId = {}
    BY DEF Sound
  <2> HIDE DEF t
  <2> QED BY <1>3, <2>1, <2>2, ClosedByPosition
<1>5. \A kinds \in {{"error"}, {"output"}, Results} : \A k :
          Told(t, kinds, k) <=> Told(s, kinds, k) \/ (step.kind \in kinds /\ step.of = k)
  BY <1>1, ToldMore DEF Results
<1>6. own \in Entries /\ own.output = own.of /\ own.of = step.of /\ own.status = status
  BY <1>1 DEF Entries
<1>7. n = 0 => /\ Append(calls, own) \in Seq(Entries)
               /\ Len(Append(calls, own)) = Len(calls) + 1
               /\ \A i \in 1..(Len(calls) + 1) :
                      Append(calls, own)[i] = IF i \in 1..Len(calls) THEN calls[i] ELSE own
  BY <1>3, <1>6
<1>8. n # 0 => /\ closed \in Seq(Entries) /\ Len(closed) = Len(calls)
               /\ \A i \in 1..Len(calls) :
                      /\ closed[i].of = calls[i].of
                      /\ i # n => closed[i] = calls[i]
                      /\ i = n => closed[i].output = step.of /\ closed[i].status = status
  <2> SUFFICES ASSUME n # 0
               PROVE  /\ closed \in Seq(Entries) /\ Len(closed) = Len(calls)
                      /\ \A i \in 1..Len(calls) :
                             /\ closed[i].of = calls[i].of
                             /\ i # n => closed[i] = calls[i]
                             /\ i = n => closed[i].output = step.of /\ closed[i].status = status
    OBVIOUS
  <2> DEFINE entry == [calls[n] EXCEPT !.output = step.of, !.status = status]
  <2>1. n \in 1..Len(calls) /\ calls[n] \in Entries
    BY <1>3
  <2>2. /\ entry \in Entries /\ entry.of = calls[n].of
        /\ entry.output = step.of /\ entry.status = status
    BY <1>1, <2>1 DEF Entries
  <2>3. closed = [calls EXCEPT ![n] = entry]
    BY <1>3, <2>1
  <2> HIDE DEF entry, closed, calls, n
  <2> QED BY <1>3, <2>1, <2>2, <2>3
<1> HIDE DEF t, own, closed, calls, n, status
<1>9. \A i \in 1..Len(t) : t[i].of <= b
  <2>1. \A i \in 1..Len(s) : s[i].of <= b
    BY DEF Sound
  <2> QED BY <1>1, <1>2, <2>1
<1>10. /\ Found(t).calls \in Seq(Entries)
       /\ \A i \in 1..Len(Found(t).calls) :
              Found(t).calls[i].output \in {Found(t).calls[i].of, NoOutput, Loop}
  <2>1. CASE n = 0
    BY <1>3, <1>4, <1>6, <1>7, <2>1
  <2>2. CASE n # 0
    BY <1>1, <1>3, <1>4, <1>8, <2>2 DEF Loop
  <2> QED BY <2>1, <2>2
<1>11. ASSUME ~Told(t, {"error"}, Loop)
       PROVE  /\ Len(Found(t).calls) = b
              /\ \A k \in 1..b : /\ Found(t).calls[k].of = k
                                 /\ Found(t).calls[k].status = StatusOf(t, k)
              /\ ~(b > 0 /\ ~Told(t, Results, b))
  <2>1. step.of = b /\ b > 0 /\ ~Told(s, Results, b) /\ ~Told(s, {"error"}, Loop)
    BY <1>5, <1>11
  <2>2. /\ Len(calls) = b /\ n = b
        /\ \A k \in 1..b : calls[k].of = k /\ calls[k].status = StatusOf(s, k)
    BY <2>1 DEF Sound, calls, n
  <2>3. \A k : k # b => StatusOf(t, k) = StatusOf(s, k)
    BY <1>5, <2>1 DEF StatusOf
  <2>4. StatusOf(t, b) = status
    <3>1. ~Told(s, {"error"}, b)
      BY <2>1 DEF Told, Results
    <3>2. Told(t, {"error"}, b) <=> step.kind = "error"
      BY <1>5, <2>1, <3>1
    <3>3. Told(t, {"output"}, b) \/ step.kind = "error"
      BY <1>5, <2>1 DEF Results
    <3> QED BY <3>2, <3>3 DEF StatusOf, status
  <2>5. n # 0 /\ Found(t).calls = closed
    BY <1>1, <1>4, <2>1, <2>2
  <2>6. Told(t, Results, b)
    BY <1>5, <2>1
  <2> QED BY <1>1, <1>8, <2>2, <2>3, <2>4, <2>5, <2>6
<1>12. Sound(t, b)
  <2>1. Len(Found(t).calls) \in Nat
    BY <1>10
  <2> QED BY <1>1, <1>2, <1>4, <1>9, <1>10, <1>11, <2>1 DEF Sound
<1> QED BY <1>12 DEF t

\* Sound steps make a true record.
LEMMA SoundIsTrue == ASSUME NEW b, Sound(heard, b) PROVE RecordIsTrue
<1> DEFINE calls == FromSteps(heard)
           EntriesOf(k) == {n \in 1..Len(calls) : calls[n].of = k}
           Of(kinds, k) == {n \in 1..Len(heard) : heard[n].kind \in kinds /\ heard[n].of = k}
<1>1. calls = Found(heard).calls
  BY DEF FromSteps
<1>2. \A kinds, k : Of(kinds, k) = {} <=> ~Told(heard, kinds, k)
  BY DEF Told
<1>3. \A n \in 1..Len(calls) : calls[n].output \in {calls[n].of, NoOutput, Loop}
  BY <1>1 DEF Sound
<1>4. ASSUME Of({"error"}, Loop) = {}, NEW i \in 1..Len(heard), heard[i].of # Loop
      PROVE  \E n \in 1..Len(calls) :
                 /\ EntriesOf(heard[i].of) = {n}
                 /\ calls[n].status = "pending" <=> Of(Results, heard[i].of) = {}
  <2> DEFINE k == heard[i].of
  <2>1. k \in 1..b
    <3>1. heard[i] \in Steps /\ heard[i].of <= b /\ b \in Nat
      BY DEF Sound
    <3> QED BY <1>4, <3>1 DEF Steps, Loop
  <2>2. Len(calls) = b /\ \A c \in 1..b : calls[c].of = c /\ calls[c].status = StatusOf(heard, c)
    BY <1>1, <1>2, <1>4 DEF Sound
  <2> HIDE DEF calls, k
  <2>3. EntriesOf(k) = {k}
    BY <2>1, <2>2
  <2>4. Told(heard, Results, k) <=> Told(heard, {"error"}, k) \/ Told(heard, {"output"}, k)
    BY DEF Told, Results
  <2>5. calls[k].status = "pending" <=> ~Told(heard, Results, k)
    BY <2>1, <2>2, <2>4 DEF StatusOf
  <2> QED BY <1>2, <2>1, <2>2, <2>3, <2>5 DEF k
<1>5. Results = {"output", "error"}
  BY DEF Results
<1> HIDE DEF calls
<1> QED BY <1>3, <1>4, <1>5 DEF RecordIsTrue, calls

-----------------------------------------------------------------------------
(* What is told and what is kept                                            *)

\* A list of steps, told as it is once more.
LEMMA ToldAgain == ASSUME NEW S, NEW s \in Seq(S) PROVE SubSeq(s, 1, Len(s)) = s
OBVIOUS

\* More steps leave those already told where they are, and come after them.
LEMMA MoreHeard ==
    ASSUME NEW S, NEW s \in Seq(S), NEW t \in Seq(S)
    PROVE  /\ s \o t \in Seq(S)
           /\ Len(s \o t) >= Len(s)
           /\ SubSeq(s \o t, 1, Len(s)) = s
           /\ SubSeq(s \o t, Len(s) + 1, Len(s \o t)) = t
OBVIOUS

LEMMA Continued ==
    ASSUME NEW S, NEW s \in Seq(S), NEW t \in Seq(S),
           Len(t) >= Len(s), SubSeq(t, 1, Len(s)) = s
    PROVE  t = s \o SubSeq(t, Len(s) + 1, Len(t))
OBVIOUS

\* What a step leaves of the lines and of what was told, it leaves of what is kept.
LEMMA KeptSame == ASSUME UNCHANGED <<harness, heard, lines>> PROVE Kept' = Kept
BY DEF Kept

\* A loop that does not read its lines again keeps all that it tells.
LEMMA TellsWhole ==
    ASSUME harness # "codex", UNCHANGED harness,
           heard \in Seq(Steps), heard' \in Seq(Steps),
           Len(heard') >= Len(heard), SubSeq(heard', 1, Len(heard)) = heard,
           billed' >= billed
    PROVE  Contract!Tells
<1>1. Kept = heard /\ Kept' = heard'
  BY DEF Kept
<1>2. heard' = heard \o SubSeq(heard', Len(heard) + 1, Len(heard'))
  BY Continued
<1> QED BY <1>1, <1>2 DEF Contract!Tells

-----------------------------------------------------------------------------
(* Codex                                                                    *)

Begins == {"started", "tool"}
Ends == {"completed", "failed", "tool"}
TurnLines ==
    {line \in [kind : LineKinds, of : Nat, torn : BOOLEAN] : line.torn => line.kind \in TornKinds}

\* Codex runs one command at a time: what it writes next begins one when none runs,
\* and ends the one that does.
InTurn(written) ==
    \A n \in 0..Len(written) :
        LET begun == UpTo(written, n, Begins)
            ended == UpTo(written, n, Ends)
            line == written[n + 1]
        IN  /\ begun \in {ended, ended + 1}
            /\ n < Len(written) =>
                   /\ line.kind \in Begins => begun = ended /\ line.of = begun + 1
                   /\ line.kind \in Ends \ Begins => begun # ended /\ line.of = begun

\* Of the commands whose lines were read, and narrated, the last may still run.
NarratesTurn ==
    LET begun == UpTo(lines \o pipe, Len(lines), Begins) IN
    /\ Sound(heard, begun)
    /\ begun # UpTo(lines \o pipe, Len(lines), Ends) => ~Told(heard, Results, begun)

\* No line of a list is torn.
Whole(list) == \A n \in 1..Len(list) : ~list[n].torn

\* What the Outcome is made from is what was narrated, less what a torn line told.
NarratesLines ==
    /\ billed = UpTo(lines, Len(lines), {"turn"})
    /\ Codex!AllSteps(lines) \in Seq(Steps)
    /\ Whole(lines) => heard = Codex!AllSteps(lines)
    /\ ~Whole(lines) => Len(heard) > Len(Codex!AllSteps(lines))

CodexInv ==
    /\ harness = "codex"
    /\ lines \in Seq(TurnLines) /\ pipe \in Seq(TurnLines)
    /\ InTurn(lines \o pipe)
    /\ NarratesTurn
    /\ NarratesLines

\* What the steps of the next line make of a sound narration.
LEMMA LineIsSound ==
    ASSUME NEW s, NEW b, NEW e, NEW line, Sound(s, b),
           line.kind \in {"started", "completed", "failed", "tool", "error",
                          "turn", "unreadable"},
           b # e => ~Told(s, Results, b),
           b \in {e, e + 1}, e \in Nat,
           line.kind \in Begins => b = e /\ line.of = b + 1,
           line.kind \in Ends \ Begins => b # e /\ line.of = b
    PROVE  LET begun == b + (IF line.kind \in Begins THEN 1 ELSE 0)
               ended == e + (IF line.kind \in Ends THEN 1 ELSE 0)
               t == s \o Codex!StepsOf(line)
           IN  Sound(t, begun) /\ (begun # ended => ~Told(t, Results, begun))
<1> DEFINE begun == b + (IF line.kind \in Begins THEN 1 ELSE 0)
           ended == e + (IF line.kind \in Ends THEN 1 ELSE 0)
           t == s \o Codex!StepsOf(line)
<1>0. s \in Seq(Steps) /\ b \in Nat
  BY DEF Sound
<1>1. /\ \A x : s \o <<x>> = Append(s, x)
      /\ \A x, y : s \o <<x, y>> = Append(Append(s, x), y)
      /\ s \o <<>> = s
  BY <1>0
<1>2. \A kind \in Kinds, of \in Nat : Codex!Step(kind, of, Codex!NoId) = Step(kind, of, NoId)
  BY DEF Codex!Step, Step, Codex!NoId, NoId
<1>3. \A kind \in Results, of \in Nat :
          LET step == Step(kind, of, NoId) IN
          step \in Steps /\ step.id = NoId /\ step.kind = kind /\ step.of = of
  BY DEF Step, Steps, Results, Kinds, NoId
<1>4. CASE line.kind = "started"
  <2>1. t = Append(s, Step("open", b + 1, NoId)) /\ begun = b + 1
    BY <1>0, <1>1, <1>2, <1>4 DEF Codex!StepsOf, Begins, Kinds
  <2> HIDE DEF t, begun
  <2> QED BY <2>1, SoundOpen DEF t, begun
<1>5. CASE line.kind \in Ends \ Begins
  <2>1. PICK kind \in Results : t = Append(s, Step(kind, b, NoId))
    BY <1>0, <1>1, <1>2, <1>5 DEF Codex!StepsOf, Begins, Ends, Kinds, Results
  <2>2. begun = b /\ ended = begun /\ b > 0 /\ ~Told(s, Results, b)
    BY <1>0, <1>5
  <2>3. Sound(t, b)
    <3> HIDE DEF t
    <3> QED BY <1>0, <1>3, <2>1, <2>2, SoundClose
  <2> QED BY <2>2, <2>3
<1>6. CASE line.kind = "tool"
  <2> DEFINE opened == Append(s, Step("open", b + 1, NoId))
  <2>1. t = Append(opened, Step("output", b + 1, NoId))
    BY <1>0, <1>1, <1>2, <1>6 DEF Codex!StepsOf, Begins, Kinds
  <2>2. begun = b + 1 /\ ended = begun
    BY <1>0, <1>6 DEF Begins, Ends
  <2>3. Sound(opened, b + 1) /\ ~Told(opened, Results, b + 1)
    BY SoundOpen
  <2>4. Sound(t, b + 1)
    <3> HIDE DEF t, opened
    <3>1. b + 1 \in Nat /\ b + 1 > 0 /\ "output" \in Results
      BY <1>0 DEF Results
    <3> QED BY <1>3, <2>1, <2>3, <3>1, SoundClose
  <2> QED BY <2>2, <2>4
<1>7. CASE line.kind = "error"
  <2>1. t = Append(s, Step("error", Loop, NoId))
    BY <1>1, <1>2, <1>7 DEF Codex!StepsOf, Kinds, Codex!Loop, Loop
  <2>2. begun = b /\ ended = e
    BY <1>0, <1>7 DEF Begins, Ends
  <2>3. Loop \in Nat /\ "error" \in Results
    BY DEF Loop, Results
  <2>4. Sound(t, b)
    <3> HIDE DEF t
    <3> QED BY <1>3, <2>1, <2>3, SoundClose
  <2>5. b # 0 => (Told(t, Results, b) <=> Told(s, Results, b))
    BY <1>0, <1>3, <2>1, <2>3, ToldMore DEF Loop
  <2>6. b # e => b # 0
    BY <1>0
  <2> QED BY <2>2, <2>4, <2>5, <2>6
<1>8. CASE line.kind = "turn"
  <2>1. t = Append(s, Step("prose", Loop, NoId))
    BY <1>1, <1>2, <1>8 DEF Codex!StepsOf, Kinds, Codex!Loop, Loop
  <2>2. begun = b /\ ended = e
    BY <1>0, <1>8 DEF Begins, Ends
  <2>3. Sound(t, b) /\ \A k : Told(t, Results, k) <=> Told(s, Results, k)
    <3> HIDE DEF t
    <3> QED BY <2>1, SoundProse
  <2> QED BY <2>2, <2>3
<1>9. CASE line.kind = "unreadable"
  <2>1. t = s
    BY <1>1, <1>9 DEF Codex!StepsOf
  <2>2. begun = b /\ ended = e
    BY <1>0, <1>9 DEF Begins, Ends
  <2> QED BY <2>1, <2>2
<1> QED BY <1>4, <1>5, <1>6, <1>7, <1>8, <1>9 DEF Begins, Ends

LEMMA StepsOfLine ==
    ASSUME NEW line \in TurnLines
    PROVE  Codex!StepsOf(line) \in Seq(Steps)
<1>1. \A kind \in Kinds, of \in Nat : Codex!Step(kind, of, Codex!NoId) \in Steps
  BY DEF Codex!Step, Steps, Codex!NoId
<1>2. line.of \in Nat /\ Codex!Loop \in Nat
  BY DEF TurnLines, Codex!Loop
<1>3. \A kind \in {"open", "output", "error", "prose"} : kind \in Kinds
  BY DEF Kinds
<1>4. \A x, y \in Steps : <<x>> \in Seq(Steps) /\ <<x, y>> \in Seq(Steps)
  OBVIOUS
<1>5. line.kind \in {"started", "completed", "failed", "tool", "error",
                     "turn", "unreadable"}
  BY LoopBounds DEF TurnLines
<1> QED BY <1>1, <1>2, <1>3, <1>4, <1>5 DEF Codex!StepsOf

LEMMA CodexJoins ==
    /\ Codex!AllSteps(<<>>) = <<>>
    /\ \A list \in Seq(TurnLines), line \in TurnLines :
           Codex!AllSteps(Append(list, line)) =
               Codex!AllSteps(list) \o
                   (IF Codex!Parsed(line) THEN Codex!StepsOf(line) ELSE <<>>)
<1> DEFINE Piece(line) == IF Codex!Parsed(line) THEN Codex!StepsOf(line) ELSE <<>>
           Pieces(list) == [n \in 1..Len(list) |-> Piece(list[n])]
<1>1. \A list : Codex!AllSteps(list) = Joined(Pieces(list))
  BY DEF Codex!AllSteps, Codex!Joined, Joined
<1>2. Pieces(<<>>) = <<>>
  OBVIOUS
<1>3. ASSUME NEW list \in Seq(TurnLines), NEW line \in TurnLines
      PROVE  Joined(Pieces(Append(list, line))) = Joined(Pieces(list)) \o Piece(line)
  <2> DEFINE S == {Piece(l) : l \in TurnLines}
  <2> HIDE DEF Piece
  <2>1. Pieces(list) \in Seq(S) /\ Piece(line) \in S
    OBVIOUS
  <2>2. Pieces(Append(list, line)) = Append(Pieces(list), Piece(line))
    OBVIOUS
  <2> HIDE DEF Pieces, S
  <2> QED BY <2>1, <2>2, JoinedMore
<1> QED BY <1>1, <1>2, <1>3, JoinedNone

\* A line that codex writes is the next of its turn.
LEMMA CodexWrites ==
    ASSUME CodexInv, UNCHANGED harness, NEW kind \in LineKinds, NEW torn \in BOOLEAN,
           Codex!Writes(kind, torn)
    PROVE  CodexInv' /\ UNCHANGED <<phase, heard, billed, outcome>>
<1> DEFINE w == lines \o pipe
           begun == Codex!Begun
           ended == Codex!Ended
           line == Codex!Line(kind, IF kind \in {"started", "tool"} THEN begun + 1
                                    ELSE IF kind \in {"completed", "failed"} THEN begun
                                    ELSE Codex!Loop, torn)
<1>1. /\ pipe' = Append(pipe, line)
      /\ UNCHANGED <<phase, heard, billed, outcome, lines>>
      /\ kind \in {"completed", "failed"} => begun > ended
      /\ kind \in {"started", "tool"} => begun = ended
  BY DEF Codex!Writes, Codex!shared
<1>2. w \in Seq(TurnLines) /\ Len(w) \in Nat /\ Len(lines) \in 0..Len(w)
  BY DEF CodexInv
<1>3. begun = UpTo(w, Len(w), Begins) /\ ended = UpTo(w, Len(w), Ends)
  <2>1. begun = UpTo(w, Len(w), Begins)
    BY LoopsCount DEF Codex!Begun, Codex!Written, Begins
  <2>2. ended = UpTo(w, Len(w), Ends)
    BY LoopsCount DEF Codex!Ended, Codex!Written, Ends
  <2> QED BY <2>1, <2>2
<1>4. begun \in Nat /\ ended \in Nat
  BY <1>2, <1>3, UpToType
<1>5. line \in TurnLines /\ line.kind = kind
  BY <1>4 DEF Codex!Line, TurnLines, Codex!Loop, Codex!Writes
<1>6. /\ kind \in Begins => begun = ended /\ line.of = begun + 1
      /\ kind \in Ends \ Begins => begun # ended /\ line.of = begun
  <2>1. kind \in Begins => begun = ended /\ line.of = begun + 1
    BY <1>1 DEF Begins, Codex!Line
  <2>2. kind \in Ends \ Begins => begun # ended /\ line.of = begun
    BY <1>1, <1>4 DEF Begins, Ends, Codex!Line
  <2> QED BY <2>1, <2>2
<1> HIDE DEF line, begun, ended
<1>7. (lines \o pipe)' = Append(w, line)
  BY <1>1, <1>5 DEF CodexInv
<1> HIDE DEF w
<1>8. \A n \in 0..Len(w) : /\ UpTo(Append(w, line), n, Begins) = UpTo(w, n, Begins)
                           /\ UpTo(Append(w, line), n, Ends) = UpTo(w, n, Ends)
  BY <1>2, <1>5, UpToKept
<1>9. InTurn(w) /\ begun \in {ended, ended + 1}
  BY <1>2, <1>3 DEF CodexInv, InTurn, w
<1>10. InTurn(Append(w, line))
  <2> DEFINE more == Append(w, line)
  <2>1. /\ Len(more) = Len(w) + 1
        /\ \A n \in 1..Len(w) : more[n] = w[n]
        /\ more[Len(w) + 1] = line
    BY <1>2, <1>5
  <2> HIDE DEF more
  <2> SUFFICES ASSUME NEW n \in 0..(Len(w) + 1)
               PROVE  LET b == UpTo(more, n, Begins)
                          e == UpTo(more, n, Ends)
                      IN  /\ b \in {e, e + 1}
                          /\ n < Len(more) =>
                                 /\ more[n + 1].kind \in Begins =>
                                        b = e /\ more[n + 1].of = b + 1
                                 /\ more[n + 1].kind \in Ends \ Begins =>
                                        b # e /\ more[n + 1].of = b
    BY <2>1 DEF InTurn, more
  <2>2. CASE n \in 0..(Len(w) - 1)
    <3>1. /\ UpTo(more, n, Begins) = UpTo(w, n, Begins) /\ UpTo(more, n, Ends) = UpTo(w, n, Ends)
          /\ more[n + 1] = w[n + 1] /\ n < Len(w) /\ n \in 0..Len(w)
      BY <1>2, <1>8, <2>1, <2>2 DEF more
    <3> QED BY <1>9, <3>1 DEF InTurn
  <2>3. CASE n = Len(w)
    <3>1. UpTo(more, n, Begins) = begun /\ UpTo(more, n, Ends) = ended /\ more[n + 1] = line
      BY <1>2, <1>3, <1>8, <2>1, <2>3 DEF more
    <3> QED BY <1>5, <1>6, <1>9, <3>1
  <2>4. CASE n = Len(w) + 1
    <3>1. /\ UpTo(more, n, Begins) = begun + (IF kind \in Begins THEN 1 ELSE 0)
          /\ UpTo(more, n, Ends) = ended + (IF kind \in Ends THEN 1 ELSE 0)
      <4>1. \A kinds : UpTo(more, Len(w) + 1, kinds) =
                           UpTo(more, Len(w), kinds) + (IF kind \in kinds THEN 1 ELSE 0)
        BY <1>2, <1>5, <2>1, UpToNext
      <4>2. UpTo(more, Len(w), Begins) = begun /\ UpTo(more, Len(w), Ends) = ended
        BY <1>2, <1>3, <1>8 DEF more
      <4> QED BY <2>4, <4>1, <4>2
    <3> QED BY <1>4, <1>6, <1>9, <2>1, <2>4, <3>1 DEF Begins, Ends
  <2> QED BY <1>2, <2>2, <2>3, <2>4
<1>11. NarratesTurn'
  <2>1. UpTo(w, Len(lines), Begins) = UpTo(Append(w, line), Len(lines), Begins)
    BY <1>2, <1>8
  <2>2. UpTo(w, Len(lines), Ends) = UpTo(Append(w, line), Len(lines), Ends)
    BY <1>2, <1>8
  <2>3. NarratesTurn
    BY DEF CodexInv
  <2> QED BY <1>1, <1>7, <2>1, <2>2, <2>3 DEF NarratesTurn, w
<1>12. NarratesLines'
  BY <1>1 DEF NarratesLines, CodexInv
<1>13. pipe' \in Seq(TurnLines) /\ lines' \in Seq(TurnLines) /\ harness' = harness
  BY <1>1, <1>5 DEF CodexInv
<1> QED BY <1>1, <1>7, <1>10, <1>11, <1>12, <1>13 DEF CodexInv

\* Reading a line moves it from the pipe and tells what it is.
LEMMA CodexReads ==
    ASSUME CodexInv, UNCHANGED harness, Codex!ReadLine
    PROVE  CodexInv' /\ phase = "pumping" /\ UNCHANGED <<phase, outcome>>
           /\ heard' = heard \o Codex!StepsOf(Head(pipe)) /\ billed' >= billed
           /\ Kept' \in {Kept, Kept \o Codex!StepsOf(Head(pipe))}
<1> DEFINE line == Head(pipe)
           w == lines \o pipe
           n == Len(lines)
           b == UpTo(w, n, Begins)
           e == UpTo(w, n, Ends)
<1>1. /\ phase = "pumping" /\ pipe # <<>> /\ pipe' = Tail(pipe) /\ lines' = Append(lines, line)
      /\ heard' = heard \o Codex!StepsOf(line)
      /\ billed' = billed + (IF line.kind = "turn" THEN 1 ELSE 0)
      /\ UNCHANGED <<phase, outcome, process, last, why>>
  BY DEF Codex!ReadLine
<1>2. lines \in Seq(TurnLines) /\ pipe \in Seq(TurnLines)
  BY DEF CodexInv
<1>3. /\ line \in TurnLines /\ lines' \in Seq(TurnLines) /\ pipe' \in Seq(TurnLines)
      /\ Len(lines') = n + 1 /\ n \in Nat
  BY <1>1, <1>2
<1>4. (lines \o pipe)' = w /\ w[n + 1] = line /\ n + 1 \in 0..Len(w) /\ n < Len(w)
  BY <1>1, <1>2
<1>5. line.kind \in {"started", "completed", "failed", "tool", "error",
                     "turn", "unreadable"}
  BY <1>3, LoopBounds DEF TurnLines
<1> HIDE DEF line, w
<1>6. /\ b \in {e, e + 1} /\ e \in Nat
      /\ line.kind \in Begins => b = e /\ line.of = b + 1
      /\ line.kind \in Ends \ Begins => b # e /\ line.of = b
      /\ Sound(heard, b) /\ (b # e => ~Told(heard, Results, b))
  <2>1. InTurn(w) /\ NarratesTurn
    BY DEF CodexInv, w
  <2>2. n \in 0..Len(w)
    BY <1>3, <1>4
  <2>3. e \in Nat
    BY <1>3, UpToType
  <2>4. Sound(heard, b) /\ (b # e => ~Told(heard, Results, b))
    BY <2>1 DEF NarratesTurn, w
  <2>5. /\ b \in {e, e + 1}
        /\ line.kind \in Begins => b = e /\ line.of = b + 1
        /\ line.kind \in Ends \ Begins => b # e /\ line.of = b
    BY <1>4, <2>1, <2>2 DEF InTurn
  <2> QED BY <2>3, <2>4, <2>5
<1>7. /\ UpTo(w, n + 1, Begins) = b + (IF line.kind \in Begins THEN 1 ELSE 0)
      /\ UpTo(w, n + 1, Ends) = e + (IF line.kind \in Ends THEN 1 ELSE 0)
  BY <1>3, <1>4, UpToNext
<1>8. NarratesTurn'
  <2> DEFINE t == heard \o Codex!StepsOf(line)
             begun == b + (IF line.kind \in Begins THEN 1 ELSE 0)
             ended == e + (IF line.kind \in Ends THEN 1 ELSE 0)
  <2>1. Sound(t, begun) /\ (begun # ended => ~Told(t, Results, begun))
    <3> HIDE DEF b, e
    <3> QED BY <1>5, <1>6, LineIsSound
  <2>2. heard' = t /\ (UpTo(lines \o pipe, Len(lines), Begins))' = begun
        /\ (UpTo(lines \o pipe, Len(lines), Ends))' = ended
    BY <1>1, <1>3, <1>4, <1>7
  <2> HIDE DEF t, begun, ended, b, e
  <2> QED BY <2>1, <2>2 DEF NarratesTurn
<1>9a. /\ Codex!AllSteps(lines') \in Seq(Steps)
       /\ Whole(lines') => heard' = Codex!AllSteps(lines')
       /\ ~Whole(lines') => Len(heard') > Len(Codex!AllSteps(lines'))
       /\ Codex!AllSteps(lines') \in
              {Codex!AllSteps(lines), Codex!AllSteps(lines) \o Codex!StepsOf(line)}
  <2> DEFINE told == Codex!StepsOf(line)
             kept == Codex!AllSteps(lines)
             piece == IF Codex!Parsed(line) THEN told ELSE <<>>
  <2>1. told \in Seq(Steps)
    BY <1>3, StepsOfLine
  <2>2. /\ kept \in Seq(Steps) /\ heard \in Seq(Steps)
        /\ Whole(lines) => heard = kept
        /\ ~Whole(lines) => Len(heard) > Len(kept)
    BY DEF CodexInv, NarratesLines, NarratesTurn, Sound
  <2>3. Codex!AllSteps(lines') = kept \o piece
    BY <1>1, <1>2, <1>3, CodexJoins
  <2>4. Whole(lines') <=> Whole(lines) /\ ~line.torn
    BY <1>1, <1>2, <1>3 DEF Whole
  <2>5. line.torn => Len(told) > 0
    <3> SUFFICES ASSUME line.torn PROVE Len(told) > 0
      OBVIOUS
    <3>1. line.kind \in {"started", "completed", "failed", "tool", "error"}
      BY <1>3, <1>5, LoopBounds DEF TurnLines
    <3> QED BY <3>1 DEF Codex!StepsOf
  <2>6. piece = IF line.torn THEN <<>> ELSE told
    <3>1. CASE line.kind = "unreadable" /\ ~line.torn
      <4>1. told = <<>>
        BY <3>1 DEF Codex!StepsOf
      <4>2. piece = told
        BY <4>1
      <4> QED BY <3>1, <4>2
    <3>2. CASE line.kind # "unreadable" \/ line.torn
      BY <3>2 DEF Codex!Parsed
    <3> QED BY <3>1, <3>2
  <2>7. heard' = heard \o told
    BY <1>1
  <2> HIDE DEF told, kept, piece
  <2>8. kept \o <<>> = kept
    BY <2>2
  <2>9. piece \in Seq(Steps) /\ Len(piece) <= Len(told)
        /\ (line.torn => Len(piece) < Len(told))
    <3>1. Len(<<>>) = 0 /\ <<>> \in Seq(Steps) /\ Len(told) \in Nat
      BY <2>1
    <3>2. CASE line.torn
      BY <2>5, <2>6, <3>1, <3>2
    <3>3. CASE ~line.torn
      BY <2>1, <2>6, <3>1, <3>3
    <3> QED BY <3>2, <3>3
  <2>10. kept \o piece \in Seq(Steps)
    BY <2>2, <2>9
  <2>12. ~Whole(lines') => Len(heard \o told) > Len(kept \o piece)
    <3>1. Len(heard \o told) = Len(heard) + Len(told) /\ Len(kept \o piece) = Len(kept) + Len(piece)
      BY <2>1, <2>2, <2>9
    <3>2. Len(heard) >= Len(kept) /\ (~Whole(lines) => Len(heard) > Len(kept))
      BY <2>2
    <3>3. Len(heard) \in Nat /\ Len(kept) \in Nat /\ Len(told) \in Nat /\ Len(piece) \in Nat
      BY <2>1, <2>2, <2>9
    <3> QED BY <2>4, <2>9, <3>1, <3>2, <3>3
  <2>11. Whole(lines') => heard \o told = kept \o piece
    BY <2>2, <2>4, <2>6
  <2> QED BY <2>3, <2>6, <2>7, <2>8, <2>10, <2>11, <2>12 DEF told, kept
<1>9. NarratesLines'
  <2>1. UpTo(Append(lines, line), n + 1, {"turn"}) =
            UpTo(lines, n, {"turn"}) + (IF line.kind = "turn" THEN 1 ELSE 0)
    <3>1. Append(lines, line)[n + 1] = line /\ n \in 0..Len(lines)
      BY <1>2, <1>3
    <3>2. \A kinds : UpTo(Append(lines, line), n, kinds) = UpTo(lines, n, kinds)
      BY <1>2, <1>3, <3>1, UpToKept
    <3>3. \A kinds : UpTo(Append(lines, line), n + 1, kinds) =
                         UpTo(Append(lines, line), n, kinds)
                             + (IF line.kind \in kinds THEN 1 ELSE 0)
      <4> DEFINE more == Append(lines, line)
      <4>1. more[n + 1] = line /\ n \in Nat
        BY <1>3, <3>1
      <4> HIDE DEF more, n
      <4> SUFFICES ASSUME NEW kinds
                   PROVE  UpTo(more, n + 1, kinds) =
                              UpTo(more, n, kinds) + (IF line.kind \in kinds THEN 1 ELSE 0)
        BY DEF more
      <4> QED BY <4>1, UpToNext
    <3> HIDE DEF n
    <3> QED BY <3>2, <3>3
  <2>2. billed' = UpTo(lines', Len(lines'), {"turn"})
    BY <1>1, <1>3, <2>1 DEF CodexInv, NarratesLines
  <2>3. /\ Codex!AllSteps(lines') \in Seq(Steps)
        /\ Whole(lines') => heard' = Codex!AllSteps(lines')
        /\ ~Whole(lines') => Len(heard') > Len(Codex!AllSteps(lines'))
    BY <1>9a DEF NarratesLines
  <2> QED BY <2>2, <2>3 DEF NarratesLines
<1>10. billed' >= billed
  <2>1. billed \in Nat
    BY <1>3, UpToType DEF CodexInv, NarratesLines
  <2> QED BY <1>1, <2>1
<1>11. CodexInv'
  <2>1. InTurn(lines \o pipe)'
    BY <1>4 DEF CodexInv, InTurn, w
  <2> QED BY <1>3, <1>8, <1>9, <2>1 DEF CodexInv
<1>12. Kept' \in {Kept, Kept \o Codex!StepsOf(line)}
  BY <1>9a DEF Kept, CodexInv
<1> QED BY <1>1, <1>10, <1>11, <1>12 DEF line

\* What leaves the lines and what was told as they are leaves the rest of it too.
LEMMA CodexSame ==
    ASSUME CodexInv, UNCHANGED <<harness, heard, billed, pipe, lines>>
    PROVE  CodexInv'
BY DEF CodexInv, NarratesTurn, NarratesLines, InTurn, Whole

LEMMA CodexHands ==
    ASSUME CodexInv, UNCHANGED <<harness, lines>>, ~Ended,
           NEW answer \in {"valid", "none"},
           Codex!Hand(Codex!AllSteps(lines), Codex!Usage(lines), answer)
    PROVE  Contract!Next
<1>1. billed = Codex!Usage(lines) /\ billed \in Nat /\ heard \in Seq(Steps)
  BY LoopsCount, UpToType DEF CodexInv, NarratesLines, NarratesTurn, Sound, Codex!Usage
<1>2. /\ heard' = heard /\ billed' = billed /\ phase' = "returned"
      /\ outcome'.steps = Codex!AllSteps(lines) /\ outcome'.usage = billed'
      /\ outcome'.error <=> outcome'.answer \in {"none", "refusal"}
  BY <1>1 DEF Codex!Hand
<1>3. Kept' = Kept /\ Kept = Codex!AllSteps(lines)
  BY <1>2, KeptSame DEF Kept, CodexInv
<1>4. Contract!Tells
  BY <1>1, <1>2, <1>3, ToldAgain DEF Contract!Tells
<1> QED BY <1>2, <1>3, <1>4 DEF Contract!Next, Contract!Return, Ended

LEMMA CodexStep ==
    ASSUME CodexInv, RunsCodex
    PROVE  CodexInv' /\ [Contract!Next]_(Contract!vars)
<1> DEFINE Keeps == [Contract!Next]_(Contract!vars)
<1>1. UNCHANGED harness
  BY DEF RunsCodex
<1>2. ASSUME NEW kind \in LineKinds, NEW torn \in BOOLEAN, Codex!Writes(kind, torn)
      PROVE  CodexInv' /\ Keeps
  <2>1. lines' = lines
    BY <1>2 DEF Codex!Writes
  <2> QED BY <1>1, <1>2, <2>1, CodexWrites, KeptSame DEF Contract!vars, Ended
<1>3. ASSUME Codex!WritesAnswer \/ Codex!Exits
      PROVE  CodexInv' /\ Keeps
  <2>1. UNCHANGED <<phase, heard, billed, outcome, pipe, lines>>
    BY <1>3 DEF Codex!WritesAnswer, Codex!Exits, Codex!shared, Codex!own
  <2> QED BY <1>1, <2>1, CodexSame, KeptSame DEF Contract!vars, Ended
<1>4. ASSUME Codex!Prepare \/ Codex!Waited \/ Codex!Reaped \/ Codex!Insist
             \/ \E cause \in {"late", "cancelled"} : Codex!Cut(cause)
      PROVE  CodexInv' /\ Keeps
  <2>1. /\ UNCHANGED <<heard, billed, outcome, pipe, lines>>
        /\ phase \notin {"returned", "raised"} /\ phase' \notin {"returned", "raised"}
    BY <1>4 DEF Codex!Prepare, Codex!Waited, Codex!Reaped, Codex!Insist, Codex!Cut, Codex!own
  <2> QED BY <1>1, <2>1, CodexSame, KeptSame DEF Contract!vars, Ended
<1>5. ASSUME Codex!PrepareRaises \/ Codex!Interrupted \/ Codex!PieceRaises
             \/ Codex!Cancelled \/ Codex!AnswerUnreadable
      PROVE  CodexInv' /\ Keeps
  <2>1. /\ UNCHANGED <<heard, billed, outcome, pipe, lines>>
        /\ phase \notin {"returned", "raised"} /\ phase' = "raised"
    BY <1>5 DEF Codex!PrepareRaises, Codex!Interrupted, Codex!PieceRaises, Codex!Cancelled,
                Codex!AnswerUnreadable, Codex!own
  <2>2. Contract!Next
    BY <1>1, <2>1, KeptSame DEF Contract!Next, Contract!Raise, Ended
  <2> QED BY <1>1, <2>1, <2>2, CodexSame
<1>6. ASSUME Codex!HandLate \/ Codex!HandOver
      PROVE  CodexInv' /\ Keeps
  <2>1. /\ UNCHANGED <<heard, billed, pipe, lines>> /\ ~Ended
        /\ \E answer \in {"valid", "none"} :
               Codex!Hand(Codex!AllSteps(lines), Codex!Usage(lines), answer)
    BY <1>6 DEF Codex!HandLate, Codex!HandOver, Codex!Hand, Codex!own, Ended
  <2> QED BY <1>1, <2>1, CodexSame, CodexHands
<1>7. ASSUME Codex!ReadLine
      PROVE  CodexInv' /\ Keeps
  <2>1. /\ CodexInv' /\ phase = "pumping" /\ UNCHANGED <<phase, outcome>>
        /\ heard' = heard \o Codex!StepsOf(Head(pipe)) /\ billed' >= billed
        /\ Kept' \in {Kept, Kept \o Codex!StepsOf(Head(pipe))}
    BY <1>1, <1>7, CodexReads
  <2>2. heard \in Seq(Steps) /\ Head(pipe) \in TurnLines
    BY <1>7 DEF CodexInv, NarratesTurn, Sound, Codex!ReadLine
  <2>3. /\ Len(heard') >= Len(heard) /\ SubSeq(heard', 1, Len(heard)) = heard
        /\ SubSeq(heard', Len(heard) + 1, Len(heard')) = Codex!StepsOf(Head(pipe))
    BY <2>1, <2>2, StepsOfLine, MoreHeard
  <2>4. Contract!Tells
    BY <2>1, <2>3 DEF Contract!Tells
  <2>5. Contract!Next
    BY <2>1, <2>4 DEF Contract!Next, Contract!Report, Ended
  <2> QED BY <2>1, <2>5
<1> QED BY <1>2, <1>3, <1>4, <1>5, <1>6, <1>7 DEF RunsCodex, Codex!Next

LEMMA CodexStarts == ASSUME Init, harness = "codex" PROVE CodexInv /\ Contract!Init
<1>1. /\ pipe = <<>> /\ lines = <<>> /\ heard = <<>> /\ billed = 0
      /\ phase = "fresh" /\ outcome = Contract!Unfinished
  BY DEF Init, Codex!Init
<1>2. lines \o pipe = <<>> /\ Len(lines) = 0 /\ lines \in Seq(TurnLines) /\ pipe \in Seq(TurnLines)
  BY <1>1
<1>3. \A kinds : UpTo(lines \o pipe, 0, kinds) = 0 /\ UpTo(lines, 0, kinds) = 0
  BY UpToNone
<1>4. InTurn(lines \o pipe)
  BY <1>2, <1>3 DEF InTurn
<1>5. NarratesTurn
  BY <1>1, <1>2, <1>3, SoundNone DEF NarratesTurn
<1>6. NarratesLines
  <2>1. Whole(lines)
    <3>1. \A n \in 1..Len(lines) : FALSE
      BY <1>2
    <3> QED BY <3>1 DEF Whole
  <2>2. <<>> \in Seq(Steps) /\ Codex!AllSteps(lines) = <<>>
    BY <1>1, CodexJoins
  <2> QED BY <1>1, <1>2, <1>3, <2>1, <2>2 DEF NarratesLines
<1>7. Contract!Init
  <2>1. Kept = <<>>
    BY <1>1, CodexJoins DEF Kept
  <2> QED BY <1>1, <2>1 DEF Contract!Init, Ended
<1> QED BY <1>2, <1>4, <1>5, <1>6, <1>7 DEF CodexInv

-----------------------------------------------------------------------------
(* Pydantic-ai                                                              *)

\* The record of steps that carry the id of their call, of which those in flight
\* have no result: one entry a call, in the order they were made, and the ids that
\* wait are those in flight.
Keyed(steps, b, inFlight) ==
    LET found == Found(steps) IN
    /\ b \in Nat /\ inFlight \subseteq 1..b /\ steps \in Seq(Steps)
    /\ \A n \in 1..Len(steps) : steps[n].of \in 1..b
    /\ found.calls \in Seq(Entries) /\ Len(found.calls) = b
    /\ found.byId = {<<k, k>> : k \in inFlight}
    /\ \A k \in 1..b : /\ found.calls[k].of = k
                       /\ found.calls[k].output \in {k, NoOutput}
                       /\ found.calls[k].status = "pending" <=> k \in inFlight
                       /\ Told(steps, Results, k) <=> k \notin inFlight

LEMMA KeyedNone == Keyed(<<>>, 0, {})
<1> DEFINE none == <<>>
<1>1. Found(none).calls = none /\ Found(none).byId = {}
  BY FoundNone DEF Nothing
<1>2. none \in Seq(Steps) /\ none \in Seq(Entries) /\ Len(none) = 0 /\ 1..0 = {}
  OBVIOUS
<1> HIDE DEF none
<1>3. \A n \in 1..Len(none) : FALSE
  BY <1>2
<1>4. Keyed(none, 0, {})
  BY <1>1, <1>2, <1>3 DEF Keyed
<1> QED BY <1>4 DEF none

LEMMA KeyedOpen ==
    ASSUME NEW s, NEW b, NEW F, Keyed(s, b, F)
    PROVE  Keyed(Append(s, Step("open", b + 1, b + 1)), b + 1, F \union {b + 1})
<1> DEFINE step == Step("open", b + 1, b + 1)
           t == Append(s, step)
           calls == Found(s).calls
           entry == [of |-> b + 1, output |-> NoOutput, status |-> "pending"]
<1>1. s \in Seq(Steps) /\ b \in Nat /\ F \subseteq 1..b
  BY DEF Keyed
<1>2. step \in Steps /\ step.kind = "open" /\ step.of = b + 1 /\ step.id = b + 1 /\ b + 1 # NoId
  BY <1>1 DEF Step, Steps, Kinds, NoId
<1>3. /\ t \in Seq(Steps) /\ Len(t) = Len(s) + 1
      /\ \A n \in 1..Len(t) : t[n] = IF n \in 1..Len(s) THEN s[n] ELSE step
  BY <1>1, <1>2
<1>4. Found(t) = Opened(Found(s), step)
  BY <1>1, <1>2, FoundMore DEF Paired
<1>5. \A k : Told(t, Results, k) <=> Told(s, Results, k)
  BY <1>1, <1>2, ToldMore DEF Results
<1>6. \A kinds : ~Told(s, kinds, b + 1)
  <2>1. \A n \in 1..Len(s) : s[n].of # b + 1
    BY <1>1 DEF Keyed
  <2> QED BY <2>1 DEF Told
<1>7. entry \in Entries /\ entry.output = NoOutput /\ entry.of = b + 1 /\ entry.status = "pending"
  BY <1>1 DEF Entries, NoOutput
<1> HIDE DEF t, step, entry
<1>8. Found(t).calls = Append(calls, entry)
  BY <1>2, <1>4 DEF Opened, entry
<1>9. /\ Found(t).calls \in Seq(Entries) /\ Len(Found(t).calls) = b + 1
      /\ \A k \in 1..b : Found(t).calls[k] = calls[k]
      /\ Found(t).calls[b + 1] = entry
  <2>1. calls \in Seq(Entries) /\ Len(calls) = b
    BY DEF Keyed
  <2> QED BY <1>7, <1>8, <2>1
<1>10. Found(t).byId = {<<k, k>> : k \in F \union {b + 1}}
  <2>1. Found(s).byId = {<<k, k>> : k \in F} /\ Len(calls) = b
    BY DEF Keyed
  <2>2. Found(t).byId = {p \in Found(s).byId : p[1] # b + 1} \union {<<b + 1, b + 1>>}
    BY <1>2, <1>4, <2>1 DEF Opened
  <2>3. b + 1 \notin F
    BY <1>1
  <2>4. {p \in Found(s).byId : p[1] # b + 1} = Found(s).byId
    BY <2>1, <2>3
  <2> QED BY <2>1, <2>2, <2>4
<1>11. \A k \in 1..(b + 1) : k \in 1..b \/ k = b + 1
  BY <1>1
<1>12. \A k \in 1..(b + 1) : /\ Found(t).calls[k].of = k
                             /\ Found(t).calls[k].output \in {k, NoOutput}
                             /\ Found(t).calls[k].status = "pending" <=> k \in F \union {b + 1}
                             /\ Told(t, Results, k) <=> k \notin F \union {b + 1}
  <2>1. ASSUME NEW k \in 1..b
        PROVE  /\ Found(t).calls[k].of = k
               /\ Found(t).calls[k].output \in {k, NoOutput}
               /\ Found(t).calls[k].status = "pending" <=> k \in F \union {b + 1}
               /\ Told(t, Results, k) <=> k \notin F \union {b + 1}
    <3>1. k # b + 1
      BY <1>1
    <3> QED BY <1>5, <1>9, <3>1 DEF Keyed
  <2>2. ~Told(t, Results, b + 1) /\ b + 1 \in F \union {b + 1}
    BY <1>5, <1>6
  <2> QED BY <1>7, <1>9, <1>11, <2>1, <2>2
<1>13. \A n \in 1..Len(t) : t[n].of \in 1..(b + 1)
  <2>1. \A n \in 1..Len(s) : s[n].of \in 1..b
    BY DEF Keyed
  <2> QED BY <1>1, <1>2, <1>3, <2>1
<1>14. F \union {b + 1} \subseteq 1..(b + 1) /\ b + 1 \in Nat
  BY <1>1
<1>15. Keyed(t, b + 1, F \union {b + 1})
  BY <1>3, <1>9, <1>10, <1>12, <1>13, <1>14 DEF Keyed
<1> QED BY <1>15 DEF t, step

\* Whatever ended before it, a result closes the call it names.
LEMMA KeyedClose ==
    ASSUME NEW s, NEW b, NEW F, Keyed(s, b, F), NEW k \in F, NEW kind \in Results
    PROVE  Keyed(Append(s, Step(kind, k, k)), b, F \ {k})
<1> DEFINE step == Step(kind, k, k)
           t == Append(s, step)
           found == Found(s)
           calls == found.calls
           status == IF kind = "error" THEN "error" ELSE "completed"
           entry == [calls[k] EXCEPT !.output = k, !.status = status]
<1>1. /\ s \in Seq(Steps) /\ b \in Nat /\ F \subseteq 1..b /\ k \in 1..b
      /\ calls \in Seq(Entries) /\ Len(calls) = b
      /\ found.byId = {<<c, c>> : c \in F}
  BY DEF Keyed
<1>2. step \in Steps /\ step.kind = kind /\ step.of = k /\ step.id = k /\ k # NoId
  BY <1>1 DEF Step, Steps, Kinds, NoId, Results
<1>3. /\ t \in Seq(Steps) /\ Len(t) = Len(s) + 1
      /\ \A n \in 1..Len(t) : t[n] = IF n \in 1..Len(s) THEN s[n] ELSE step
  BY <1>1, <1>2
<1>4. Found(t) = Closed(found, step)
  BY <1>1, <1>2, FoundMore DEF Paired, Results
<1>5. \A c : Told(t, Results, c) <=> Told(s, Results, c) \/ c = k
  BY <1>1, <1>2, ToldMore
<1>6. calls[k] \in Entries /\ calls[k].of = k
  BY <1>1 DEF Keyed
<1>7. entry \in Entries /\ entry.of = k /\ entry.output = k /\ entry.status # "pending"
  BY <1>1, <1>6 DEF Entries
<1> HIDE DEF t, step, entry
<1>8. Answered(found, step) = k
  <2> DEFINE named == CHOOSE p \in found.byId : p[1] = k
  <2>1. <<k, k>> \in found.byId /\ <<k, k>>[1] = k
    BY <1>1
  <2>2. named \in found.byId /\ named[1] = k
    <3> HIDE DEF found
    <3> QED BY <2>1
  <2>3. named = <<k, k>>
    BY <1>1, <2>2
  <2> HIDE DEF found
  <2>4. Answered(found, step) = named[2]
    BY <1>2, <2>1 DEF Answered
  <2>5. <<k, k>>[2] = k
    OBVIOUS
  <2> HIDE DEF named, step
  <2> QED BY <2>3, <2>4, <2>5
<1>9. Found(t).calls = [i \in 1..b |-> IF i = k THEN entry ELSE calls[i]]
  <2>1. 1..Len(calls) \union {k} = 1..b
    BY <1>1
  <2>2. k # 0
    BY <1>1
  <2> QED BY <1>2, <1>4, <1>8, <2>1, <2>2 DEF Closed, entry
<1>10. /\ Found(t).calls \in Seq(Entries) /\ Len(Found(t).calls) = b
       /\ \A c \in 1..b : c # k => Found(t).calls[c] = calls[c]
       /\ Found(t).calls[k] = entry
  BY <1>1, <1>7, <1>9
<1>11. Found(t).byId = {<<c, c>> : c \in F \ {k}}
  <2>1. Found(t).byId = {p \in found.byId : p[1] # k}
    BY <1>2, <1>4 DEF Closed
  <2> QED BY <1>1, <2>1
<1>12. \A c \in 1..b : /\ Found(t).calls[c].of = c
                       /\ Found(t).calls[c].output \in {c, NoOutput}
                       /\ Found(t).calls[c].status = "pending" <=> c \in F \ {k}
                       /\ Told(t, Results, c) <=> c \notin F \ {k}
  <2> SUFFICES ASSUME NEW c \in 1..b
               PROVE  /\ Found(t).calls[c].of = c
                      /\ Found(t).calls[c].output \in {c, NoOutput}
                      /\ Found(t).calls[c].status = "pending" <=> c \in F \ {k}
                      /\ Told(t, Results, c) <=> c \notin F \ {k}
    OBVIOUS
  <2>1. CASE c = k
    BY <1>5, <1>7, <1>10, <2>1
  <2>2. CASE c # k
    BY <1>5, <1>10, <2>2 DEF Keyed
  <2> QED BY <2>1, <2>2
<1>13. \A n \in 1..Len(t) : t[n].of \in 1..b
  <2>1. \A n \in 1..Len(s) : s[n].of \in 1..b
    BY DEF Keyed
  <2> QED BY <1>1, <1>2, <1>3, <2>1
<1>14. Keyed(t, b, F \ {k})
  <2>1. F \ {k} \subseteq 1..b
    BY <1>1
  <2> QED BY <1>1, <1>3, <1>10, <1>11, <1>12, <1>13, <2>1 DEF Keyed
<1> QED BY <1>14 DEF t, step

LEMMA JoinedOneMore ==
    ASSUME NEW S, NEW s \in Seq(S), NEW t \in Seq(S), NEW x \in S
    PROVE  s \o Append(t, x) = Append(s \o t, x)
OBVIOUS

\* The calls of a turn, opened one after the other.
LEMMA KeyedOpens ==
    ASSUME NEW s, NEW b, Keyed(s, b, {}), NEW n \in Nat
    PROVE  Keyed(s \o [k \in 1..n |-> Step("open", b + k, b + k)], b + n, b + 1 .. b + n)
<1> DEFINE Opens(m) == [k \in 1..m |-> Step("open", b + k, b + k)]
           S == {m \in Nat : Keyed(s \o Opens(m), b + m, b + 1 .. b + m)}
<1>1. s \in Seq(Steps) /\ b \in Nat
  BY DEF Keyed
<1>2. 0 \in S
  <2>1. s \o Opens(0) = s /\ b + 0 = b /\ b + 1 .. b + 0 = {}
    BY <1>1
  <2> HIDE DEF Opens
  <2> QED BY <2>1
<1>3. ASSUME NEW m \in Nat, m \in S PROVE m + 1 \in S
  <2>1. \A k \in 1..(m + 1) : Step("open", b + k, b + k) \in Steps
    BY <1>1 DEF Step, Steps, Kinds
  <2>2. /\ Opens(m) \in Seq(Steps)
        /\ Opens(m + 1) = Append(Opens(m), Step("open", b + (m + 1), b + (m + 1)))
    BY <2>1
  <2>3. s \o Opens(m + 1) = Append(s \o Opens(m), Step("open", b + (m + 1), b + (m + 1)))
    <3> DEFINE next == Step("open", b + (m + 1), b + (m + 1))
    <3>1. next \in Steps
      BY <2>1
    <3>2. Opens(m) \in Seq(Steps) /\ Opens(m + 1) = Append(Opens(m), next)
      BY <2>2
    <3> HIDE DEF Opens, next
    <3>3. s \o Append(Opens(m), next) = Append(s \o Opens(m), next)
      BY <1>1, <3>1, <3>2, JoinedOneMore
    <3> QED BY <3>2, <3>3 DEF next
  <2>4. (b + 1 .. b + m) \union {(b + m) + 1} = b + 1 .. b + (m + 1) /\ (b + m) + 1 = b + (m + 1)
    BY <1>1
  <2> HIDE DEF Opens
  <2>5. Keyed(s \o Opens(m), b + m, b + 1 .. b + m)
    BY <1>3
  <2>6. Keyed(Append(s \o Opens(m), Step("open", (b + m) + 1, (b + m) + 1)), (b + m) + 1,
              (b + 1 .. b + m) \union {(b + m) + 1})
    BY <2>5, KeyedOpen
  <2>7. Keyed(s \o Opens(m + 1), b + (m + 1), b + 1 .. b + (m + 1))
    BY <2>3, <2>4, <2>6
  <2> QED BY <2>7
<1>4. Nat \subseteq S
  <2> HIDE DEF S
  <2> QED BY <1>2, <1>3, SetInduction
<1> QED BY <1>4

\* Keyed steps make a true record.
LEMMA KeyedIsTrue == ASSUME NEW b, NEW F, Keyed(heard, b, F) PROVE RecordIsTrue
<1> DEFINE calls == FromSteps(heard)
           EntriesOf(k) == {n \in 1..Len(calls) : calls[n].of = k}
           Of(kinds, k) == {n \in 1..Len(heard) : heard[n].kind \in kinds /\ heard[n].of = k}
<1>1. /\ Len(calls) = b
      /\ \A k \in 1..b : /\ calls[k].of = k /\ calls[k].output \in {k, NoOutput}
                         /\ calls[k].status = "pending" <=> ~Told(heard, Results, k)
  BY DEF FromSteps, Keyed
<1>2. \A k : Of(Results, k) = {} <=> ~Told(heard, Results, k)
  BY DEF Told
<1> HIDE DEF calls
<1>3. ASSUME Of({"error"}, Loop) = {}, NEW i \in 1..Len(heard), heard[i].of # Loop
      PROVE  \E n \in 1..Len(calls) :
                 /\ EntriesOf(heard[i].of) = {n}
                 /\ calls[n].status = "pending" <=> Of(Results, heard[i].of) = {}
  <2> DEFINE k == heard[i].of
  <2>1. k \in 1..b
    BY DEF Keyed
  <2> HIDE DEF k
  <2>2. EntriesOf(k) = {k}
    BY <1>1, <2>1
  <2> QED BY <1>1, <1>2, <2>1, <2>2 DEF k
<1>4. \A n \in 1..Len(calls) : calls[n].output \in {calls[n].of, NoOutput, Loop}
  BY <1>1
<1>5. Results = {"output", "error"}
  BY DEF Results
<1> QED BY <1>3, <1>4, <1>5 DEF RecordIsTrue, calls

\* A run of pydantic-ai that is asked for: every request is billed, and what was
\* told is the record of its calls and of those in flight.
PydanticInv ==
    /\ harness = "pydantic-ai"
    /\ Keyed(heard, made, flying)
    /\ requested \in Nat /\ billed = requested
    /\ result \in {"open", "valid", "refusal", "error", "cancelled"}

LEMMA PydanticStep ==
    ASSUME PydanticInv, RunsPydantic
    PROVE  PydanticInv' /\ [Contract!Next]_(Contract!vars)
<1>0. heard \in Seq(Steps) /\ made \in Nat
  BY DEF PydanticInv, Keyed
<1>1. harness' = harness
  BY DEF RunsPydantic
<1>2. heard' = heard /\ billed' >= billed => Contract!Tells
  BY <1>0, <1>1, ToldAgain, TellsWhole DEF PydanticInv
<1>3. ASSUME NEW n \in 0..MaxCalls, Pydantic!Turn(n)
      PROVE  PydanticInv' /\ Contract!Next
  <2> DEFINE opens == [k \in 1..n |-> Step("open", made + k, made + k)]
  <2>1. n \in Nat
    BY LoopBounds
  <2>2. opens \in Seq(Steps)
    <3>1. \A k \in 1..n : Step("open", made + k, made + k) \in Steps
      BY <1>0, <2>1 DEF Step, Steps, Kinds
    <3> QED BY <2>1, <3>1
  <2>3. /\ heard' = heard \o opens /\ flying = {} /\ flying' = made + 1 .. made + n
        /\ made' = made + n /\ phase = "running" /\ UNCHANGED <<phase, outcome, result>>
        /\ requested' = requested + 1 /\ billed' = requested'
    BY <1>3 DEF Pydantic!Turn, Pydantic!Thinking, Pydantic!Step, Step
  <2>4. Keyed(heard', made', flying')
    <3>1. Keyed(heard, made, {})
      BY <2>3 DEF PydanticInv
    <3> QED BY <2>1, <2>3, <3>1, KeyedOpens
  <2>5. Contract!Tells
    <3> HIDE DEF opens
    <3>1. /\ Len(heard') >= Len(heard) /\ SubSeq(heard', 1, Len(heard)) = heard
          /\ heard' \in Seq(Steps)
      BY <1>0, <2>2, <2>3, MoreHeard
    <3>2. billed' >= billed
      BY <2>3 DEF PydanticInv
    <3> QED BY <1>0, <1>1, <3>1, <3>2, TellsWhole DEF PydanticInv
  <2>6. PydanticInv'
    BY <1>1, <2>3, <2>4 DEF PydanticInv
  <2>7. Contract!Report
    BY <2>3, <2>5 DEF Contract!Report, Ended
  <2> QED BY <2>6, <2>7 DEF Contract!Next
<1>4. ASSUME NEW k \in 1..MaxCalls, NEW kind \in {"output", "error"}, Pydantic!CallEnds(k, kind)
      PROVE  PydanticInv' /\ Contract!Next
  <2>1. /\ heard' = Append(heard, Step(kind, k, k)) /\ k \in flying /\ flying' = flying \ {k}
        /\ phase = "running" /\ UNCHANGED <<phase, billed, outcome, requested, made, result>>
    BY <1>4 DEF Pydantic!CallEnds, Pydantic!Step, Step
  <2>2. Keyed(heard', made', flying')
    <3>1. kind \in Results
      BY DEF Results
    <3> QED BY <2>1, <3>1, KeyedClose DEF PydanticInv
  <2>3. Contract!Tells
    <3>1. Step(kind, k, k) \in Steps
      BY LoopBounds DEF Step, Steps, Kinds
    <3>2. /\ Len(heard') >= Len(heard) /\ SubSeq(heard', 1, Len(heard)) = heard
          /\ heard' \in Seq(Steps)
      BY <1>0, <2>1, <3>1
    <3>3. billed' >= billed
      BY <2>1 DEF PydanticInv
    <3> QED BY <1>0, <1>1, <3>2, <3>3, TellsWhole DEF PydanticInv
  <2>4. PydanticInv'
    BY <1>1, <2>1, <2>2 DEF PydanticInv
  <2>5. Contract!Report
    BY <2>1, <2>3 DEF Contract!Report, Ended
  <2> QED BY <2>4, <2>5 DEF Contract!Next
<1>5. ASSUME NEW answer \in {"valid", "refusal"}, Pydantic!Concludes(answer)
      PROVE  PydanticInv' /\ Contract!Next
  <2>1. PydanticInv' /\ Contract!Tells
    BY <1>1, <1>2, <1>5 DEF Pydantic!Concludes, PydanticInv
  <2>2. Contract!Report
    BY <1>5, <2>1 DEF Pydantic!Concludes, Pydantic!Thinking, Contract!Report, Ended
  <2> QED BY <2>1, <2>2 DEF Contract!Next
<1>6. ASSUME Pydantic!Keep
      PROVE  PydanticInv' /\ Contract!Next
  <2>1. /\ PydanticInv' /\ Contract!Tells
        /\ outcome'.steps = Kept' /\ outcome'.usage = billed'
        /\ outcome'.error <=> outcome'.answer \in {"none", "refusal"}
    <3>1. /\ UNCHANGED <<heard, billed, requested, made, flying, result>> /\ billed = requested
          /\ result \in {"valid", "refusal", "error"} /\ billed \in Nat
          /\ outcome' = [steps |-> heard, usage |-> requested,
                         answer |-> IF result = "error" THEN "none" ELSE result,
                         error |-> result # "valid"]
      BY <1>6 DEF Pydantic!Keep, Pydantic!own, PydanticInv
    <3>2. PydanticInv'
      BY <1>1, <3>1 DEF PydanticInv
    <3>3. outcome'.steps = Kept' /\ outcome'.usage = billed'
      BY <1>1, <3>1 DEF Kept, PydanticInv
    <3>4. outcome'.error <=> outcome'.answer \in {"none", "refusal"}
      <4>1. CASE result = "valid"
        BY <3>1, <4>1
      <4>2. CASE result = "refusal"
        BY <3>1, <4>2
      <4>3. CASE result = "error"
        BY <3>1, <4>3
      <4> QED BY <3>1, <4>1, <4>2, <4>3
    <3>5. Contract!Tells
      BY <1>2, <3>1
    <3> QED BY <3>2, <3>3, <3>4, <3>5
  <2>2. Contract!Return
    BY <1>6, <2>1 DEF Pydantic!Keep, Contract!Return, Ended
  <2> QED BY <2>1, <2>2 DEF Contract!Next
<1>7. ASSUME Pydantic!OpenRaises \/ Pydantic!KeepRaises
      PROVE  PydanticInv' /\ Contract!Next
  BY <1>1, <1>7 DEF Pydantic!OpenRaises, Pydantic!KeepRaises, Pydantic!own, PydanticInv,
                    Contract!Next, Contract!Raise, Ended, Kept
<1>8. ASSUME Pydantic!Open \/ Pydantic!RunRaises \/ Pydantic!Cancelled
      PROVE  PydanticInv' /\ UNCHANGED Contract!vars
  BY <1>1, <1>8 DEF Pydantic!Open, Pydantic!RunRaises, Pydantic!Cancelled, PydanticInv,
                    Pydantic!own, Pydantic!shared, Contract!vars, Ended, Kept
<1> QED BY <1>3, <1>4, <1>5, <1>6, <1>7, <1>8 DEF RunsPydantic, Pydantic!Next

LEMMA PydanticStarts == ASSUME Init, harness = "pydantic-ai" PROVE PydanticInv /\ Contract!Init
BY KeyedNone DEF Init, Pydantic!Init, PydanticInv, Contract!Init, Ended, Kept

-----------------------------------------------------------------------------
(* Opencode                                                                 *)

CallKinds == Opencode!CallKinds
TurnParts == [kind : Opencode!PartKinds, of : Nat]

\* The calls of a conversation are numbered as they are made.
InOrder(conversation) ==
    \A n \in 1..Len(conversation) :
        conversation[n].kind \in CallKinds =>
            conversation[n].of = UpTo(conversation, n, CallKinds)

\* What the record is to say of a call, by the state opencode gives it.
PartStatus(kind) ==
    CASE kind = "running" -> "pending"
      [] kind = "refused" -> "error"
      [] kind = "declared" -> IF tools = "mcp" THEN "error" ELSE "completed"
      [] OTHER -> "completed"

\* What a conversation is replayed as: a sound narration without an error of the
\* loop, in which every call has the status that opencode gives it.
Replayed(conversation) ==
    LET steps == Opencode!AllSteps(conversation)
        calls == UpTo(conversation, Len(conversation), CallKinds)
    IN  /\ Sound(steps, calls)
        /\ ~Told(steps, {"error"}, Loop)
        /\ \A n \in 1..Len(conversation) : conversation[n].kind \in CallKinds =>
               /\ conversation[n].of \in 1..calls
               /\ StatusOf(steps, conversation[n].of) = PartStatus(conversation[n].kind)

LEMMA OpencodeJoins ==
    /\ Opencode!AllSteps(<<>>) = <<>>
    /\ \A list \in Seq(TurnParts), part \in TurnParts :
           Opencode!AllSteps(Append(list, part)) =
               Opencode!AllSteps(list) \o Opencode!StepsOf(part)
<1> DEFINE Piece(part) == Opencode!StepsOf(part)
           Pieces(list) == [n \in 1..Len(list) |-> Piece(list[n])]
<1>1. \A list : Opencode!AllSteps(list) = Joined(Pieces(list))
  BY DEF Opencode!AllSteps, Opencode!Joined, Joined
<1>2. Pieces(<<>>) = <<>>
  OBVIOUS
<1>3. ASSUME NEW list \in Seq(TurnParts), NEW part \in TurnParts
      PROVE  Joined(Pieces(Append(list, part))) = Joined(Pieces(list)) \o Piece(part)
  <2> DEFINE S == {Piece(p) : p \in TurnParts}
  <2> HIDE DEF Piece
  <2>1. Pieces(list) \in Seq(S) /\ Piece(part) \in S
    OBVIOUS
  <2>2. Pieces(Append(list, part)) = Append(Pieces(list), Piece(part))
    OBVIOUS
  <2> HIDE DEF Pieces, S
  <2> QED BY <2>1, <2>2, JoinedMore
<1> QED BY <1>1, <1>2, <1>3, JoinedNone

\* A result of call b, told after a sound narration of b calls, is its status.
LEMMA ResultIsStatus ==
    ASSUME NEW s, NEW b \in Nat, Sound(s, b), ~Told(s, Results, b), b > 0,
           NEW kind \in Results, ~Told(s, {"error"}, Loop)
    PROVE  LET t == Append(s, Step(kind, b, NoId)) IN
           /\ Sound(t, b) /\ ~Told(t, {"error"}, Loop)
           /\ StatusOf(t, b) = IF kind = "error" THEN "error" ELSE "completed"
           /\ \A k : k # b => StatusOf(t, k) = StatusOf(s, k)
<1> DEFINE step == Step(kind, b, NoId)
           t == Append(s, step)
<1>1. s \in Seq(Steps) /\ step \in Steps /\ step.kind = kind /\ step.of = b /\ step.id = NoId
  BY DEF Sound, Step, Steps, Kinds, Results, NoId
<1>2. \A kinds, k : Told(t, kinds, k) <=> Told(s, kinds, k) \/ (kind \in kinds /\ b = k)
  BY <1>1, ToldMore
<1> HIDE DEF t, step
<1>3. Sound(t, b)
  BY <1>1, SoundClose DEF t
<1>4. ~Told(t, {"error"}, Loop)
  BY <1>2 DEF Loop
<1>5. ~Told(s, {"error"}, b) /\ ~Told(s, {"output"}, b)
  BY DEF Told, Results
<1>6. StatusOf(t, b) = IF kind = "error" THEN "error" ELSE "completed"
  BY <1>2, <1>5 DEF StatusOf, Results
<1>7. \A k : k # b => StatusOf(t, k) = StatusOf(s, k)
  BY <1>2 DEF StatusOf
<1> QED BY <1>3, <1>4, <1>6, <1>7 DEF t, step

\* What the steps of one part more make of a sound narration.
LEMMA PartIsSound ==
    ASSUME NEW s, NEW b, Sound(s, b), ~Told(s, {"error"}, Loop),
           NEW part \in TurnParts, part.kind \in CallKinds => part.of = b + 1
    PROVE  LET t == s \o Opencode!StepsOf(part) IN
           /\ Sound(t, IF part.kind \in CallKinds THEN b + 1 ELSE b)
           /\ ~Told(t, {"error"}, Loop)
           /\ \A k \in 1..b : StatusOf(t, k) = StatusOf(s, k)
           /\ part.kind \in CallKinds => StatusOf(t, b + 1) = PartStatus(part.kind)
<1> DEFINE t == s \o Opencode!StepsOf(part)
           opened == Append(s, Step("open", b + 1, NoId))
<1>0. s \in Seq(Steps) /\ b \in Nat
  BY DEF Sound
<1>1. /\ \A x : s \o <<x>> = Append(s, x)
      /\ \A x, y : s \o <<x, y>> = Append(Append(s, x), y)
  BY <1>0
<1>2. \A kind, of : Opencode!Step(kind, of, Opencode!NoId) = Step(kind, of, NoId)
  BY DEF Opencode!Step, Step, Opencode!NoId, NoId
<1>3. /\ Sound(opened, b + 1) /\ ~Told(opened, Results, b + 1)
      /\ ~Told(opened, {"error"}, Loop)
      /\ \A k : StatusOf(opened, k) = StatusOf(s, k)
      /\ StatusOf(opened, b + 1) = "pending"
  <2>1. Step("open", b + 1, NoId) \in Steps /\ Step("open", b + 1, NoId).kind = "open"
    BY <1>0 DEF Step, Steps, Kinds, NoId
  <2>2. \A kinds \in {{"error"}, {"output"}} : \A k : Told(opened, kinds, k) <=> Told(s, kinds, k)
    BY <1>0, <2>1, ToldMore
  <2>3. Sound(opened, b + 1) /\ ~Told(opened, Results, b + 1)
    BY SoundOpen
  <2> HIDE DEF opened
  <2>4. ~Told(opened, {"error"}, b + 1) /\ ~Told(opened, {"output"}, b + 1)
    BY <2>3 DEF Told, Results
  <2> QED BY <2>2, <2>3, <2>4 DEF StatusOf
<1>4. part.kind \in Opencode!PartKinds
  BY DEF TurnParts
<1>5. CASE part.kind = "running"
  <2>1. t = opened
    BY <1>1, <1>2, <1>5 DEF Opencode!StepsOf, CallKinds, Opencode!CallKinds
  <2>2. part.kind \in CallKinds
    BY <1>5 DEF CallKinds, Opencode!CallKinds
  <2> HIDE DEF t, opened
  <2> QED BY <1>3, <1>5, <2>1, <2>2 DEF PartStatus, t
<1>6. CASE part.kind \in {"completed", "refused", "declared"}
  <2>1. PICK kind \in Results :
            /\ t = Append(opened, Step(kind, b + 1, NoId))
            /\ PartStatus(part.kind) = IF kind = "error" THEN "error" ELSE "completed"
    <3> DEFINE kind == IF part.kind = "refused" \/ (part.kind = "declared" /\ tools = "mcp")
                       THEN "error" ELSE "output"
    <3>1. t = Append(opened, Step(kind, b + 1, NoId))
      BY <1>1, <1>2, <1>6 DEF Opencode!StepsOf, CallKinds, Opencode!CallKinds
    <3>2. PartStatus(part.kind) = IF kind = "error" THEN "error" ELSE "completed"
      BY <1>6 DEF PartStatus
    <3>3. kind \in Results
      BY DEF Results
    <3> QED BY <3>1, <3>2, <3>3
  <2>2. part.kind \in CallKinds
    BY <1>6 DEF CallKinds, Opencode!CallKinds
  <2>3. b + 1 \in Nat /\ b + 1 > 0 /\ \A k \in 1..b : k # b + 1
    BY <1>0
  <2> HIDE DEF t, opened
  <2>4. /\ Sound(t, b + 1) /\ ~Told(t, {"error"}, Loop)
        /\ StatusOf(t, b + 1) = PartStatus(part.kind)
        /\ \A k : k # b + 1 => StatusOf(t, k) = StatusOf(opened, k)
    BY <1>3, <2>1, <2>3, ResultIsStatus
  <2> QED BY <1>3, <2>2, <2>3, <2>4 DEF t
<1>7. CASE part.kind \in {"text", "verdict"}
  <2> DEFINE step == Step("prose", Loop, NoId)
  <2>1. t = Append(s, step)
    BY <1>1, <1>2, <1>7 DEF Opencode!StepsOf, CallKinds, Opencode!CallKinds, Opencode!Loop, Loop
  <2>2. part.kind \notin CallKinds
    BY <1>7 DEF CallKinds, Opencode!CallKinds
  <2>3. step \in Steps /\ step.kind = "prose"
    BY DEF Step, Steps, Kinds, Loop, NoId
  <2>4. \A kinds \in {{"error"}, {"output"}} : \A k : Told(t, kinds, k) <=> Told(s, kinds, k)
    <3> HIDE DEF t, step
    <3> QED BY <1>0, <2>1, <2>3, ToldMore
  <2>5. Sound(t, b)
    BY <2>1, SoundProse
  <2> HIDE DEF t, step
  <2> QED BY <2>2, <2>4, <2>5 DEF StatusOf, t
<1> QED BY <1>4, <1>5, <1>6, <1>7 DEF Opencode!PartKinds, Opencode!CallKinds

LEMMA ReplayedAll ==
    \A conversation \in Seq(TurnParts) : InOrder(conversation) => Replayed(conversation)
<1> DEFINE S == {m \in Nat : \A c \in Seq(TurnParts) : Len(c) = m /\ InOrder(c) => Replayed(c)}
<1>1. 0 \in S
  <2> SUFFICES ASSUME NEW c \in Seq(TurnParts), Len(c) = 0 PROVE Replayed(c)
    OBVIOUS
  <2>1. c = <<>> /\ 1..0 = {}
    OBVIOUS
  <2>2. Opencode!AllSteps(c) = <<>> /\ UpTo(c, Len(c), CallKinds) = 0
    BY <2>1, OpencodeJoins, UpToNone
  <2>3. ~Told(<<>>, {"error"}, Loop)
    BY DEF Told
  <2> QED BY <2>1, <2>2, <2>3, SoundNone DEF Replayed
<1>2. ASSUME NEW m \in Nat, m \in S PROVE m + 1 \in S
  <2> SUFFICES ASSUME NEW c \in Seq(TurnParts), Len(c) = m + 1, InOrder(c) PROVE Replayed(c)
    OBVIOUS
  <2> DEFINE d == SubSeq(c, 1, m)
             part == c[m + 1]
             b == UpTo(d, m, CallKinds)
  <2>1. /\ d \in Seq(TurnParts) /\ Len(d) = m /\ part \in TurnParts /\ c = Append(d, part)
        /\ \A n \in 1..m : d[n] = c[n]
    OBVIOUS
  <2> HIDE DEF d, part
  <2>2. \A n \in 0..m : UpTo(c, n, CallKinds) = UpTo(d, n, CallKinds)
    BY <2>1, UpToKept
  <2>3. InOrder(d)
    BY <2>1, <2>2 DEF InOrder
  <2>4. Replayed(d)
    BY <1>2, <2>1, <2>3
  <2>5. UpTo(c, m + 1, CallKinds) = IF part.kind \in CallKinds THEN b + 1 ELSE b
    <3>1. UpTo(c, m + 1, CallKinds) =
              UpTo(c, m, CallKinds) + (IF part.kind \in CallKinds THEN 1 ELSE 0)
      BY UpToNext DEF part
    <3>2. b \in Nat
      BY UpToType
    <3> QED BY <2>2, <3>1, <3>2
  <2>6. part.kind \in CallKinds => part.of = b + 1
    BY <2>5 DEF InOrder, part
  <2> DEFINE s == Opencode!AllSteps(d)
             t == Opencode!AllSteps(c)
  <2>7. t = s \o Opencode!StepsOf(part)
    BY <2>1, OpencodeJoins
  <2>8. /\ Sound(s, b) /\ ~Told(s, {"error"}, Loop)
        /\ \A n \in 1..m : d[n].kind \in CallKinds =>
               d[n].of \in 1..b /\ StatusOf(s, d[n].of) = PartStatus(d[n].kind)
    BY <2>1, <2>4 DEF Replayed
  <2> HIDE DEF b, s, t
  <2>9. /\ Sound(t, IF part.kind \in CallKinds THEN b + 1 ELSE b)
        /\ ~Told(t, {"error"}, Loop)
        /\ \A k \in 1..b : StatusOf(t, k) = StatusOf(s, k)
        /\ part.kind \in CallKinds => StatusOf(t, b + 1) = PartStatus(part.kind)
    BY <2>1, <2>6, <2>7, <2>8, PartIsSound
  <2>10. b \in Nat
    BY <2>8 DEF Sound
  <2> DEFINE more == IF part.kind \in CallKinds THEN b + 1 ELSE b
  <2>11. \A n \in 1..(m + 1) : c[n].kind \in CallKinds =>
             c[n].of \in 1..more /\ StatusOf(t, c[n].of) = PartStatus(c[n].kind)
    <3>1. ASSUME NEW n \in 1..m, c[n].kind \in CallKinds
          PROVE  c[n].of \in 1..more /\ StatusOf(t, c[n].of) = PartStatus(c[n].kind)
      <4>1. c[n] = d[n] /\ 1..b \subseteq 1..more
        BY <2>1, <2>10
      <4> QED BY <2>8, <2>9, <3>1, <4>1
    <3>2. ASSUME part.kind \in CallKinds
          PROVE  part.of \in 1..more /\ StatusOf(t, part.of) = PartStatus(part.kind)
      BY <2>6, <2>9, <2>10, <3>2
    <3>3. \A n \in 1..(m + 1) : n \in 1..m \/ n = m + 1
      OBVIOUS
    <3> HIDE DEF more
    <3> QED BY <3>1, <3>2, <3>3 DEF part
  <2> QED BY <2>5, <2>9, <2>11 DEF Replayed, t
<1>3. Nat \subseteq S
  <2> HIDE DEF S
  <2> QED BY <1>1, <1>2, SetInduction
<1>4. \A c \in Seq(TurnParts) : Len(c) \in Nat
  OBVIOUS
<1> QED BY <1>3, <1>4

\* Nothing is told before the conversation was read back, and what was read back
\* is the whole of a turn that is over: the record is made from that.
TellsWhatItRead ==
    /\ failure \in {"", "caught", "raised"}
    /\ phase = "listing" => turn # "open"
    /\ phase = "replaying" => failure # "raised"
    /\ phase \in {"stopping", "replaying"} /\ failure = "" => turn # "open" /\ read = parts
    /\ phase # "returned" => heard = <<>> /\ billed = 0
    /\ phase = "returned" => \/ heard = <<>>
                             \/ turn # "open" /\ heard = Opencode!AllSteps(parts)

OpencodeInv ==
    /\ harness = "opencode"
    /\ parts \in Seq(TurnParts) /\ InOrder(parts)
    /\ TellsWhatItRead

LEMMA SameReplay ==
    ASSUME UNCHANGED <<parts, tools>>
    PROVE  /\ Opencode!AllSteps(parts)' = Opencode!AllSteps(parts)
           /\ parts \in Seq(TurnParts) /\ InOrder(parts) =>
                  parts' \in Seq(TurnParts) /\ InOrder(parts)'
<1>1. \A part : Opencode!StepsOf(part)' = Opencode!StepsOf(part)
  BY DEF Opencode!StepsOf
<1>2. [n \in 1..Len(parts) |-> Opencode!StepsOf(parts[n])]' =
          [n \in 1..Len(parts) |-> Opencode!StepsOf(parts[n])]
  BY <1>1
<1>3. Opencode!AllSteps(parts)' = Opencode!AllSteps(parts)
  BY <1>2 DEF Opencode!AllSteps
<1>4. InOrder(parts)' <=> InOrder(parts)
  BY DEF InOrder
<1> QED BY <1>3, <1>4

\* Handing a conversation over is the end that the contract allows.
LEMMA OpencodeHands ==
    ASSUME harness = "opencode", UNCHANGED harness, heard = <<>>, billed = 0, ~Ended,
           NEW conversation \in Seq(TurnParts), InOrder(conversation),
           NEW answer \in {"none", "valid"}, Opencode!Hand(conversation, answer)
    PROVE  /\ Contract!Next /\ phase' = "returned"
           /\ heard' = Opencode!AllSteps(conversation)
           /\ UNCHANGED <<process, tools, answering, parts, turn, read, failure>>
<1>1. /\ phase' = "returned" /\ heard' = Opencode!AllSteps(conversation)
      /\ billed' = Opencode!Usage(conversation)
      /\ outcome'.steps = heard' /\ outcome'.usage = billed'
      /\ outcome'.error <=> outcome'.answer \in {"none", "refusal"}
      /\ UNCHANGED <<process, tools, answering, parts, turn, read, failure>>
  BY DEF Opencode!Hand, Opencode!own
<1>2. heard' \in Seq(Steps)
  BY <1>1, ReplayedAll DEF Replayed, Sound
<1>3. billed' \in Nat
  BY <1>1, LoopsCount, UpToType DEF Opencode!Usage
<1>4. /\ Len(heard') >= Len(heard) /\ SubSeq(heard', 1, Len(heard)) = heard
      /\ heard \in Seq(Steps) /\ billed' >= billed
  BY <1>2, <1>3
<1>5. Contract!Tells
  BY <1>2, <1>4, TellsWhole
<1>6. outcome'.steps = Kept'
  BY <1>1 DEF Kept
<1> QED BY <1>1, <1>5, <1>6 DEF Contract!Next, Contract!Return, Ended

LEMMA OpencodeStep ==
    ASSUME OpencodeInv, RunsOpencode
    PROVE  OpencodeInv' /\ [Contract!Next]_(Contract!vars)
<1>1. harness = "opencode" /\ harness' = "opencode"
  BY DEF RunsOpencode
<1>0. parts \in Seq(TurnParts) /\ Len(parts) \in Nat /\ InOrder(parts) /\ TellsWhatItRead
  BY DEF OpencodeInv
<1>2. ASSUME NEW kind \in Opencode!PartKinds, Opencode!Speaks(kind)
      PROVE  OpencodeInv' /\ UNCHANGED Contract!vars
  <2> DEFINE part == Opencode!Part(kind, IF kind = "running" THEN Opencode!Calls + 1
                                         ELSE Opencode!Loop)
  <2>1. /\ parts' = Append(parts, part) /\ turn = "open"
        /\ kind \in {"running", "text", "verdict"}
        /\ UNCHANGED <<phase, heard, billed, outcome, turn, read, failure>>
    BY <1>2 DEF Opencode!Speaks, Opencode!shared
  <2>2. Opencode!Calls = UpTo(parts, Len(parts), CallKinds) /\ Opencode!Calls \in Nat
    BY <1>0, LoopsCount, UpToType DEF Opencode!Calls, CallKinds
  <2>3. /\ part \in TurnParts /\ part.kind = kind
        /\ kind \in CallKinds => part.of = UpTo(parts, Len(parts), CallKinds) + 1
    BY <2>1, <2>2 DEF Opencode!Part, TurnParts, Opencode!Loop, CallKinds, Opencode!CallKinds
  <2> HIDE DEF part
  <2>4. /\ parts' \in Seq(TurnParts) /\ Len(parts') = Len(parts) + 1
        /\ \A n \in 1..Len(parts) : parts'[n] = parts[n]
        /\ parts'[Len(parts) + 1] = part
    BY <1>0, <2>1, <2>3
  <2>5. \A n \in 0..Len(parts) : UpTo(parts', n, CallKinds) = UpTo(parts, n, CallKinds)
    BY <1>0, <2>1, <2>3, UpToKept
  <2>6. InOrder(parts)'
    <3>1. ASSUME NEW n \in 1..Len(parts), parts'[n].kind \in CallKinds
          PROVE  parts'[n].of = UpTo(parts', n, CallKinds)
      BY <1>0, <2>4, <2>5, <3>1 DEF InOrder
    <3>2. ASSUME part.kind \in CallKinds
          PROVE  part.of = UpTo(parts', Len(parts) + 1, CallKinds)
      <4>1. UpTo(parts', Len(parts) + 1, CallKinds) =
                UpTo(parts', Len(parts), CallKinds) + (IF part.kind \in CallKinds THEN 1 ELSE 0)
        BY <1>0, <2>4, UpToNext
      <4>2. UpTo(parts', Len(parts), CallKinds) = UpTo(parts, Len(parts), CallKinds)
        BY <1>0, <2>5
      <4> QED BY <2>3, <3>2, <4>1, <4>2
    <3>3. \A n \in 1..Len(parts') : n \in 1..Len(parts) \/ n = Len(parts) + 1
      BY <1>0, <2>4
    <3>4. (CallKinds' = CallKinds)
      BY DEF CallKinds, Opencode!CallKinds
    <3> QED BY <2>4, <3>1, <3>2, <3>3, <3>4 DEF InOrder
  <2>7. ~(phase = "listing" \/ (phase \in {"stopping", "replaying"} /\ failure = ""))
    BY <1>0, <2>1 DEF TellsWhatItRead
  <2>8. TellsWhatItRead'
    BY <1>0, <2>1, <2>7 DEF TellsWhatItRead
  <2>9. UNCHANGED Contract!vars
    BY <1>1, <2>1 DEF Contract!vars, Ended, Kept
  <2> QED BY <1>1, <2>4, <2>6, <2>8, <2>9 DEF OpencodeInv
<1>3. ASSUME NEW n \in 1..MaxParts, NEW kind \in Opencode!CallKinds, Opencode!CallEnds(n, kind)
      PROVE  OpencodeInv' /\ UNCHANGED Contract!vars
  <2>1. /\ n \in 1..Len(parts) /\ parts[n].kind = "running" /\ turn = "open"
        /\ parts' = [parts EXCEPT ![n].kind = kind]
        /\ UNCHANGED <<phase, heard, billed, outcome, turn, read, failure>>
    BY <1>3 DEF Opencode!CallEnds, Opencode!shared
  <2>2. parts \in Seq(TurnParts) /\ parts[n] \in TurnParts
    BY <1>0, <2>1
  <2>3. /\ parts' \in Seq(TurnParts) /\ Len(parts') = Len(parts)
        /\ \A i \in 1..Len(parts) : /\ parts'[i].of = parts[i].of
                                    /\ parts'[i].kind \in CallKinds <=> parts[i].kind \in CallKinds
    <3> DEFINE part == [parts[n] EXCEPT !.kind = kind]
    <3>1. /\ part \in TurnParts /\ part.of = parts[n].of
          /\ part.kind \in CallKinds /\ parts[n].kind \in CallKinds
      BY <2>1, <2>2 DEF TurnParts, Opencode!PartKinds, CallKinds, Opencode!CallKinds
    <3>2. parts' = [parts EXCEPT ![n] = part]
      BY <2>1, <2>2
    <3> HIDE DEF part
    <3>3. \A i \in 1..Len(parts) : parts'[i] = IF i = n THEN part ELSE parts[i]
      BY <2>1, <2>2, <3>2
    <3>4. parts' \in Seq(TurnParts) /\ Len(parts') = Len(parts)
      BY <2>1, <2>2, <3>1, <3>2
    <3> QED BY <3>1, <3>3, <3>4
  <2>4. \A i \in 1..Len(parts) : UpTo(parts', i, CallKinds) = UpTo(parts, i, CallKinds)
    <3> SUFFICES ASSUME NEW i \in 1..Len(parts)
                 PROVE  UpTo(parts', i, CallKinds) = UpTo(parts, i, CallKinds)
      OBVIOUS
    <3>1. {j \in 1..i : parts'[j].kind \in CallKinds} = {j \in 1..i : parts[j].kind \in CallKinds}
      BY <2>2, <2>3
    <3> QED BY <3>1 DEF UpTo
  <2>5. CallKinds' = CallKinds
    BY DEF CallKinds, Opencode!CallKinds
  <2>6. InOrder(parts)'
    BY <1>0, <2>3, <2>4, <2>5 DEF InOrder
  <2>7. ~(phase = "listing" \/ (phase \in {"stopping", "replaying"} /\ failure = ""))
    BY <1>0, <2>1 DEF TellsWhatItRead
  <2>8. TellsWhatItRead'
    BY <1>0, <2>1, <2>7 DEF TellsWhatItRead
  <2>9. UNCHANGED Contract!vars
    BY <1>1, <2>1 DEF Contract!vars, Ended, Kept
  <2> QED BY <1>1, <2>3, <2>6, <2>8, <2>9 DEF OpencodeInv
<1>4. ASSUME UNCHANGED <<heard, billed, outcome, parts, tools>>,
             \/ Opencode!StartsAnswering \/ Opencode!Exits \/ Opencode!TurnEnds
             \/ Opencode!Serve \/ Opencode!Ready \/ Opencode!NotReady
             \/ Opencode!PostTicket \/ Opencode!Replied \/ Opencode!Listed
             \/ \E how \in {"caught", "raised"} : Opencode!Fails(how)
      PROVE  OpencodeInv' /\ UNCHANGED Contract!vars
  <2>0. Opencode!AllSteps(parts)' = Opencode!AllSteps(parts)
    BY <1>4, SameReplay
  <2>1. InOrder(parts)' /\ parts' \in Seq(TurnParts)
    BY <1>0, <1>4, SameReplay
  <2>2. CASE Opencode!StartsAnswering \/ Opencode!Exits
    <3>1. UNCHANGED <<phase, turn, read, failure>>
      BY <2>2 DEF Opencode!StartsAnswering, Opencode!Exits, Opencode!shared
    <3>2. TellsWhatItRead'
      BY <1>0, <1>4, <2>0, <3>1 DEF TellsWhatItRead
    <3>3. UNCHANGED Contract!vars
      BY <1>1, <1>4, <3>1 DEF Contract!vars, Ended, Kept
    <3> QED BY <1>1, <2>1, <3>2, <3>3 DEF OpencodeInv
  <2>3. CASE Opencode!TurnEnds
    <3>1. UNCHANGED <<phase, read, failure>> /\ turn' # "open"
      BY <2>3 DEF Opencode!TurnEnds, Opencode!shared
    <3>2. TellsWhatItRead'
      BY <1>0, <1>4, <2>0, <3>1 DEF TellsWhatItRead
    <3>3. UNCHANGED Contract!vars
      BY <1>1, <1>4, <3>1 DEF Contract!vars, Ended, Kept
    <3> QED BY <1>1, <2>1, <3>2, <3>3 DEF OpencodeInv
  <2>4. CASE Opencode!Serve \/ Opencode!Ready \/ Opencode!PostTicket
    <3>1. /\ phase \notin {"returned", "raised"} /\ phase' \in {"probing", "opening", "waiting"}
          /\ UNCHANGED failure
      BY <2>4 DEF Opencode!Serve, Opencode!Ready, Opencode!PostTicket, Opencode!own
    <3>2. TellsWhatItRead'
      BY <1>0, <1>4, <2>0, <3>1 DEF TellsWhatItRead
    <3>3. UNCHANGED Contract!vars
      BY <1>1, <1>4, <3>1 DEF Contract!vars, Ended, Kept
    <3> QED BY <1>1, <2>1, <3>2, <3>3 DEF OpencodeInv
  <2>5. CASE Opencode!NotReady \/ \E how \in {"caught", "raised"} : Opencode!Fails(how)
    <3>1. /\ phase \notin {"returned", "raised"} /\ phase' = "stopping"
          /\ failure' \in {"caught", "raised"}
      BY <2>5 DEF Opencode!NotReady, Opencode!Fails
    <3>2. TellsWhatItRead'
      BY <1>0, <1>4, <2>0, <3>1 DEF TellsWhatItRead
    <3>3. UNCHANGED Contract!vars
      BY <1>1, <1>4, <3>1 DEF Contract!vars, Ended, Kept
    <3> QED BY <1>1, <2>1, <3>2, <3>3 DEF OpencodeInv
  <2>6. CASE Opencode!Replied
    <3>1. phase = "waiting" /\ phase' = "listing" /\ turn' # "open" /\ UNCHANGED failure
      BY <2>6 DEF Opencode!Replied, Opencode!own
    <3>2. TellsWhatItRead'
      BY <1>0, <1>4, <2>0, <3>1 DEF TellsWhatItRead
    <3>3. UNCHANGED Contract!vars
      BY <1>1, <1>4, <3>1 DEF Contract!vars, Ended, Kept
    <3> QED BY <1>1, <2>1, <3>2, <3>3 DEF OpencodeInv
  <2>7. CASE Opencode!Listed
    <3>1. /\ phase = "listing" /\ phase' = "stopping" /\ read' = parts
          /\ UNCHANGED <<failure, turn>>
      BY <2>7 DEF Opencode!Listed
    <3>2. TellsWhatItRead'
      BY <1>0, <1>4, <2>0, <3>1 DEF TellsWhatItRead
    <3>3. UNCHANGED Contract!vars
      BY <1>1, <1>4, <3>1 DEF Contract!vars, Ended, Kept
    <3> QED BY <1>1, <2>1, <3>2, <3>3 DEF OpencodeInv
  <2> QED BY <1>4, <2>2, <2>3, <2>4, <2>5, <2>6, <2>7
<1>5. ASSUME Opencode!PrepareRaises \/ Opencode!Stop
      PROVE  OpencodeInv' /\ [Contract!Next]_(Contract!vars)
  <2>1. /\ UNCHANGED <<heard, billed, outcome, parts, tools, turn, read, failure>>
        /\ phase \notin {"returned", "raised"}
        /\ \/ phase' = "raised"
           \/ phase = "stopping" /\ phase' = "replaying" /\ failure # "raised"
    BY <1>5 DEF Opencode!PrepareRaises, Opencode!Stop, Opencode!own
  <2>2. InOrder(parts)' /\ parts' \in Seq(TurnParts)
    BY <1>0, <2>1, SameReplay
  <2>3. TellsWhatItRead'
    BY <1>0, <2>1 DEF TellsWhatItRead
  <2>4. CASE phase' = "raised"
    <3>1. Contract!Raise
      BY <1>1, <2>1, <2>4 DEF Contract!Raise, Ended, Kept
    <3> QED BY <1>1, <2>2, <2>3, <3>1 DEF OpencodeInv, Contract!Next
  <2>5. CASE phase = "stopping" /\ phase' = "replaying"
    <3>1. UNCHANGED Contract!vars
      BY <1>1, <2>1, <2>5 DEF Contract!vars, Ended, Kept
    <3> QED BY <1>1, <2>2, <2>3, <3>1 DEF OpencodeInv
  <2> QED BY <2>1, <2>4, <2>5
<1>6. ASSUME Opencode!PopenFails \/ Opencode!Replay
      PROVE  OpencodeInv' /\ Contract!Next
  <2>1. PICK conversation \in Seq(TurnParts), answer \in {"none", "valid"} :
            /\ Opencode!Hand(conversation, answer) /\ InOrder(conversation)
            /\ conversation = <<>> \/ (conversation = parts /\ turn # "open")
    <3>1. <<>> \in Seq(TurnParts) /\ InOrder(<<>>)
      BY DEF InOrder
    <3>2. Opencode!Verdict(read) \in {"none", "valid"}
      BY DEF Opencode!Verdict
    <3>3. CASE Opencode!PopenFails
      BY <3>1, <3>3 DEF Opencode!PopenFails
    <3>4. CASE Opencode!Replay /\ failure = "caught"
      BY <3>1, <3>4 DEF Opencode!Replay
    <3>5. CASE Opencode!Replay /\ failure # "caught"
      <4>1. read = parts /\ turn # "open" /\ parts \in Seq(TurnParts) /\ InOrder(parts)
        BY <1>0, <3>5 DEF TellsWhatItRead, Opencode!Replay
      <4>2. \E answer \in {"none", "valid"} : Opencode!Hand(read, answer)
        BY <3>2, <3>5 DEF Opencode!Replay
      <4> QED BY <4>1, <4>2
    <3> QED BY <1>6, <3>3, <3>4, <3>5
  <2>2. ~Ended /\ heard = <<>> /\ billed = 0
    BY <1>0, <1>6 DEF Opencode!PopenFails, Opencode!Replay, TellsWhatItRead, Ended
  <2>3. /\ Contract!Next /\ phase' = "returned"
        /\ heard' = Opencode!AllSteps(conversation)
        /\ UNCHANGED <<process, tools, answering, parts, turn, read, failure>>
    BY <1>0, <1>1, <2>1, <2>2, OpencodeHands
  <2>4. /\ InOrder(parts)' /\ parts' \in Seq(TurnParts)
        /\ Opencode!AllSteps(parts)' = Opencode!AllSteps(parts)
    BY <1>0, <2>3, SameReplay
  <2>5. heard' = <<>> \/ (turn' # "open" /\ heard' = Opencode!AllSteps(parts)')
    BY <2>1, <2>3, <2>4, OpencodeJoins
  <2>6. TellsWhatItRead'
    BY <1>0, <2>3, <2>5 DEF TellsWhatItRead
  <2> QED BY <1>1, <2>3, <2>4, <2>6 DEF OpencodeInv
<1>7. \/ Opencode!StartsAnswering \/ Opencode!Exits \/ Opencode!TurnEnds
      \/ Opencode!Serve \/ Opencode!Ready \/ Opencode!NotReady
      \/ Opencode!PostTicket \/ Opencode!Replied \/ Opencode!Listed
      \/ \E how \in {"caught", "raised"} : Opencode!Fails(how)
      => UNCHANGED <<heard, billed, outcome, parts, tools>>
  BY DEF Opencode!StartsAnswering, Opencode!Exits, Opencode!TurnEnds, Opencode!Serve,
         Opencode!Ready, Opencode!NotReady, Opencode!PostTicket, Opencode!Replied,
         Opencode!Listed, Opencode!Fails, Opencode!shared, Opencode!own
<1>8. Opencode!Next
  BY DEF RunsOpencode
<1> QED BY <1>2, <1>3, <1>4, <1>5, <1>6, <1>7, <1>8 DEF Opencode!Next

LEMMA OpencodeStarts == ASSUME Init, harness = "opencode" PROVE OpencodeInv /\ Contract!Init
<1>0. parts = <<>>
  BY DEF Init, Opencode!Init
<1>1. /\ heard = <<>> /\ billed = 0 /\ phase = "fresh" /\ failure = ""
      /\ outcome = Contract!Unfinished
  BY DEF Init, Opencode!Init
<1>2. parts \in Seq(TurnParts) /\ InOrder(parts)
  <2>1. parts \in Seq(TurnParts)
    BY <1>0
  <2>2. \A n \in 1..Len(parts) : FALSE
    BY <1>0
  <2> QED BY <2>1, <2>2 DEF InOrder
<1>3. TellsWhatItRead
  BY <1>1 DEF TellsWhatItRead
<1>4. Contract!Init
  BY <1>1 DEF Contract!Init, Ended, Kept
<1> QED BY <1>2, <1>3, <1>4 DEF OpencodeInv

LEMMA OpencodeIsTrue == ASSUME OpencodeInv PROVE RecordIsTrue /\ RefusalsAreErrors
<1>0. TellsWhatItRead /\ parts \in Seq(TurnParts) /\ InOrder(parts)
  BY DEF OpencodeInv
<1> DEFINE total == UpTo(parts, Len(parts), CallKinds)
<1>1. Replayed(parts)
  BY <1>0, ReplayedAll
<1>2. heard = <<>> \/ heard = Opencode!AllSteps(parts)
  BY <1>0 DEF TellsWhatItRead
<1>3. \E b : Sound(heard, b)
  BY <1>1, <1>2, SoundNone DEF Replayed
<1>4. ASSUME phase = "returned", heard # <<>>, NEW n \in 1..Len(parts), parts[n].kind \in CallKinds
      PROVE  LET calls == FromSteps(heard) IN
             \E i \in 1..Len(calls) : /\ calls[i].of = parts[n].of
                                      /\ calls[i].status = PartStatus(parts[n].kind)
  <2>1. heard = Opencode!AllSteps(parts)
    BY <1>2, <1>4
  <2>2. /\ Sound(heard, total) /\ ~Told(heard, {"error"}, Loop)
        /\ parts[n].of \in 1..total
        /\ StatusOf(heard, parts[n].of) = PartStatus(parts[n].kind)
    BY <1>1, <1>4, <2>1 DEF Replayed
  <2> DEFINE calls == FromSteps(heard)
             k == parts[n].of
  <2>3. /\ Len(calls) = total
        /\ \A c \in 1..total : calls[c].of = c /\ calls[c].status = StatusOf(heard, c)
    BY <2>2 DEF Sound, FromSteps
  <2> HIDE DEF calls, total
  <2> QED BY <2>2, <2>3 DEF calls
<1>5. RefusalsAreErrors
  <2>1. \A kind : PartStatus(kind) = CASE kind = "running" -> "pending"
                                       [] kind = "refused" -> "error"
                                       [] kind = "declared" ->
                                              IF tools = "mcp" THEN "error" ELSE "completed"
                                       [] OTHER -> "completed"
    BY DEF PartStatus
  <2>2. \A n \in 1..Len(parts) :
            parts[n].kind \in CallKinds <=> parts[n].kind \in Opencode!CallKinds
    BY DEF CallKinds
  <2> QED BY <1>4, <2>2 DEF RefusalsAreErrors, PartStatus
<1> QED BY <1>3, <1>5, SoundIsTrue

-----------------------------------------------------------------------------
(* Processes                                                                *)

\* Codex may run while its lines are read or it is being stopped, and behind a slot
\* that was cancelled just then; opencode from its start to the finally that stops
\* it; and pydantic-ai has no process.
RunsWhileDriven ==
    /\ harness \in {"codex", "opencode", "pydantic-ai"}
    /\ harness = "codex" /\ process = "running" =>
           phase \in {"pumping", "reaping"} \/ why = "interrupted"
    /\ harness = "opencode" /\ process = "running" =>
           phase \in {"probing", "opening", "waiting", "listing", "stopping"}
    /\ harness = "pydantic-ai" => process = "none"

LEMMA CodexDriven == RunsWhileDriven /\ RunsCodex => RunsWhileDriven'
<1> SUFFICES ASSUME RunsWhileDriven, RunsCodex PROVE RunsWhileDriven'
  OBVIOUS
<1> USE DEF RunsWhileDriven
<1>1. harness = "codex" /\ harness' = harness
  BY DEF RunsCodex
<1>2. CASE \/ \E kind \in LineKinds, torn \in BOOLEAN : Codex!Writes(kind, torn)
           \/ Codex!WritesAnswer \/ Codex!Exits
  BY <1>1, <1>2 DEF Codex!Writes, Codex!WritesAnswer, Codex!Exits,
                    Codex!shared, Codex!own
<1>3. CASE Codex!Prepare \/ Codex!PrepareRaises
  BY <1>1, <1>3 DEF Codex!Prepare, Codex!PrepareRaises, Codex!own
<1>4. CASE Codex!ReadLine \/ Codex!Waited
  BY <1>1, <1>4 DEF Codex!ReadLine, Codex!Waited, Codex!own
<1>5. CASE \E cause \in {"late", "cancelled"} : Codex!Cut(cause)
  BY <1>1, <1>5 DEF Codex!Cut
<1>6. CASE Codex!Reaped \/ Codex!Insist \/ Codex!Interrupted
  BY <1>1, <1>6 DEF Codex!Reaped, Codex!Insist, Codex!Interrupted, Codex!own
<1>7. CASE \/ Codex!HandLate \/ Codex!PieceRaises \/ Codex!Cancelled
           \/ Codex!HandOver \/ Codex!AnswerUnreadable
  BY <1>1, <1>7 DEF Codex!HandLate, Codex!PieceRaises, Codex!Cancelled, Codex!HandOver,
                    Codex!AnswerUnreadable, Codex!Hand, Codex!own
<1>8. QED
  BY <1>2, <1>3, <1>4, <1>5, <1>6, <1>7 DEF RunsCodex, Codex!Next

LEMMA OpencodeDriven == RunsWhileDriven /\ RunsOpencode => RunsWhileDriven'
<1> SUFFICES ASSUME RunsWhileDriven, RunsOpencode PROVE RunsWhileDriven'
  OBVIOUS
<1> USE DEF RunsWhileDriven
<1>1. harness = "opencode" /\ harness' = harness
  BY DEF RunsOpencode
<1>2. CASE \/ Opencode!StartsAnswering \/ Opencode!Exits \/ Opencode!TurnEnds
           \/ \E kind \in Opencode!PartKinds : Opencode!Speaks(kind)
           \/ \E n \in 1..MaxParts, kind \in Opencode!CallKinds :
                  Opencode!CallEnds(n, kind)
  BY <1>1, <1>2 DEF Opencode!StartsAnswering, Opencode!Exits,
                    Opencode!TurnEnds, Opencode!Speaks, Opencode!CallEnds,
                    Opencode!shared
<1>3. CASE Opencode!Serve \/ Opencode!PrepareRaises \/ Opencode!PopenFails
  BY <1>1, <1>3 DEF Opencode!Serve, Opencode!PrepareRaises,
                    Opencode!PopenFails, Opencode!Hand
<1>4. CASE \/ Opencode!Ready \/ Opencode!NotReady
           \/ Opencode!PostTicket \/ Opencode!Replied \/ Opencode!Listed
  BY <1>1, <1>4 DEF Opencode!Ready, Opencode!NotReady, Opencode!PostTicket,
                    Opencode!Replied, Opencode!Listed
<1>5. CASE \E how \in {"caught", "raised"} : Opencode!Fails(how)
  BY <1>1, <1>5 DEF Opencode!Fails
<1>6. CASE Opencode!Stop
  BY <1>1, <1>6 DEF Opencode!Stop
<1>7. CASE Opencode!Replay
  BY <1>1, <1>7 DEF Opencode!Replay, Opencode!Hand
<1>8. QED
  BY <1>2, <1>3, <1>4, <1>5, <1>6, <1>7 DEF RunsOpencode, Opencode!Next


-----------------------------------------------------------------------------
(* Whichever loop it is                                                     *)

LoopInv ==
    /\ RunsWhileDriven
    /\ harness = "codex" => CodexInv
    /\ harness = "opencode" => OpencodeInv
    /\ harness = "pydantic-ai" => PydanticInv

LEMMA LoopStarts == Init => LoopInv /\ Contract!Init
<1> SUFFICES ASSUME Init PROVE LoopInv /\ Contract!Init
  OBVIOUS
<1>1. RunsWhileDriven
  BY DEF Init, RunsWhileDriven
<1>2. harness \in {"codex", "opencode", "pydantic-ai"}
  BY DEF Init
<1> QED BY <1>1, <1>2, CodexStarts, OpencodeStarts, PydanticStarts DEF LoopInv

LEMMA LoopStep ==
    LoopInv /\ [Next]_vars =>
        LoopInv' /\ [Contract!Next]_(Contract!vars)
<1> SUFFICES ASSUME LoopInv, [Next]_vars
             PROVE  LoopInv' /\ [Contract!Next]_(Contract!vars)
  OBVIOUS
<1>1. CASE RunsCodex
  <2>1. harness = "codex" /\ harness' = "codex"
    BY <1>1 DEF RunsCodex
  <2> QED BY <1>1, <2>1, CodexStep, CodexDriven DEF LoopInv
<1>2. CASE RunsOpencode
  <2>1. harness = "opencode" /\ harness' = "opencode"
    BY <1>2 DEF RunsOpencode
  <2> QED BY <1>2, <2>1, OpencodeStep, OpencodeDriven DEF LoopInv
<1>3. CASE RunsPydantic
  <2>1. harness = "pydantic-ai" /\ harness' = "pydantic-ai" /\ process' = process
    BY <1>3 DEF RunsPydantic
  <2>2. RunsWhileDriven'
    BY <2>1 DEF LoopInv, RunsWhileDriven
  <2> QED BY <1>3, <2>1, <2>2, PydanticStep DEF LoopInv
<1>4. CASE UNCHANGED vars
  <2>1. UNCHANGED <<harness, phase, heard, billed, outcome, process, pipe, lines, why, tools,
                    parts, turn, read, failure, requested, made, flying, result>>
    BY <1>4 DEF vars, codexVars, opencodeVars, pydanticVars
  <2>2. RunsWhileDriven'
    BY <2>1 DEF LoopInv, RunsWhileDriven
  <2>3. harness = "codex" => CodexInv'
    BY <2>1, CodexSame DEF LoopInv
  <2>4. harness = "opencode" => OpencodeInv'
    <3>1. Opencode!AllSteps(parts)' = Opencode!AllSteps(parts)
      BY <2>1, SameReplay
    <3>2. TellsWhatItRead => TellsWhatItRead'
      BY <2>1, <3>1 DEF TellsWhatItRead
    <3> QED BY <2>1, <3>2, SameReplay DEF LoopInv, OpencodeInv
  <2>5. harness = "pydantic-ai" => PydanticInv'
    BY <2>1 DEF LoopInv, PydanticInv
  <2>6. UNCHANGED Contract!vars
    BY <2>1, KeptSame DEF Contract!vars, Ended
  <2> QED BY <2>1, <2>2, <2>3, <2>4, <2>5, <2>6 DEF LoopInv
<1> QED BY <1>1, <1>2, <1>3, <1>4 DEF Next

LEMMA LoopAlways == Spec => []LoopInv
BY LoopStarts, LoopStep, PTL DEF Spec

\* Whatever the vendor does and wherever a deadline or a cancelled slot cuts it, the
\* process of a loop is gone when its investigation ends (codex.py's _reap, the
\* finally of opencode_api.py's serving); all but a codex whose slot was cancelled
\* while _reap waited for it to go.
THEOREM LoopsLeaveNoProcess == Spec => []NoProcessLeft
<1>1. LoopInv => NoProcessLeft
  BY DEF LoopInv, RunsWhileDriven, NoProcessLeft, Ended
<1> QED BY <1>1, LoopAlways, PTL

\* The record that from_steps makes of what was narrated is true at every moment,
\* for any number of calls, of turns that run them together, of lines that cannot be
\* read and of errors of the loop: a result by id closes the call it names, and one
\* by position finds no other call that waits.
THEOREM RecordAlwaysTrue == Spec => []RecordIsTrue
<1>1. LoopInv => RecordIsTrue
  <2> SUFFICES ASSUME LoopInv PROVE RecordIsTrue
    OBVIOUS
  <2>1. harness \in {"codex", "opencode", "pydantic-ai"}
    BY DEF LoopInv, RunsWhileDriven
  <2>2. CodexInv => RecordIsTrue
    BY SoundIsTrue DEF CodexInv, NarratesTurn
  <2>3. PydanticInv => RecordIsTrue
    BY KeyedIsTrue DEF PydanticInv
  <2> QED BY <2>1, <2>2, <2>3, OpencodeIsTrue DEF LoopInv
<1> QED BY <1>1, LoopAlways, PTL

\* In the record of an opencode conversation of any length, a call that was refused
\* reads as refused and one that is still running as open (steps, _declared).
THEOREM RefusalsReadAsErrors == Spec => []RefusalsAreErrors
<1>1. LoopInv => RefusalsAreErrors
  BY OpencodeIsTrue DEF LoopInv, RefusalsAreErrors
<1> QED BY <1>1, LoopAlways, PTL

\* Each loop keeps the contract that Investigation is checked with: whole reports are
\* kept or lost as they are made, an Outcome hands back those that were kept, and it
\* bills what the vendor reported.
THEOREM LoopsKeepContract == Spec => KeepsContract
<1>1. LoopInv /\ [Next]_vars => [Contract!Next]_(Contract!vars)
  BY LoopStep
<1>2. Init => Contract!Init
  BY LoopStarts
<1> QED BY <1>1, <1>2, LoopAlways, PTL DEF Spec, KeepsContract, Contract!Spec

\* An Outcome holds what was kept.
HandsKept == phase = "returned" => outcome.steps = Kept

LEMMA KeptIsHanded == Spec => []HandsKept
<1>1. Contract!Init => HandsKept
  BY DEF Contract!Init, HandsKept, Ended
<1>2. HandsKept /\ [Contract!Next]_(Contract!vars) => HandsKept'
  BY DEF HandsKept, Ended, Contract!Next, Contract!Report, Contract!Return, Contract!Raise,
         Contract!vars
<1> QED BY <1>1, <1>2, LoopsKeepContract, PTL DEF KeepsContract, Contract!Spec

\* What a watcher saw is what the Outcome holds (codex.py:288) exactly when no line of
\* codex is cut in two by splitlines(), for any number of lines and calls, whatever
\* ended the loop.
THEOREM WatchedIsKept == Spec => []SameRun
<1>1. LoopInv /\ HandsKept => SameRun
  <2> SUFFICES ASSUME LoopInv, HandsKept, phase = "returned"
               PROVE  outcome.steps = heard
                          <=> (harness = "codex" => \A n \in 1..Len(lines) : ~lines[n].torn)
    BY DEF SameRun
  <2>1. outcome.steps = Kept
    BY DEF HandsKept
  <2>2. CASE harness # "codex"
    BY <2>1, <2>2 DEF Kept
  <2>3. CASE harness = "codex"
    <3>1. /\ Whole(lines) => heard = Codex!AllSteps(lines)
          /\ ~Whole(lines) => Len(heard) > Len(Codex!AllSteps(lines))
          /\ heard \in Seq(Steps)
      BY <2>3 DEF LoopInv, CodexInv, NarratesLines, NarratesTurn, Sound
    <3>2. outcome.steps = Codex!AllSteps(lines)
      BY <2>1, <2>3 DEF Kept
    <3>3. outcome.steps = heard <=> Whole(lines)
      <4>1. ~(Len(heard) > Len(heard))
        BY <3>1
      <4> QED BY <3>1, <3>2, <4>1
    <3> QED BY <2>3, <3>3 DEF Whole
  <2> QED BY <2>2, <2>3
<1> QED BY <1>1, LoopAlways, KeptIsHanded, PTL

=============================================================================
